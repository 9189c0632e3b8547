------------------------------ MODULE Inbox_proofs ------------------------------
(***************************************************************************)
(* Proofs about what becomes of a message: the cursor that says how far    *)
(* the mailbox was read (GmailCursor), the bill and the task that a        *)
(* message leaves (MailTriage), the person whom its address belongs to     *)
(* (Relationships), the texts that reach the phone (MessageIntake), the    *)
(* actions that messages ask for (ActionQueue), and the news that the      *)
(* owner is briefed on (Briefings).                                        *)
(***************************************************************************)
EXTENDS GmailCursor, MailTriage, Relationships, MessageIntake, ActionQueue, Briefings,
        FiniteSetTheorems, SequenceTheorems, WellFoundedInduction, TLAPS

(***************************************************************************)
(* The cursor                                                              *)
(***************************************************************************)

\* A message that a cursor may pass.
Settled(m) == mail[m] # "none" \/ m \in passedOver \/ m \notin inInbox
Positions == 0..MailLimit \cup {Unset}
\* The cursor may be set to c.
Passable(c) == c \in 0..arrived /\ \A m \in 1..c : Settled(m)
SyncRows ==
  [pc : SyncPlaces, todo : SUBSET Messages, upto : Positions,
   at : Messages \cup {0}, found : BOOLEAN]

\* What a session will store as the cursor is settled, or still on its list; only what
\* has arrived is listed, and what is in hand is on the list.
SessionCovers(s) ==
  /\ sync[s].todo \subseteq 1..arrived
  /\ sync[s].at # 0 =>
       sync[s].at \in sync[s].todo /\ sync[s].pc \in {"reading", "scanning", "looking"}
  /\ sync[s].pc \in {"listing", "scan", "scanning", "reading"} => sync[s].upto \in 0..arrived
  /\ sync[s].pc = "listing" => \A m \in 1..sync[s].upto : Settled(m)
  /\ sync[s].pc \in {"scanning", "reading"} =>
       \A m \in 1..sync[s].upto : Settled(m) \/ m \in sync[s].todo

CursorInv ==
  /\ CursorTypeOK
  /\ CursorPassesNoUnreadMail
  /\ \A s \in SyncSessions : SessionCovers(s)

LEMMA CursorInitInv == ASSUME CursorAssumption, CursorInit PROVE CursorInv
<1>1. NoSync \in SyncRows /\ NoSync.pc = "idle" /\ NoSync.todo = {} /\ NoSync.at = 0
  <2>1. Unset \in Positions
    BY DEF Positions
  <2> QED BY <2>1 DEF NoSync, SyncRows, SyncPlaces
<1>2. sync \in [SyncSessions -> SyncRows] /\ \A s \in SyncSessions : sync[s] = NoSync
  BY <1>1 DEF CursorInit
<1>3. CursorTypeOK
  <2>1. /\ arrived \in 0..MailLimit /\ forgotten \in 0..arrived
        /\ cursor \in 0..arrived \cup {Unset} /\ watching \in BOOLEAN
        /\ inInbox \subseteq 1..arrived /\ mail \in [Messages -> MailStatuses]
        /\ passedOver \subseteq 1..arrived
    <3>1. 0 \in 0..MailLimit /\ 0 \in 0..0
      BY DEF CursorAssumption
    <3> QED BY <3>1 DEF CursorInit, MailStatuses
  <2> QED BY <1>2, <2>1 DEF CursorTypeOK, SyncRows, Positions
<1>4. CursorPassesNoUnreadMail
  BY DEF CursorInit, CursorPassesNoUnreadMail
<1> QED BY <1>1, <1>2, <1>3, <1>4 DEF CursorInv, SessionCovers

\* A session that proceeds leaves the mailbox and the others alone. The invariant holds
\* when what it covers and what it stores are settled.
LEMMA CursorQuiet ==
  ASSUME CursorAssumption, CursorInv, NEW s \in SyncSessions,
         sync' \in [SyncSessions -> SyncRows],
         \A o \in SyncSessions \ {s} : sync'[o] = sync[o],
         UNCHANGED <<arrived, inInbox, forgotten, watching>>,
         mail' \in [Messages -> MailStatuses],
         \A m \in Messages : mail[m] # "none" => mail'[m] # "none",
         passedOver \subseteq passedOver', passedOver' \subseteq 1..arrived,
         cursor' = cursor \/ Passable(cursor'),
         SessionCovers(s)'
  PROVE  CursorInv'
<1>0. arrived \in Nat /\ arrived \in 0..MailLimit /\ MailLimit \in Nat
      /\ cursor \in 0..arrived \cup {Unset}
  BY DEF CursorAssumption, CursorInv, CursorTypeOK
<1>2. \A m \in 1..arrived : Settled(m) => Settled(m)'
  BY <1>0 DEF Settled, Messages
<1>3. CursorTypeOK'
  BY <1>0 DEF CursorInv, CursorTypeOK, SyncRows, Positions, Passable
<1>4. CursorPassesNoUnreadMail'
  BY <1>0, <1>2 DEF CursorInv, CursorPassesNoUnreadMail, Settled, Passable
<1>5. ASSUME NEW o \in SyncSessions \ {s} PROVE SessionCovers(o)'
  <2>1. sync'[o] = sync[o] /\ SessionCovers(o)
    BY DEF CursorInv
  <2> QED BY <1>0, <1>2, <2>1 DEF SessionCovers
<1> QED BY <1>3, <1>4, <1>5 DEF CursorInv

LEMMA SyncStep ==
  ASSUME CursorAssumption, CursorInv, NEW s \in SyncSessions,
         \/ OpenMailbox(s) \/ ListHistory(s) \/ CapturePosition(s) \/ ListScan(s)
         \/ LookAtMail(s) \/ TakeMail(s) \/ ReadMail(s) \/ Checkpoint(s)
         \/ AdvanceCursor(s) \/ EndLook(s) \/ AbandonSync(s)
  PROVE  CursorInv'
<1>0. /\ arrived \in Nat /\ MailLimit \in Nat /\ arrived <= MailLimit
      /\ sync \in [SyncSessions -> SyncRows] /\ sync[s] \in SyncRows /\ SessionCovers(s)
      /\ mail \in [Messages -> MailStatuses] /\ passedOver \subseteq 1..arrived
      /\ cursor \in 0..arrived \cup {Unset} /\ Unset = MailLimit + 1
      /\ Messages = 1..MailLimit
  BY DEF CursorAssumption, CursorInv, CursorTypeOK, SyncRows, Positions, Unset, Messages
<1>1. /\ Unset \in Positions /\ arrived \in Positions /\ cursor \in Positions
      /\ \A todo \in SUBSET (1..arrived) : todo \in SUBSET Messages
  BY <1>0 DEF Positions
<1>2. cursor # Unset => \A m \in 1..cursor : Settled(m)
  BY DEF CursorInv, CursorPassesNoUnreadMail, Settled
<1>3. UNCHANGED <<inInbox, mail, passedOver>> => \A m : Settled(m)' = Settled(m)
  BY DEF Settled
<1>4. Newest \subseteq 1..arrived
  BY DEF Newest
\* What a session becomes, by the row that the action gives it.
<1>5. ASSUME NEW row \in SyncRows, Proceed(s, row)
      PROVE  /\ sync' \in [SyncSessions -> SyncRows] /\ sync'[s] = row
             /\ \A o \in SyncSessions \ {s} : sync'[o] = sync[o]
  BY <1>0, <1>5 DEF Proceed
<1>6. /\ Newest \in SUBSET Messages
      /\ sync[s].pc \in SyncPlaces /\ sync[s].upto \in Positions
      /\ sync[s].todo \in SUBSET (1..arrived)
  BY <1>0, <1>1, <1>4 DEF SyncRows, SessionCovers
<1>7. CASE OpenMailbox(s)
  <2> DEFINE pc == IF cursor = Unset THEN "profile" ELSE "listing"
             row == [NoSync EXCEPT !.pc = pc, !.upto = cursor]
  <2>1. row \in SyncRows /\ row.pc = pc /\ row.todo = {} /\ row.upto = cursor
        /\ row.at = 0
    <3>1. pc \in SyncPlaces
      BY DEF SyncPlaces
    <3> HIDE DEF pc
    <3> QED BY <1>1, <3>1 DEF NoSync, SyncRows
  <2>2. /\ sync' \in [SyncSessions -> SyncRows] /\ sync'[s] = row
        /\ \A o \in SyncSessions \ {s} : sync'[o] = sync[o]
    <3>1. Proceed(s, row)
      BY <1>7 DEF OpenMailbox
    <3> HIDE DEF row
    <3> QED BY <1>5, <2>1, <3>1
  <2>3. UNCHANGED <<arrived, inInbox, forgotten, watching, mail, passedOver, cursor>>
    BY <1>7 DEF OpenMailbox, mailboxVars
  <2>4. SessionCovers(s)'
    <3> HIDE DEF row
    <3> QED BY <1>0, <1>2, <1>3, <2>1, <2>2, <2>3 DEF SessionCovers
  <2> QED BY <1>0, <2>2, <2>3, <2>4, CursorQuiet
<1>8. CASE ListHistory(s)
  <2>0. UNCHANGED <<arrived, inInbox, forgotten, watching, mail, passedOver, cursor>>
        /\ sync[s].pc = "listing"
    BY <1>8 DEF ListHistory, mailboxVars
  <2>1. PICK row \in SyncRows :
          /\ Proceed(s, row) /\ row.pc \in {"reading", "profile"}
          /\ row.todo \in SUBSET (1..arrived) /\ row.at = 0
          /\ row.pc = "reading" =>
               row.upto = arrived /\ row.todo = (sync[s].upto + 1)..arrived
    <3>1. (sync[s].upto + 1)..arrived \in SUBSET (1..arrived)
      BY <1>0, <2>0 DEF SessionCovers
    <3>2. CASE sync[s].upto >= forgotten
      <4> DEFINE todo == (sync[s].upto + 1)..arrived
                 row == [NoSync EXCEPT !.pc = "reading", !.upto = arrived, !.todo = todo]
      <4>1. Proceed(s, row) /\ todo \in SUBSET (1..arrived) /\ todo \in SUBSET Messages
        BY <1>1, <1>8, <3>1, <3>2 DEF ListHistory
      <4>2. /\ row \in SyncRows /\ row.pc = "reading" /\ row.upto = arrived
            /\ row.todo = todo /\ row.at = 0
        <5> HIDE DEF todo
        <5> QED BY <1>1, <4>1 DEF NoSync, SyncRows, SyncPlaces
      <4> HIDE DEF row
      <4> QED BY <4>1, <4>2
    <3>3. CASE ~(sync[s].upto >= forgotten)
      <4> DEFINE row == [NoSync EXCEPT !.pc = "profile"]
      <4>1. row \in SyncRows /\ row.pc = "profile" /\ row.todo = {} /\ row.at = 0
        BY <1>1 DEF NoSync, SyncRows, SyncPlaces
      <4>2. Proceed(s, row)
        BY <1>8, <3>3 DEF ListHistory
      <4> HIDE DEF row
      <4> QED BY <4>1, <4>2
    <3> QED BY <3>2, <3>3
  <2>2. /\ sync' \in [SyncSessions -> SyncRows] /\ sync'[s] = row
        /\ \A o \in SyncSessions \ {s} : sync'[o] = sync[o]
    BY <1>5, <2>1
  <2>3. \A m \in 1..arrived : Settled(m) \/ m \in (sync[s].upto + 1)..arrived
    BY <1>0, <2>0 DEF SessionCovers
  <2>4. SessionCovers(s)'
    BY <1>0, <1>3, <2>0, <2>1, <2>2, <2>3 DEF SessionCovers
  <2> QED BY <1>0, <2>0, <2>2, <2>4, CursorQuiet
<1>9. CASE CapturePosition(s)
  <2> DEFINE row == [NoSync EXCEPT !.pc = "scan", !.upto = arrived]
  <2>1. row \in SyncRows /\ row.pc = "scan" /\ row.todo = {} /\ row.upto = arrived
        /\ row.at = 0
    BY <1>0, <1>1, <1>4, <1>6 DEF NoSync, SyncRows, SyncPlaces
  <2>10. /\ sync' \in [SyncSessions -> SyncRows] /\ sync'[s] = row
        /\ \A o \in SyncSessions \ {s} : sync'[o] = sync[o]
    <3>1. Proceed(s, row)
      BY <1>9 DEF CapturePosition
    <3> HIDE DEF row
    <3> QED BY <1>5, <2>1, <3>1
  <2> HIDE DEF row
  <2>2. UNCHANGED <<arrived, inInbox, forgotten, watching, mail, passedOver, cursor>>
    BY <1>9 DEF CapturePosition, mailboxVars
  <2>3. SessionCovers(s)'
    BY <1>0, <2>1, <2>10, <2>2 DEF SessionCovers
  <2> QED BY <1>0, <2>1, <2>10, <2>2, <2>3, CursorQuiet
<1>10. CASE ListScan(s)
  <2> DEFINE row == [sync[s] EXCEPT !.pc = "scanning", !.todo = Newest]
  <2>1. /\ row \in SyncRows /\ row.pc = "scanning" /\ row.todo = Newest
        /\ row.upto = sync[s].upto /\ row.at = sync[s].at
    BY <1>0, <1>1, <1>4, <1>6 DEF NoSync, SyncRows, SyncPlaces
  <2>10. /\ sync' \in [SyncSessions -> SyncRows] /\ sync'[s] = row
        /\ \A o \in SyncSessions \ {s} : sync'[o] = sync[o]
    <3>1. Proceed(s, row)
      BY <1>10 DEF ListScan
    <3> HIDE DEF row
    <3> QED BY <1>5, <2>1, <3>1
  <2> HIDE DEF row
  <2>2. /\ UNCHANGED <<arrived, inInbox, forgotten, watching, mail, cursor>>
        /\ passedOver' = passedOver \cup ((1..arrived) \ Newest) /\ sync[s].pc = "scan"
    BY <1>10 DEF ListScan, mailboxVars
  <2>3. \A m \in 1..arrived : Settled(m)' \/ m \in Newest
    BY <2>2 DEF Settled
  <2>4. SessionCovers(s)'
    <3>1. row.upto \in 0..arrived /\ row.todo \subseteq 1..arrived
      BY <1>0, <1>4, <2>1, <2>2 DEF SessionCovers
    <3>2. \A m \in 1..row.upto : m \in 1..arrived
      BY <1>0, <3>1
    <3>3. \A m \in 1..row.upto : Settled(m)' \/ m \in row.todo
      BY <2>1, <2>3, <3>2
    <3>4. row.at # 0 => row.at \in row.todo
      BY <1>0, <2>1, <2>2 DEF SessionCovers
    <3> QED BY <2>1, <2>10, <2>2, <3>1, <3>3, <3>4 DEF SessionCovers
  <2> QED BY <1>0, <2>1, <2>10, <2>2, <2>4, CursorQuiet
<1>11. CASE LookAtMail(s)
  <2> DEFINE row == [NoSync EXCEPT !.pc = "looking", !.todo = Newest]
  <2>1. row \in SyncRows /\ row.pc = "looking" /\ row.todo = Newest /\ row.at = 0
    BY <1>0, <1>1, <1>4, <1>6 DEF NoSync, SyncRows, SyncPlaces
  <2>10. /\ sync' \in [SyncSessions -> SyncRows] /\ sync'[s] = row
        /\ \A o \in SyncSessions \ {s} : sync'[o] = sync[o]
    <3>1. Proceed(s, row)
      BY <1>11 DEF LookAtMail
    <3> HIDE DEF row
    <3> QED BY <1>5, <2>1, <3>1
  <2> HIDE DEF row
  <2>2. UNCHANGED <<arrived, inInbox, forgotten, watching, mail, passedOver, cursor>>
    BY <1>11 DEF LookAtMail, mailboxVars
  <2>3. SessionCovers(s)'
    BY <1>0, <1>4, <2>1, <2>10, <2>2 DEF SessionCovers
  <2> QED BY <1>0, <2>1, <2>10, <2>2, <2>3, CursorQuiet
<1>12. CASE ReadMail(s)
  <2>0. PICK m \in 1..arrived : m = sync[s].at /\ m \in sync[s].todo
    BY <1>0, <1>6, <1>12 DEF ReadMail, SessionCovers
  <2> DEFINE row == [sync[s] EXCEPT !.at = 0, !.found = FALSE, !.todo = @ \ {m}]
  <2>1. /\ m # 0 /\ m \in sync[s].todo /\ m \in 1..arrived /\ m \in Messages
        /\ UNCHANGED <<arrived, inInbox, forgotten, watching, passedOver, cursor>>
        /\ Proceed(s, row)
    BY <1>0, <1>12, <2>0 DEF ReadMail, mailboxVars
  <2>2. PICK status \in {"processed", "deferred_ai"} : mail' = [mail EXCEPT ![m] = status]
    BY <1>12, <2>0 DEF ReadMail
  <2>3. /\ row \in SyncRows /\ row.pc = sync[s].pc /\ row.todo = sync[s].todo \ {m}
        /\ row.upto = sync[s].upto /\ row.at = 0
    BY <1>0, <2>1 DEF SyncRows
  <2>4. /\ sync' \in [SyncSessions -> SyncRows] /\ sync'[s] = row
        /\ \A o \in SyncSessions \ {s} : sync'[o] = sync[o]
    <3> HIDE DEF row
    <3> QED BY <1>5, <2>1, <2>3
  <2> HIDE DEF row
  <2>5. /\ mail' \in [Messages -> MailStatuses] /\ mail'[m] # "none"
        /\ \A n \in Messages : mail[n] # "none" => mail'[n] # "none"
    BY <1>0, <2>1, <2>2 DEF MailStatuses
  <2>6. Settled(m)' /\ \A n \in 1..arrived : Settled(n) => Settled(n)'
    <3>1. /\ 1..arrived \subseteq Messages
          /\ UNCHANGED <<inInbox, passedOver>> /\ mail'[m] # "none"
      BY <1>0, <2>1, <2>5
    <3>2. Settled(m)'
      BY <3>1 DEF Settled
    <3>3. ASSUME NEW n \in 1..arrived, Settled(n) PROVE Settled(n)'
      BY <2>5, <3>1, <3>3 DEF Settled
    <3> QED BY <3>2, <3>3
  <2>7. SessionCovers(s)'
    <3>1. /\ row.pc \in {"listing", "scan", "scanning", "reading"} => row.upto \in 0..arrived
          /\ row.pc = "listing" => \A n \in 1..row.upto : Settled(n)
          /\ row.pc \in {"scanning", "reading"} =>
               \A n \in 1..row.upto : Settled(n) \/ n \in sync[s].todo
      BY <1>0, <2>3 DEF SessionCovers
    <3>2. row.pc \in {"listing", "scan", "scanning", "reading"} =>
            1..row.upto \subseteq 1..arrived
      BY <1>0, <3>1
    <3>3. /\ row.pc = "listing" => \A n \in 1..row.upto : Settled(n)'
          /\ row.pc \in {"scanning", "reading"} =>
               \A n \in 1..row.upto : Settled(n)' \/ n \in row.todo
      <4>1. \A n \in 1..row.upto : row.pc \in {"listing", "scan", "scanning", "reading"} =>
              /\ Settled(n) => Settled(n)'
              /\ n \in sync[s].todo => Settled(n)' \/ n \in row.todo
        <5>1. ASSUME NEW n \in 1..row.upto,
                     row.pc \in {"listing", "scan", "scanning", "reading"}
              PROVE  n \in 1..arrived
          BY <3>2, <5>1
        <5> QED BY <2>3, <2>6, <5>1
      <4> QED BY <3>1, <4>1
    <3> QED BY <1>6, <2>1, <2>3, <2>4, <3>1, <3>3 DEF SessionCovers
  <2> QED BY <1>0, <2>1, <2>4, <2>5, <2>7, CursorQuiet
<1>15. CASE TakeMail(s)
  <2>1. PICK m \in sync[s].todo :
          IF (sync[s].pc = "reading" /\ m \notin inInbox) \/ mail[m] = "processed"
            THEN Proceed(s, [sync[s] EXCEPT !.todo = @ \ {m}])
            ELSE Proceed(s, [sync[s] EXCEPT !.at = m, !.found = mail[m] # "none"])
    BY <1>15 DEF TakeMail
  <2>2. UNCHANGED <<arrived, inInbox, forgotten, watching, mail, passedOver, cursor>>
        /\ m \in 1..arrived /\ m \in Messages /\ sync[s].at = 0
        /\ sync[s].pc \in {"reading", "scanning", "looking"}
    <3>1. m \in 1..arrived
      BY <1>6
    <3>2. m \in Messages
      BY <1>0, <3>1
    <3> QED BY <1>15, <3>1, <3>2 DEF TakeMail, AtMail, mailboxVars
  <2>3. PICK row \in SyncRows :
          /\ Proceed(s, row) /\ row.pc = sync[s].pc /\ row.upto = sync[s].upto
          /\ \/ row.todo = sync[s].todo \ {m} /\ row.at = 0 /\ Settled(m)
             \/ row.todo = sync[s].todo /\ row.at = m
    <3>1. CASE (sync[s].pc = "reading" /\ m \notin inInbox) \/ mail[m] = "processed"
      <4> DEFINE row == [sync[s] EXCEPT !.todo = @ \ {m}]
      <4>1. /\ row \in SyncRows /\ row.pc = sync[s].pc /\ row.upto = sync[s].upto
            /\ row.todo = sync[s].todo \ {m} /\ row.at = 0
        BY <1>0, <2>2 DEF SyncRows
      <4>2. Proceed(s, row) /\ Settled(m)
        BY <2>1, <3>1 DEF Settled
      <4> HIDE DEF row
      <4> QED BY <4>1, <4>2
    <3>2. CASE ~((sync[s].pc = "reading" /\ m \notin inInbox) \/ mail[m] = "processed")
      <4> DEFINE row == [sync[s] EXCEPT !.at = m, !.found = mail[m] # "none"]
      <4>1. /\ row \in SyncRows /\ row.pc = sync[s].pc /\ row.upto = sync[s].upto
            /\ row.todo = sync[s].todo /\ row.at = m
        BY <1>0, <2>2 DEF SyncRows
      <4>2. Proceed(s, row)
        BY <2>1, <3>2
      <4> HIDE DEF row
      <4> QED BY <4>1, <4>2
    <3> QED BY <3>1, <3>2
  <2>4. /\ sync' \in [SyncSessions -> SyncRows] /\ sync'[s] = row
        /\ \A o \in SyncSessions \ {s} : sync'[o] = sync[o]
    BY <1>5, <2>3
  <2>5. SessionCovers(s)'
    BY <1>0, <1>3, <2>2, <2>3, <2>4 DEF SessionCovers
  <2> QED BY <1>0, <2>2, <2>4, <2>5, CursorQuiet
<1>13. CASE Checkpoint(s)
  <2> DEFINE row == [sync[s] EXCEPT !.pc = "listing"]
  <2>1. /\ row \in SyncRows /\ row.pc = "listing" /\ row.todo = sync[s].todo
        /\ row.upto = sync[s].upto /\ row.at = sync[s].at
    BY <1>0, <1>1, <1>4, <1>6 DEF NoSync, SyncRows, SyncPlaces
  <2>10. /\ sync' \in [SyncSessions -> SyncRows] /\ sync'[s] = row
        /\ \A o \in SyncSessions \ {s} : sync'[o] = sync[o]
    <3>1. Proceed(s, row)
      BY <1>13 DEF Checkpoint
    <3> HIDE DEF row
    <3> QED BY <1>5, <2>1, <3>1
  <2> HIDE DEF row
  <2>2. /\ UNCHANGED <<arrived, inInbox, forgotten, watching, mail, passedOver>>
        /\ sync[s].pc = "scanning" /\ sync[s].todo = {} /\ cursor' = sync[s].upto
    BY <1>13 DEF Checkpoint, mailboxVars
  <2>3. Passable(sync[s].upto)
    BY <1>0, <2>2 DEF SessionCovers, Passable
  <2>4. SessionCovers(s)'
    BY <1>0, <1>3, <2>1, <2>10, <2>2, <2>3 DEF SessionCovers, Passable
  <2> QED BY <1>0, <2>1, <2>10, <2>2, <2>3, <2>4, CursorQuiet
<1>14. CASE AdvanceCursor(s) \/ EndLook(s) \/ AbandonSync(s)
  <2>1. /\ sync' \in [SyncSessions -> SyncRows]
        /\ \A o \in SyncSessions \ {s} : sync'[o] = sync[o]
        /\ sync'[s].pc = "idle" /\ sync'[s].todo = {} /\ sync'[s].at = 0
    <3>1. /\ Proceed(s, NoSync) /\ NoSync \in SyncRows
          /\ NoSync.pc = "idle" /\ NoSync.todo = {} /\ NoSync.at = 0
      BY <1>1, <1>14 DEF AdvanceCursor, EndLook, AbandonSync, NoSync, SyncRows, SyncPlaces
    <3> QED BY <1>5, <3>1
  <2>2. /\ UNCHANGED <<arrived, inInbox, forgotten, watching, mail, passedOver>>
        /\ \/ cursor' = cursor
           \/ sync[s].pc = "reading" /\ sync[s].todo = {} /\ cursor' = sync[s].upto
    BY <1>14 DEF AdvanceCursor, EndLook, AbandonSync, mailboxVars
  <2>3. sync[s].pc = "reading" /\ sync[s].todo = {} => Passable(sync[s].upto)
    BY <1>0 DEF SessionCovers, Passable
  <2>4. SessionCovers(s)'
    BY <1>0, <2>1 DEF SessionCovers
  <2> QED BY <1>0, <2>1, <2>2, <2>3, <2>4, CursorQuiet
<1> QED
  BY <1>7, <1>8, <1>9, <1>10, <1>11, <1>12, <1>13, <1>14, <1>15

LEMMA MailboxStep ==
  ASSUME CursorAssumption, CursorInv,
         RenewWatch \/ ExpireWatch \/ Arrive \/ LeaveInbox \/ ForgetHistory
  PROVE  CursorInv'
<1>0. /\ arrived \in Nat /\ MailLimit \in Nat /\ Unset = MailLimit + 1
      /\ arrived \in 0..MailLimit /\ forgotten \in 0..arrived
      /\ cursor \in 0..arrived \cup {Unset} /\ inInbox \subseteq 1..arrived
      /\ arrived' \in 0..MailLimit /\ arrived <= arrived' /\ forgotten' \in 0..arrived'
      /\ UNCHANGED <<mail, cursor, passedOver, sync>> /\ watching' \in BOOLEAN
      /\ inInbox' \subseteq 1..arrived'
  <2>1. /\ arrived \in Nat /\ MailLimit \in Nat /\ Unset = MailLimit + 1
        /\ arrived \in 0..MailLimit /\ forgotten \in 0..arrived
        /\ cursor \in 0..arrived \cup {Unset} /\ inInbox \subseteq 1..arrived
        /\ watching \in BOOLEAN
    BY DEF CursorAssumption, CursorInv, CursorTypeOK, Unset
  <2>2. CASE Arrive
    BY <2>1, <2>2 DEF Arrive
  <2>3. CASE LeaveInbox
    BY <2>1, <2>3 DEF LeaveInbox
  <2>4. CASE ForgetHistory
    BY <2>1, <2>4 DEF ForgetHistory
  <2>5. CASE RenewWatch \/ ExpireWatch
    <3>1. UNCHANGED <<arrived, inInbox, forgotten, mail, cursor, passedOver, sync>>
          /\ watching' \in BOOLEAN
      BY <2>5 DEF RenewWatch, ExpireWatch, mailboxVars
    <3> QED BY <2>1, <3>1
  <2> QED BY <2>1, <2>2, <2>3, <2>4, <2>5
<1>1. \A m \in 1..arrived : Settled(m) => Settled(m)'
  BY <1>0 DEF Settled, RenewWatch, ExpireWatch, Arrive, LeaveInbox, ForgetHistory, mailboxVars
<1>2. CursorTypeOK'
  BY <1>0 DEF CursorInv, CursorTypeOK
<1>3. CursorPassesNoUnreadMail'
  BY <1>0, <1>1 DEF CursorInv, CursorPassesNoUnreadMail, Settled
<1>4. ASSUME NEW s \in SyncSessions PROVE SessionCovers(s)'
  BY <1>0, <1>1 DEF CursorInv, SessionCovers
<1> QED BY <1>2, <1>3, <1>4 DEF CursorInv

LEMMA CursorInvariant == ASSUME CursorAssumption PROVE CursorSpec => []CursorInv
<1>1. CursorInv /\ UNCHANGED cursorVars => CursorInv'
  BY DEF CursorInv, CursorTypeOK, CursorPassesNoUnreadMail, SessionCovers, Settled, cursorVars
<1>2. CursorInv /\ [CursorNext]_cursorVars => CursorInv'
  BY <1>1, SyncStep, MailboxStep DEF CursorNext
<1> QED BY <1>2, CursorInitInv, PTL DEF CursorSpec

\* The mailbox, the cursor and the sessions' lists keep their types.
THEOREM CursorTypes == ASSUME CursorAssumption PROVE CursorSpec => []CursorTypeOK
BY CursorInvariant, PTL DEF CursorInv

\* The stored cursor passes no message that is in the INBOX and was neither processed nor
\* deferred nor out of the reach of a recovery scan: for any number of sessions and messages, however
\* recoveries, notifications, routes and crashes overlap.
THEOREM CursorIsCovered ==
  ASSUME CursorAssumption PROVE CursorSpec => []CursorPassesNoUnreadMail
BY CursorInvariant, PTL DEF CursorInv

-----------------------------------------------------------------------------
(***************************************************************************)
(* The bill and the task                                                   *)
(***************************************************************************)

Triagers == [pc : {"idle", "loaded", "deciding", "filing", "archiving", "billing", "closing"},
             status : MessageStates, decision : Decisions \cup {NoDecision},
             deferred : BOOLEAN, chore : BOOLEAN, bill : BOOLEAN]
AtWork(s) == triager[s].pc \notin {"idle", "loaded"}

\* What a session that is about to bill, or to add the task, relies on: unless sessions
\* were at work at once, nobody has billed or added it since it looked.
TriagerFine(s) ==
  /\ triager[s].pc \in {"filing", "archiving", "billing", "closing"} =>
       triager[s].decision \in Decisions
  /\ triager[s].bill => triager[s].pc = "closing" /\ triager[s].decision \in Creditors
  /\ triager[s].chore => AtWork(s)
  /\ ~torn =>
       /\ triager[s].chore => chores = 0
       /\ triager[s].pc = "closing" /\ triager[s].decision \in Creditors =>
            (triager[s].bill <=> bills[triager[s].decision] = 0)

TriageInv ==
  /\ TriageTypeOK
  /\ message = "processed" => fingerprint # NoDecision
  /\ BilledOnce
  /\ ~torn => \A s, o \in Readers : AtWork(s) /\ AtWork(o) => s = o
  /\ \A s \in Readers : TriagerFine(s)

LEMMA TriageTypes0 == ASSUME TriageTypeOK PROVE triager \in [Readers -> Triagers]
BY DEF TriageTypeOK, Triagers

LEMMA UnreadIsTriager ==
  Unread \in Triagers /\ Unread.pc = "idle" /\ ~Unread.bill /\ ~Unread.chore
BY DEF Unread, Triagers, MessageStates

LEMMA TriageInitInv == ASSUME TriageAssumption, TriageInit PROVE TriageInv
<1>1. triager \in [Readers -> Triagers] /\ \A s \in Readers : triager[s] = Unread
  BY UnreadIsTriager DEF TriageInit
<1>2. bills \in [Creditors -> 0..BillLimit] /\ chores \in 0..BillLimit
      /\ \A n \in Creditors : bills[n] = 0
  BY DEF TriageInit, TriageAssumption
<1>3. TriageTypeOK
  BY <1>1, <1>2 DEF TriageTypeOK, Triagers, TriageInit, MessageStates
<1>4. BilledOnce
  BY <1>2 DEF BilledOnce, TriageInit
<1> QED
  BY <1>1, <1>3, <1>4, UnreadIsTriager DEF TriageInv, TriagerFine, AtWork, TriageInit

\* A step of session s to row: the others' rows stay good, as they rely on bills and
\* tasks only while they are at work, and then s is not.
LEMMA TriageMoves ==
  ASSUME TriageInv, NEW s \in Readers, NEW row \in Triagers, ReadOn(s, row),
         torn => torn', torn' \in BOOLEAN,
         row.pc \notin {"idle", "loaded"} =>
           AtWork(s) \/ torn' \/ \A o \in Readers \ {s} : ~AtWork(o),
         AtWork(s) \/ UNCHANGED <<bills, chores>>,
         message' \in MessageStates, fingerprint' \in Decisions \cup {NoDecision},
         bills' \in [Creditors -> 0..BillLimit], chores' \in 0..BillLimit,
         messageLock' \in Readers \cup {NoReader},
         message' = "processed" => fingerprint' # NoDecision,
         BilledOnce',
         row.pc \in {"filing", "archiving", "billing", "closing"} =>
           row.decision \in Decisions,
         row.bill => row.pc = "closing" /\ row.decision \in Creditors,
         row.chore => row.pc \notin {"idle", "loaded"},
         ~torn' => /\ row.chore => chores' = 0
                   /\ row.pc = "closing" /\ row.decision \in Creditors =>
                        (row.bill <=> bills'[row.decision] = 0)
  PROVE  TriageInv'
<1>0. triager \in [Readers -> Triagers]
  BY TriageTypes0 DEF TriageInv
<1>1. /\ triager' \in [Readers -> Triagers] /\ triager'[s] = row
      /\ \A o \in Readers \ {s} : triager'[o] = triager[o]
  BY <1>0 DEF ReadOn
<1>2. TriageTypeOK'
  BY <1>1 DEF TriageTypeOK, Triagers
<1>3. ~torn' => \A r, o \in Readers : AtWork(r)' /\ AtWork(o)' => r = o
  BY <1>1 DEF TriageInv, AtWork
<1>4. TriagerFine(s)'
  BY <1>1 DEF TriagerFine, AtWork
<1>5. ASSUME NEW o \in Readers \ {s} PROVE TriagerFine(o)'
  <2>1. triager'[o] = triager[o] /\ TriagerFine(o) /\ (AtWork(o)' <=> AtWork(o))
    BY <1>1 DEF TriageInv, AtWork
  <2>2. CASE torn'
    BY <2>1, <2>2 DEF TriagerFine
  <2>3. CASE ~torn' /\ AtWork(s)
    <3>1. ~AtWork(o)
      BY <2>3 DEF TriageInv
    <3>2. ~triager[o].chore /\ triager[o].pc # "closing"
      BY <2>1, <3>1 DEF TriagerFine, AtWork
    <3> QED BY <2>1, <3>2 DEF TriagerFine
  <2>4. CASE ~torn' /\ UNCHANGED <<bills, chores>>
    BY <2>1, <2>4 DEF TriagerFine
  <2> QED BY <2>2, <2>3, <2>4
<1> QED BY <1>2, <1>3, <1>4, <1>5 DEF TriageInv

LEMMA AddOnce == ASSUME TriageAssumption, NEW n \in 0..BillLimit
                 PROVE  Add(n) \in 0..BillLimit /\ (n = 0 => Add(n) = 1)
BY DEF Add, TriageAssumption

LEMMA TriageStep ==
  ASSUME TriageAssumption, TriageInv, NEW s \in Readers,
         \/ LoadMessage(s) \/ BeginMessage(s) \/ DecideWithoutAI(s) \/ DecideByAI(s)
         \/ FileMessage(s) \/ ArchiveFiles(s) \/ BillMessage(s) \/ CloseMessage(s)
         \/ CrashReader(s)
  PROVE  TriageInv'
<1>0. /\ triager[s] \in Triagers /\ TriagerFine(s) /\ BilledOnce
      /\ message \in MessageStates /\ fingerprint \in Decisions \cup {NoDecision}
      /\ bills \in [Creditors -> 0..BillLimit] /\ chores \in 0..BillLimit
      /\ messageLock \in Readers \cup {NoReader} /\ torn \in BOOLEAN
      /\ message = "processed" => fingerprint # NoDecision
      /\ NoDecision \notin Decisions /\ Creditors \subseteq Decisions
  <2>1. triager[s] \in Triagers
    BY TriageTypes0 DEF TriageInv
  <2> QED BY <2>1 DEF TriageInv, TriageTypeOK, TriageAssumption, Decisions
<1>1. /\ triager[s].pc \notin {"idle", "loaded"} => AtWork(s)
      /\ UNCHANGED <<message, fingerprint, bills, chores, torn>> => BilledOnce'
  BY <1>0 DEF AtWork, BilledOnce
<1>2. CASE LoadMessage(s)
  <2> DEFINE row == [Unread EXCEPT !.pc = "loaded", !.status = message]
  <2>1. row \in Triagers /\ row.pc = "loaded" /\ ~row.bill /\ ~row.chore
    BY <1>0 DEF Unread, Triagers, MessageStates
  <2>2. ReadOn(s, row) /\ UNCHANGED <<message, fingerprint, bills, chores, messageLock, torn>>
    BY <1>2 DEF LoadMessage
  <2> HIDE DEF row
  <2> QED BY <1>0, <1>1, <2>1, <2>2, TriageMoves
<1>3. CASE BeginMessage(s)
  <2> DEFINE row == [triager[s] EXCEPT !.pc = "deciding"]
  <2>1. row \in Triagers /\ row.pc = "deciding" /\ (row.bill <=> triager[s].bill)
        /\ (row.chore <=> triager[s].chore)
    BY <1>0 DEF Triagers
  <2>2. ReadOn(s, row) /\ UNCHANGED <<message, fingerprint, bills, chores>>
        /\ triager[s].pc = "loaded" /\ torn' = (torn \/ OthersWork(s))
        /\ messageLock' \in Readers \cup {NoReader}
    BY <1>0, <1>3 DEF BeginMessage, Reads
  <2>3. torn' \/ \A o \in Readers \ {s} : ~AtWork(o)
    BY <2>2 DEF OthersWork, Reads, AtWork
  <2>4. ~triager[s].bill /\ ~triager[s].chore
    BY <1>0, <2>2 DEF TriagerFine, AtWork
  <2>5. torn' \in BOOLEAN /\ BilledOnce'
    BY <1>0, <2>2 DEF OthersWork, BilledOnce
  <2> HIDE DEF row
  <2> QED BY <1>0, <2>1, <2>2, <2>3, <2>4, <2>5, TriageMoves
<1>4. ASSUME NEW d \in Decisions, NEW deferred \in BOOLEAN, Decide(s, d, deferred),
             triager[s].pc = "deciding",
             UNCHANGED <<message, fingerprint, bills, chores, messageLock, torn>>
      PROVE  TriageInv'
  <2> DEFINE row == [triager[s] EXCEPT !.pc = "filing", !.decision = d, !.deferred = deferred]
  <2>1. row \in Triagers /\ row.pc = "filing" /\ (row.bill <=> triager[s].bill)
        /\ (row.chore <=> triager[s].chore) /\ row.decision = d
    BY <1>0, <1>4 DEF Triagers
  <2>2. ReadOn(s, row)
    BY <1>4 DEF Decide
  <2>3. ~triager[s].bill /\ (~torn /\ triager[s].chore => chores = 0)
    BY <1>0, <1>4 DEF TriagerFine
  <2> HIDE DEF row
  <2> QED BY <1>0, <1>1, <1>4, <2>1, <2>2, <2>3, TriageMoves
<1>5. CASE DecideWithoutAI(s)
  <2>1. PICK d \in Decisions, deferred \in BOOLEAN : Decide(s, d, deferred)
    BY <1>0, <1>5 DEF DecideWithoutAI, Decisions
  <2> QED BY <1>4, <1>5, <2>1 DEF DecideWithoutAI, Reads
<1>6. CASE DecideByAI(s)
  <2>1. PICK d \in Decisions :
          /\ fingerprint' = d
          /\ ReadOn(s, [triager[s] EXCEPT !.pc = "filing", !.decision = d,
                                         !.status = "processing"])
    BY <1>6 DEF DecideByAI
  <2> DEFINE row == [triager[s] EXCEPT !.pc = "filing", !.decision = d,
                                      !.status = "processing"]
  <2>2. row \in Triagers /\ row.pc = "filing" /\ (row.bill <=> triager[s].bill)
        /\ (row.chore <=> triager[s].chore) /\ row.decision = d
    BY <1>0 DEF Triagers, MessageStates
  <2>3. /\ ReadOn(s, row) /\ UNCHANGED <<bills, chores, torn>>
        /\ triager[s].pc = "deciding" /\ fingerprint = NoDecision
        /\ message' \in {message, "processing"}
        /\ messageLock' \in Readers \cup {NoReader}
    BY <1>0, <1>6, <2>1 DEF DecideByAI, CommitHalf, FreeLock, Reads
  <2>4. ~triager[s].bill /\ (~torn /\ triager[s].chore => chores = 0)
    BY <1>0, <2>3 DEF TriagerFine
  <2>5. message' # "processed" /\ message' \in MessageStates
    BY <1>0, <2>3 DEF MessageStates
  <2>6. BilledOnce'
    BY <1>0, <2>3, <2>5 DEF BilledOnce
  <2> HIDE DEF row
  <2> QED BY <1>0, <1>1, <2>1, <2>2, <2>3, <2>4, <2>5, <2>6, TriageMoves
<1>7. CASE FileMessage(s)
  <2>1. PICK pc \in {"archiving", "billing"}, chore \in BOOLEAN :
          /\ chore => chores = 0
          /\ ReadOn(s, [triager[s] EXCEPT !.pc = pc, !.chore = chore])
    BY <1>7 DEF FileMessage
  <2> DEFINE row == [triager[s] EXCEPT !.pc = pc, !.chore = chore]
  <2>2. row \in Triagers /\ row.pc = pc /\ (row.bill <=> triager[s].bill)
        /\ (row.chore <=> chore) /\ row.decision = triager[s].decision
    BY <1>0 DEF Triagers
  <2>3. ReadOn(s, row) /\ triager[s].pc = "filing"
        /\ UNCHANGED <<message, fingerprint, bills, chores, messageLock, torn>>
    BY <1>7, <2>1 DEF FileMessage, Reads
  <2>4. ~triager[s].bill /\ triager[s].decision \in Decisions
    BY <1>0, <2>3 DEF TriagerFine
  <2> HIDE DEF row
  <2> QED BY <1>0, <1>1, <2>1, <2>2, <2>3, <2>4, TriageMoves
<1>8. CASE ArchiveFiles(s)
  <2> DEFINE row == [triager[s] EXCEPT !.pc = "billing", !.chore = FALSE,
                                      !.status = "processing"]
  <2>1. row \in Triagers /\ row.pc = "billing" /\ (row.bill <=> triager[s].bill)
        /\ ~row.chore /\ row.decision = triager[s].decision
    BY <1>0 DEF Triagers, MessageStates
  <2>2. /\ ReadOn(s, row) /\ triager[s].pc = "archiving"
        /\ UNCHANGED <<fingerprint, bills, torn>>
        /\ message' \in {message, "processing"}
        /\ messageLock' \in Readers \cup {NoReader}
        /\ chores' = IF triager[s].chore THEN Add(chores) ELSE chores
    BY <1>0, <1>8 DEF ArchiveFiles, CommitHalf, FreeLock, Reads
  <2>3. ~triager[s].bill /\ triager[s].decision \in Decisions
        /\ (~torn /\ triager[s].chore => chores = 0)
    BY <1>0, <2>2 DEF TriagerFine
  <2>4. chores' \in 0..BillLimit /\ (~torn => chores' <= 1)
    BY <1>0, <2>2, <2>3, AddOnce DEF BilledOnce
  <2>5. message' \in MessageStates /\ (message' = "processed" => message = "processed")
    BY <1>0, <2>2 DEF MessageStates
  <2>6. BilledOnce'
    BY <1>0, <2>2, <2>4, <2>5 DEF BilledOnce
  <2> HIDE DEF row
  <2> QED BY <1>0, <1>1, <2>1, <2>2, <2>3, <2>4, <2>5, <2>6, TriageMoves
<1>9. CASE BillMessage(s)
  <2>1. PICK bill \in BOOLEAN :
          /\ bill <=> triager[s].decision # NoBill /\ ~Billed(triager[s].decision)
          /\ ReadOn(s, [triager[s] EXCEPT !.pc = "closing", !.bill = bill])
    <3> DEFINE bill == IF triager[s].decision = NoBill THEN FALSE
                       ELSE ~Billed(triager[s].decision)
    <3>1. bill \in BOOLEAN
          /\ (bill <=> triager[s].decision # NoBill /\ ~Billed(triager[s].decision))
      BY DEF Billed
    <3>2. ReadOn(s, [triager[s] EXCEPT !.pc = "closing", !.bill = bill])
      BY <1>9 DEF BillMessage
    <3> HIDE DEF bill
    <3> QED BY <3>1, <3>2
  <2> DEFINE row == [triager[s] EXCEPT !.pc = "closing", !.bill = bill]
  <2>2. row \in Triagers /\ row.pc = "closing" /\ (row.bill <=> bill)
        /\ (row.chore <=> triager[s].chore) /\ row.decision = triager[s].decision
    BY <1>0 DEF Triagers
  <2>3. ReadOn(s, row) /\ triager[s].pc = "billing"
        /\ UNCHANGED <<message, fingerprint, bills, chores, messageLock, torn>>
    BY <1>9, <2>1 DEF BillMessage, Reads
  <2>4. triager[s].decision \in Creditors \cup {NoBill}
        /\ (~torn /\ triager[s].chore => chores = 0)
    BY <1>0, <2>3 DEF TriagerFine, Decisions
  <2>5. triager[s].decision \in Creditors =>
          (bill <=> bills[triager[s].decision] = 0)
    BY <1>0, <2>1 DEF Billed, TriageAssumption
  <2>6. bill => triager[s].decision \in Creditors
    BY <2>1, <2>4
  <2> HIDE DEF row
  <2> QED BY <1>0, <1>1, <2>2, <2>3, <2>4, <2>5, <2>6, TriageMoves DEF Decisions
<1>10. CASE CloseMessage(s)
  <2>1. /\ ReadOn(s, Unread) /\ triager[s].pc = "closing" /\ UNCHANGED torn
        /\ message' = IF triager[s].deferred THEN "deferred_ai" ELSE "processed"
        /\ fingerprint' = IF triager[s].deferred THEN fingerprint ELSE triager[s].decision
        /\ bills' = IF triager[s].bill THEN [bills EXCEPT ![triager[s].decision] = Add(@)]
                    ELSE bills
        /\ chores' = IF triager[s].chore THEN Add(chores) ELSE chores
        /\ messageLock' \in Readers \cup {NoReader}
    BY <1>0, <1>10 DEF CloseMessage, FreeLock, Reads
  <2>2. /\ triager[s].decision \in Decisions
        /\ triager[s].bill => triager[s].decision \in Creditors
        /\ ~torn => /\ triager[s].chore => chores = 0
                    /\ triager[s].decision \in Creditors =>
                         (triager[s].bill <=> bills[triager[s].decision] = 0)
    BY <1>0, <2>1 DEF TriagerFine
  <2>3. chores' \in 0..BillLimit /\ (~torn => chores' <= 1)
    BY <1>0, <2>1, <2>2, AddOnce DEF BilledOnce
  <2>4. /\ bills' \in [Creditors -> 0..BillLimit]
        /\ ~torn => /\ \A n \in Creditors : bills'[n] <= 1
                    /\ triager[s].decision \in Creditors => bills'[triager[s].decision] = 1
    <3>1. CASE triager[s].bill
      <4>1. bills' \in [Creditors -> 0..BillLimit]
            /\ bills'[triager[s].decision] = Add(bills[triager[s].decision])
            /\ \A n \in Creditors \ {triager[s].decision} : bills'[n] = bills[n]
        BY <1>0, <2>1, <2>2, <3>1, AddOnce
      <4>2. ~torn => bills'[triager[s].decision] = 1
        BY <1>0, <2>2, <3>1, <4>1, AddOnce
      <4> QED BY <1>0, <4>1, <4>2 DEF BilledOnce
    <3>2. CASE ~triager[s].bill
      <4>1. bills' = bills /\ \A n \in Creditors : bills[n] \in Nat
        BY <1>0, <2>1, <3>2 DEF TriageAssumption
      <4> QED BY <1>0, <2>2, <3>2, <4>1 DEF BilledOnce
    <3> QED BY <3>1, <3>2
  <2>5. message' \in MessageStates /\ fingerprint' \in Decisions \cup {NoDecision}
        /\ (message' = "processed" => fingerprint' = triager[s].decision)
    BY <1>0, <2>1, <2>2 DEF MessageStates
  <2>6. BilledOnce'
    BY <2>1, <2>3, <2>4, <2>5 DEF BilledOnce
  <2> QED BY <1>0, <1>1, <2>1, <2>2, <2>3, <2>4, <2>5, <2>6, UnreadIsTriager, TriageMoves
<1>11. CASE CrashReader(s)
  <2>1. /\ ReadOn(s, Unread) /\ UNCHANGED <<message, fingerprint, bills, chores, torn>>
        /\ messageLock' \in Readers \cup {NoReader}
    BY <1>0, <1>11 DEF CrashReader, FreeLock
  <2> QED BY <1>0, <1>1, <2>1, UnreadIsTriager, TriageMoves
<1> QED
  BY <1>2, <1>3, <1>5, <1>6, <1>7, <1>8, <1>9, <1>10, <1>11

LEMMA TriageInvariant == ASSUME TriageAssumption PROVE TriageSpec => []TriageInv
<1>1. TriageInv /\ UNCHANGED triageVars => TriageInv'
  BY DEF TriageInv, TriageTypeOK, BilledOnce, TriagerFine, AtWork, triageVars
<1>2. TriageInv /\ [TriageNext]_triageVars => TriageInv'
  BY <1>1, TriageStep DEF TriageNext
<1> QED BY <1>2, TriageInitInv, PTL DEF TriageSpec

\* The message, its bills and tasks and what the sessions hold keep their types.
THEOREM TriageTypes == ASSUME TriageAssumption PROVE TriageSpec => []TriageTypeOK
BY TriageInvariant, PTL DEF TriageInv

\* Passes that end at any of their commits, are deferred and are repeated bill a message
\* once under a name and add one task, and a processed message has the bill that was
\* decided on, unless sessions were at work at once: for any creditors and sessions.
THEOREM MessageIsBilledOnce == ASSUME TriageAssumption PROVE TriageSpec => []BilledOnce
BY TriageInvariant, PTL DEF TriageInv

-----------------------------------------------------------------------------
(***************************************************************************)
(* People                                                                  *)
(***************************************************************************)

ScribeRows == [party : SUBSET Identities, read : [Identities -> ProfileIds \cup {NoProfileYet}],
               alone : BOOLEAN]

\* The preference of a profile that is its own, and was not inherited by a merge.
IsOwn(f, p) == f.holder = p /\ f.home = p

\* A preference that a profile lost in a merge stays out of sight, as ids are not used
\* again; what the owner asked for an address is the one preference of its profile's
\* own; and a pass that runs alone has read the owners as they are.
RelationInv ==
  /\ RelationTypeOK
  /\ scribe \in [Scribes -> ScribeRows]
  /\ \A f \in facts : f.home \in Living => f.holder = f.home
  /\ \A f, g \in facts, p \in ProfileIds : IsOwn(f, p) /\ IsOwn(g, p) => f = g
  /\ \A i \in Identities : wishes[i] # "none" =>
       \E f \in facts : IsOwn(f, owner[i]) /\ f.wish = wishes[i]
  /\ \A c \in together : /\ \A i \in c : owner[i] \in Living
                         /\ \A i, j \in c : owner[i] = owner[j]
  /\ \A s \in Busy : scribe[s].alone =>
       Busy = {s} /\ \A i \in scribe[s].party : scribe[s].read[i] = owner[i]

LEMMA AtRestIsScribe ==
  AtRest \in ScribeRows /\ AtRest.party = {}
BY DEF AtRest, ScribeRows

LEMMA RelationInitInv == ASSUME RelationInit PROVE RelationInv
<1>1. scribe \in [Scribes -> ScribeRows] /\ Busy = {} /\ Living = {}
  BY AtRestIsScribe DEF RelationInit, Busy, Living
<1>2. RelationTypeOK
  BY <1>1 DEF RelationInit, RelationTypeOK, Owners, FactRows, ProfileRows
<1> QED BY <1>1, <1>2 DEF RelationInit, RelationInv

\* The invariant shows what the property says: the CHOOSE of Effective has one choice.
LEMMA RelationIsSafe ==
  ASSUME RelationAssumption, RelationInv PROVE PeopleStayThemselves
<1>1. ASSUME NEW i \in Identities, wishes[i] # "none" PROVE Effective(i) = wishes[i]
  <2>1. PICK f \in facts : IsOwn(f, owner[i]) /\ f.wish = wishes[i]
    BY <1>1 DEF RelationInv
  <2>2. f.home \in ProfileIds
    BY DEF RelationInv, RelationTypeOK, FactRows
  <2>3. {g \in facts : g.holder = owner[i] /\ g.home = owner[i]} = {f}
    BY <2>1, <2>2 DEF RelationInv, IsOwn
  <2> QED BY <2>1, <2>3 DEF Effective
<1> QED BY <1>1 DEF RelationInv, PeopleStayThemselves

\* A session that starts is alone when nobody is at work, and ends the others' being so.
LEMMA MatchStep ==
  ASSUME RelationInv, NEW s \in Scribes, NEW party \in SUBSET Identities, party # {},
         Match(s, party)
  PROVE  RelationInv'
<1>0. owner \in [Identities -> ProfileIds \cup {NoProfileYet}] /\ scribe \in [Scribes -> ScribeRows]
  BY DEF RelationInv, RelationTypeOK, Owners, Living, ProfileRows
<1> DEFINE seen == [i \in Identities |-> IF i \in party THEN owner[i] ELSE NoProfileYet]
           new == [party |-> party, alone |-> Busy = {}, read |-> seen]
<1>1. /\ scribe' = [o \in Scribes |-> IF o = s THEN new
                                      ELSE [scribe[o] EXCEPT !.alone = @ /\ o \notin Busy]]
      /\ UNCHANGED <<people, owner, facts, wishes, together>> /\ s \notin Busy
  BY DEF Match
<1>2. new \in ScribeRows /\ new.party = party /\ new.read = seen /\ (new.alone <=> Busy = {})
  <2>1. seen \in [Identities -> ProfileIds \cup {NoProfileYet}]
    BY <1>0
  <2>2. (Busy = {}) \in BOOLEAN
    OBVIOUS
  <2> HIDE DEF seen
  <2> QED BY <2>1, <2>2 DEF ScribeRows
<1> HIDE DEF new
<1>3. ASSUME NEW o \in Scribes \ {s}
      PROVE  /\ scribe'[o] \in ScribeRows /\ scribe'[o].party = scribe[o].party
             /\ scribe'[o].read = scribe[o].read
             /\ scribe'[o].alone <=> scribe[o].alone /\ o \notin Busy
  <2>1. scribe'[o] = [scribe[o] EXCEPT !.alone = @ /\ o \notin Busy]
    BY <1>1
  <2>2. scribe[o] \in ScribeRows /\ (o \notin Busy) \in BOOLEAN /\ scribe[o].alone \in BOOLEAN
    BY <1>0 DEF ScribeRows
  <2> QED BY <2>1, <2>2 DEF ScribeRows
<1>4. scribe' \in [Scribes -> ScribeRows] /\ scribe'[s] = new
  BY <1>1, <1>2, <1>3
<1>5. Busy' = Busy \cup {s}
  BY <1>2, <1>3, <1>4 DEF Busy
<1>6. Living' = Living
  BY <1>1 DEF Living
<1>7. ASSUME NEW o \in Busy', scribe'[o].alone
      PROVE  Busy' = {o} /\ \A i \in scribe'[o].party : scribe'[o].read[i] = owner'[i]
  <2>1. CASE o = s
    BY <1>1, <1>2, <1>4, <1>5, <1>7, <2>1
  <2>2. CASE o # s
    <3>1. o \in Scribes \ {s} /\ o \in Busy
      BY <1>5, <1>7, <2>2 DEF Busy
    <3>2. scribe'[o].alone <=> scribe[o].alone /\ o \notin Busy
      BY <1>3, <3>1
    <3> QED BY <1>7, <3>1, <3>2
  <2> QED BY <2>1, <2>2
<1>8. RelationTypeOK'
  BY <1>1, <1>6 DEF RelationInv, RelationTypeOK, Owners, FactRows
<1> QED BY <1>1, <1>4, <1>6, <1>7, <1>8 DEF RelationInv

\* A session that rests lets the others go on as they were.
LEMMA RestStep ==
  ASSUME RelationInv, NEW s \in Busy, Rest(s)
  PROVE  /\ scribe' \in [Scribes -> ScribeRows]
         /\ \A o \in Busy' : o \in Busy \ {s} /\ ~scribe'[o].alone
<1>1. /\ scribe' \in [Scribes -> ScribeRows] /\ scribe'[s] = AtRest
      /\ \A o \in Scribes \ {s} : scribe'[o] = scribe[o]
  BY AtRestIsScribe DEF RelationInv, Rest, Busy
<1>2. \A o \in Busy' : o \in Busy \ {s} /\ scribe'[o] = scribe[o]
  BY <1>1, AtRestIsScribe DEF Busy
<1>3. \A o \in Busy \ {s} : ~scribe[o].alone
  BY DEF RelationInv
<1> QED BY <1>1, <1>2, <1>3

LEMMA FailStep == ASSUME RelationInv, NEW s \in Busy, Fail(s) PROVE RelationInv'
<1>1. UNCHANGED <<people, owner, facts, wishes, together>> /\ Rest(s)
  BY DEF Fail
<1>2. Living' = Living
  BY <1>1 DEF Living
<1>3. RelationTypeOK'
  BY <1>1, <1>2 DEF RelationInv, RelationTypeOK, Owners, FactRows
<1> QED BY <1>1, <1>2, <1>3, RestStep DEF RelationInv

LEMMA InheritedFacts ==
  ASSUME NEW f \in FactRows, NEW losers, NEW target
  PROVE  /\ Inherited(f, losers, target).home = f.home
         /\ Inherited(f, losers, target).wish = f.wish
         /\ f.holder \notin losers => Inherited(f, losers, target) = f
         /\ f.holder \in losers => Inherited(f, losers, target).holder = target
         /\ Inherited(f, losers, target)
              \in [holder : (Living \ losers) \cup {target}, home : ProfileIds, wish : Wishes]
BY DEF Inherited, FactRows

\* A pass that writes: the profiles that it merges lose their addresses to the target,
\* and with them all that was joined; preferences of the target's own stay alone.
LEMMA SaveStep ==
  ASSUME RelationAssumption, RelationInv, NEW s \in Busy, NEW target \in ProfileIds,
         NEW got, NEW seen, Save(s, target, got, seen),
         \/ target \in Living
         \/ target \in Fresh /\ \A p \in people : p[2] # scribe[s].party,
         scribe[s].alone => \A i \in scribe[s].party :
           seen[i] = owner[i] /\ (owner[i] \in Living => owner[i] \in got)
  PROVE  RelationInv'
<1> DEFINE party == scribe[s].party
           losers == (got \ {target}) \cap Living
<1>0. /\ people \subseteq ProfileRows /\ owner \in [Identities -> Living \cup {NoProfileYet}]
      /\ facts \subseteq FactRows /\ wishes \in [Identities -> Wishes \cup {"none"}]
      /\ together \subseteq SUBSET Identities /\ party \in SUBSET Identities
      /\ Living \subseteq ProfileIds /\ ProfileIds \subseteq Nat /\ NoProfileYet \notin ProfileIds
  <2>1. Living \subseteq ProfileIds
    BY DEF RelationInv, RelationTypeOK, Living, ProfileRows
  <2>2. party \in SUBSET Identities
    BY DEF RelationInv, ScribeRows, Busy
  <2> QED BY <2>1, <2>2 DEF RelationInv, RelationTypeOK, Owners, RelationAssumption
<1>1. /\ \A i \in Identities :
           owner'[i] = IF owner[i] \in losers \/ (i \in party /\ seen[i] # target) THEN target
                       ELSE owner[i]
      /\ people' = {p \in people : p[1] \notin losers}
                   \cup (IF target \in Living THEN {} ELSE {<<target, party>>})
      /\ facts' = {Inherited(f, losers, target) : f \in facts}
      /\ \A i \in Identities : wishes'[i] = IF owner'[i] = owner[i] THEN wishes[i] ELSE "none"
      /\ together' = IF scribe[s].alone THEN together \cup {party}
                     ELSE {c \in together : c \cap party = {}}
      /\ Rest(s)
      /\ owner' \in [Identities -> (Living \ losers) \cup {target, NoProfileYet}]
      /\ wishes' \in [Identities -> Wishes \cup {"none"}]
  BY <1>0 DEF Save
<1> HIDE DEF losers
<1>2. target \notin losers /\ losers \subseteq Living
  BY DEF losers
<1>3. Living' = (Living \ losers) \cup {target}
  <2>1. CASE target \in Living
    BY <1>1, <1>2, <2>1 DEF Living
  <2>2. CASE target \notin Living
    <3>1. people' = {p \in people : p[1] \notin losers} \cup {<<target, party>>}
      BY <1>1, <2>2
    <3>2. <<target, party>>[1] = target /\ target \in Living'
      <4>1. <<target, party>>[1] = target
        OBVIOUS
      <4>2. \E p \in people' : p[1] = target
        BY <3>1, <4>1
      <4> QED BY <4>1, <4>2 DEF Living
    <3>3. \A p \in people' : p[1] \in (Living \ losers) \cup {target}
      BY <3>1, <3>2 DEF Living
    <3>4. \A p \in people : p[1] \notin losers => p[1] \in Living'
      BY <3>1 DEF Living
    <3>5. Living' \subseteq (Living \ losers) \cup {target}
      BY <3>3 DEF Living
    <3>6. Living \ losers \subseteq Living'
      BY <3>4 DEF Living
    <3> QED BY <3>2, <3>5, <3>6
  <2> QED BY <2>1, <2>2
<1>4. /\ owner' \in [Identities -> Owners'] /\ facts' \subseteq FactRows'
      /\ together' \subseteq SUBSET Identities
  <2>1. facts' \subseteq [holder : (Living \ losers) \cup {target}, home : ProfileIds,
                          wish : Wishes]
    BY <1>0, <1>1, InheritedFacts
  <2> QED BY <1>0, <1>1, <1>3, <2>1 DEF Owners, FactRows
<1>5. people' \subseteq ProfileRows /\ \A p, q \in people' : p[1] = q[1] \/ p[2] = q[2] => p = q
  <2>1. \A p, q \in people : p[1] = q[1] \/ p[2] = q[2] => p = q
    BY DEF RelationInv, RelationTypeOK
  <2>2. CASE target \in Living
    BY <1>0, <1>1, <2>1, <2>2
  <2>3. CASE target \notin Living
    <3>1. \A p \in people : p[1] # target /\ p[2] # party
      BY <2>3 DEF Living
    <3>2. <<target, party>> \in ProfileRows
      BY <1>0 DEF ProfileRows
    <3>3. people' = {p \in people : p[1] \notin losers} \cup {<<target, party>>}
      BY <1>1, <2>3
    <3> QED BY <1>0, <2>1, <3>1, <3>2, <3>3
  <2> QED BY <2>2, <2>3
<1>6. RelationTypeOK'
  BY <1>1, <1>4, <1>5 DEF RelationTypeOK
\* No preference was made for the target before it came into being.
<1>7. \A f \in facts : f.home = target => f.holder = target
  <2>1. CASE target \in Living
    BY <2>1 DEF RelationInv
  <2>2. CASE target \notin Living
    <3>1. \A f \in facts : f.home < target /\ f.home \in Nat
      BY <1>0, <2>2 DEF Fresh, FactRows
    <3> QED BY <3>1
  <2> QED BY <2>1, <2>2
<1>8. ASSUME NEW g \in facts', g.home \in Living' PROVE g.holder = g.home
  <2>1. PICK f \in facts : g = Inherited(f, losers, target)
    BY <1>1
  <2>2. f \in FactRows
    BY <1>0
  <2>3. CASE f.holder \in losers
    <3>1. g.home = f.home /\ g.holder = target
      BY <2>1, <2>2, <2>3, InheritedFacts
    <3>2. f.home \in Living => f.holder = f.home
      BY DEF RelationInv
    <3> QED BY <1>2, <1>3, <1>7, <1>8, <2>3, <3>1, <3>2
  <2>4. CASE f.holder \notin losers
    <3>1. g = f
      BY <2>1, <2>2, <2>4, InheritedFacts
    <3>2. f.home \in Living => f.holder = f.home
      BY DEF RelationInv
    <3> QED BY <1>3, <1>7, <1>8, <3>1, <3>2
  <2> QED BY <2>3, <2>4
<1>9. \A g \in facts', p \in ProfileIds : IsOwn(g, p) => g \in facts
  <2>1. SUFFICES ASSUME NEW g \in facts', NEW p \in ProfileIds, IsOwn(g, p) PROVE g \in facts
    OBVIOUS
  <2>2. PICK f \in facts : g = Inherited(f, losers, target)
    BY <1>1
  <2>3. f \in FactRows
    BY <1>0
  <2>4. f.holder \notin losers
    BY <1>2, <1>7, <2>1, <2>2, <2>3, InheritedFacts DEF IsOwn
  <2> QED BY <2>2, <2>3, <2>4, InheritedFacts
<1>10. \A g, h \in facts', p \in ProfileIds : IsOwn(g, p) /\ IsOwn(h, p) => g = h
  BY <1>9 DEF RelationInv
<1>11. ASSUME NEW i \in Identities, wishes'[i] # "none"
       PROVE  \E f \in facts' : IsOwn(f, owner'[i]) /\ f.wish = wishes'[i]
  <2>1. wishes'[i] = wishes[i] /\ owner'[i] = owner[i]
    BY <1>1, <1>11
  <2>2. PICK f \in facts : IsOwn(f, owner[i]) /\ f.wish = wishes[i]
    BY <1>11, <2>1 DEF RelationInv
  <2>3. owner[i] \notin losers
    BY <1>1, <1>2, <2>1
  <2>4. Inherited(f, losers, target) = f
    BY <1>0, <2>2, <2>3, InheritedFacts DEF IsOwn
  <2>5. f \in facts'
    BY <1>1, <2>4
  <2> QED BY <2>1, <2>2, <2>5
<1>12. ASSUME NEW c \in together'
       PROVE  /\ \A i \in c : owner'[i] \in Living'
              /\ \A i, j \in c : owner'[i] = owner'[j]
  <2>1. CASE scribe[s].alone /\ c = party
    <3>1. ASSUME NEW i \in party PROVE owner'[i] = target
      <4>1. seen[i] = owner[i] /\ i \in Identities
        BY <1>0, <2>1
      <4> QED BY <1>1, <4>1
    <3> QED BY <1>3, <2>1, <3>1
  <2>2. CASE c \in together
    <3>1. /\ \A i \in c : owner[i] \in Living /\ i \in Identities
          /\ \A i, j \in c : owner[i] = owner[j]
      BY <1>0, <2>2 DEF RelationInv
    <3>2. ASSUME NEW i \in c
          PROVE owner'[i] = IF owner[i] \in losers THEN target ELSE owner[i]
      <4>1. CASE i \notin party
        BY <1>1, <3>1, <4>1
      <4>2. CASE i \in party
        <5>1. scribe[s].alone
          BY <1>1, <4>2
        <5>2. seen[i] = owner[i] /\ owner[i] \in got
          BY <3>1, <4>2, <5>1
        <5>3. owner[i] \in losers \/ owner[i] = target
          BY <3>1, <5>2 DEF losers
        <5> QED BY <1>1, <3>1, <5>2, <5>3
      <4> QED BY <4>1, <4>2
    <3> QED BY <1>3, <3>1, <3>2
  <2> QED BY <1>1, <2>1, <2>2
<1>13. \A o \in Busy' : ~scribe'[o].alone
  BY <1>1, RestStep
<1>14. scribe' \in [Scribes -> ScribeRows]
  BY <1>1, RestStep
<1> QED BY <1>6, <1>8, <1>10, <1>11, <1>12, <1>13, <1>14 DEF RelationInv

LEMMA ApplyStep ==
  ASSUME RelationAssumption, RelationInv, NEW s \in Scribes, Apply(s) PROVE RelationInv'
<1>0. s \in Busy /\ Living \subseteq ProfileIds /\ owner \in [Identities -> Owners]
      /\ scribe[s].party \subseteq Identities
      /\ scribe[s].read \in [Identities -> ProfileIds \cup {NoProfileYet}]
      /\ NoProfileYet \notin ProfileIds
  <2>1. Living \subseteq ProfileIds
    BY DEF RelationInv, RelationTypeOK, Living, ProfileRows
  <2> QED BY <2>1 DEF RelationInv, RelationTypeOK, RelationAssumption, Apply, ScribeRows
<1>1. PICK seen \in {scribe[s].read, owner}, got \in {Found(s), Found(s) \cap Living} :
        IF \/ \E i \in scribe[s].party : seen[i] = NoProfileYet /\ owner[i] # NoProfileYet
           \/ Found(s) = {} /\ \E p \in people : p[2] = scribe[s].party
           \/ Found(s) # {} /\ (got = {} \/ Least(got) \notin Living)
          THEN Fail(s)
          ELSE IF Found(s) # {} THEN Save(s, Least(got), got, seen)
          ELSE \E new \in Fresh : (\A p \in Fresh : new <= p) /\ Save(s, new, {}, seen)
  BY DEF Apply
<1>2. scribe[s].alone => \A i \in scribe[s].party :
        /\ scribe[s].read[i] = owner[i] /\ seen[i] = owner[i]
        /\ owner[i] \in Living => owner[i] \in Found(s) \cap Living
  <2>1. scribe[s].alone => \A i \in scribe[s].party : scribe[s].read[i] = owner[i]
    BY <1>0 DEF RelationInv
  <2> QED BY <1>0, <1>1, <2>1 DEF Found
<1>3. CASE Fail(s)
  BY <1>0, <1>3, FailStep
<1>4. CASE Found(s) # {} /\ Least(got) \in Living /\ Save(s, Least(got), got, seen)
  <2>1. scribe[s].alone => \A i \in scribe[s].party :
          seen[i] = owner[i] /\ (owner[i] \in Living => owner[i] \in got)
    BY <1>1, <1>2
  <2> QED BY <1>0, <1>4, <2>1, SaveStep
<1>5. CASE /\ Found(s) = {} /\ \A p \in people : p[2] # scribe[s].party
           /\ \E new \in Fresh : Save(s, new, {}, seen)
  <2>1. PICK new \in Fresh : Save(s, new, {}, seen)
    BY <1>5
  <2>2. new \in ProfileIds
    BY DEF Fresh
  <2>3. scribe[s].alone => \A i \in scribe[s].party :
          seen[i] = owner[i] /\ (owner[i] \in Living => owner[i] \in {})
    BY <1>2, <1>5
  <2> QED BY <1>0, <1>5, <2>1, <2>2, <2>3, SaveStep
<1> QED BY <1>1, <1>3, <1>4, <1>5

LEMMA PreferenceStep == ASSUME RelationInv, SetPreference PROVE RelationInv'
<1>1. PICK p \in Living, wish \in Wishes :
        /\ facts' = {f \in facts : ~(f.holder = p /\ f.home = p)}
                    \cup {[holder |-> p, home |-> p, wish |-> wish]}
        /\ wishes' = [i \in Identities |-> IF owner[i] = p THEN wish ELSE wishes[i]]
        /\ UNCHANGED <<people, owner, scribe, together>>
  BY DEF SetPreference
<1> DEFINE new == [holder |-> p, home |-> p, wish |-> wish]
<1>2. Living' = Living /\ Busy' = Busy /\ p \in ProfileIds
  BY <1>1 DEF Living, Busy, RelationInv, RelationTypeOK, ProfileRows
<1>3. new \in FactRows /\ IsOwn(new, p) /\ new.wish = wish /\ new.holder = p /\ new.home = p
  BY <1>2 DEF FactRows, IsOwn
<1> HIDE DEF new
<1>4. facts' = {f \in facts : ~IsOwn(f, p)} \cup {new}
  BY <1>1 DEF IsOwn, new
<1>5. RelationTypeOK'
  <2>1. wishes' \in [Identities -> Wishes \cup {"none"}]
    BY <1>1 DEF RelationInv, RelationTypeOK
  <2>2. facts' \subseteq FactRows /\ FactRows' = FactRows /\ Owners' = Owners
    BY <1>2, <1>3, <1>4 DEF RelationInv, RelationTypeOK, FactRows, Owners
  <2> QED BY <1>1, <2>1, <2>2 DEF RelationInv, RelationTypeOK
<1>6. \A f \in facts' : f.home \in Living' => f.holder = f.home
  BY <1>2, <1>3, <1>4 DEF RelationInv
<1>7. \A f, g \in facts', q \in ProfileIds : IsOwn(f, q) /\ IsOwn(g, q) => f = g
  BY <1>3, <1>4 DEF RelationInv, IsOwn
<1>8. ASSUME NEW i \in Identities, wishes'[i] # "none"
      PROVE  \E f \in facts' : IsOwn(f, owner'[i]) /\ f.wish = wishes'[i]
  <2>1. CASE owner[i] = p
    BY <1>1, <1>3, <1>4, <2>1
  <2>2. CASE owner[i] # p
    <3>1. wishes'[i] = wishes[i] /\ owner'[i] = owner[i]
      BY <1>1, <2>2
    <3>2. PICK f \in facts : IsOwn(f, owner[i]) /\ f.wish = wishes[i]
      BY <1>8, <3>1 DEF RelationInv
    <3>3. f \in facts'
      BY <1>4, <2>2, <3>2 DEF IsOwn
    <3> QED BY <3>1, <3>2, <3>3
  <2> QED BY <2>1, <2>2
<1> QED BY <1>1, <1>2, <1>5, <1>6, <1>7, <1>8 DEF RelationInv

LEMMA RelationInvariant == ASSUME RelationAssumption PROVE RelationSpec => []RelationInv
<1>1. ASSUME RelationInv, RelationNext PROVE RelationInv'
  <2>1. ASSUME NEW s \in Scribes, ScanContact(s) \/ SyncContact(s) \/ ScanParty(s)
        PROVE  RelationInv'
    <3>1. PICK party \in SUBSET Identities : party # {} /\ Match(s, party)
      BY <2>1 DEF ScanContact, SyncContact, ScanParty, RelationAssumption
    <3> QED BY <1>1, <3>1, MatchStep
  <2>2. ASSUME NEW s \in Scribes, Apply(s) PROVE RelationInv'
    BY <1>1, <2>2, ApplyStep
  <2>3. ASSUME NEW s \in Scribes, PassDies(s) PROVE RelationInv'
    BY <1>1, <2>3, FailStep DEF PassDies
  <2> QED BY <1>1, <2>1, <2>2, <2>3, PreferenceStep DEF RelationNext
<1>2. ASSUME RelationInv, UNCHANGED relationVars PROVE RelationInv'
  <2>1. UNCHANGED <<people, owner, facts, scribe, wishes, together>>
    BY <1>2 DEF relationVars
  <2>2. Living' = Living /\ Busy' = Busy
    BY <2>1 DEF Living, Busy
  <2> QED BY <1>2, <2>1, <2>2 DEF RelationInv, RelationTypeOK, Owners, FactRows
<1>3. RelationInv /\ [RelationNext]_relationVars => RelationInv'
  BY <1>1, <1>2
<1> QED BY <1>3, RelationInitInv, PTL DEF RelationSpec

\* Every profile has one id and one key, every address belongs to a profile that is
\* there, and every preference to one that is: through any merges of any sessions.
THEOREM RelationTypes == ASSUME RelationAssumption PROVE RelationSpec => []RelationTypeOK
BY RelationInvariant, PTL DEF RelationInv

\* What the owner asked for an address holds while it stays with its profile, and a
\* contact joined by a pass that ran alone is one person until a pass that crosses
\* another writes one of its identities: for any contacts, profiles and sessions.
THEOREM PeopleAreKept ==
  ASSUME RelationAssumption PROVE RelationSpec => []PeopleStayThemselves
BY RelationInvariant, RelationIsSafe, PTL

(***************************************************************************)
(* Messages of the phone                                                   *)
(***************************************************************************)

Requests == [pc : RequestPlaces, capture : Posters, acts : BOOLEAN, copy : Seq(Captures)]
Flushes == [on : BOOLEAN, took : SUBSET Captures, left : SUBSET Captures, missed : BOOLEAN]
AtRequest(p) == request[p].pc \in {"posting", "deciding"}
AtOutbox(p) == request[p].pc \in {"queueing", "removing", "keeping", "storing"}
Sms(m) == <<"sms", m>>
IsKept(m) == \E n \in DOMAIN rows : Sms(m) \in rows[n].of

PhoneTypes ==
  /\ received \subseteq Texts /\ outbox \in Seq(Captures) /\ discarded \subseteq Texts
  /\ request \in [Posters -> Requests] /\ flush \in Flushes /\ flush.left \subseteq flush.took
  /\ \A p \in Posters :
       /\ AtRequest(p) => request[p].capture \in Captures /\ p \in {Worker, request[p].capture}
       /\ AtOutbox(p) => p # Worker /\ request[p].capture = p

\* What an event says of the messages that it stands for.
EventFine(r, lost) ==
  /\ r.native <=> \E m \in Texts : Sms(m) \in r.of
  /\ \A m, k \in Texts : Sms(m) \in r.of /\ Sms(k) \in r.of => m = k
  /\ \A m \in Texts : r.id = Sms(m) => Sms(m) \in r.of
  /\ r.verdict = "owner" /\ ~r.superseded => r.asks \in {"event", "open"}
  /\ r.superseded => \A m \in Texts : Sms(m) \in r.of => m \in lost

EventsFine ==
  /\ rows \in Seq(EventRows) /\ swallowed \subseteq Texts
  /\ \A n \in DOMAIN rows : EventFine(rows[n], swallowed)
  /\ \A n \in DOMAIN rows, k \in DOMAIN rows : n # k => rows[k].id # rows[n].id

\* What the worker has posted of what it loaded is with the backend, or it knows better.
FlushCovers ==
  flush.on /\ ~flush.missed =>
    \A m \in Texts : Sms(m) \in flush.took \ flush.left =>
      IsKept(m) \/ (AtRequest(Worker) /\ request[Worker].capture = Sms(m))

\* A message is taken out of the outbox by its own thread once the backend has it.
RemovalsFine ==
  \A m \in Texts : request[Sms(m)].pc \in {"removing", "storing"} => IsKept(m)

\* What a receiver will store has its message, and it does not queue it again.
ReceiversFine ==
  \A m \in Texts :
    /\ request[Sms(m)].pc = "queueing" => Sms(m) \in Range(request[Sms(m)].copy)
    /\ request[Sms(m)].pc # "keeping"

LegacyFine ==
  /\ legacy \in [task : {"open", "cancelled"}, asks : {"none", "event", "open"}]
  /\ legacy.task = "cancelled" => legacy.asks # "none"

AllKept == \A m \in received : IsKept(m) \/ Sms(m) \in Range(outbox) \/ m \in discarded
PhoneFine == PhoneTypes /\ FlushCovers /\ RemovalsFine /\ ReceiversFine /\ AllKept

IntakeInv == PhoneFine /\ EventsFine /\ LegacyFine

LEMMA CapturesAre ==
  /\ \A m \in Texts : Sms(m) \in Captures /\ Sms(m) \in Posters /\ Sms(m) # Worker
  /\ \A m \in Texts : <<"note", m>> \in Captures /\ <<"note", m>> \in Posters /\ <<"note", m>> # Worker
  /\ \A m, k \in Texts : Sms(m) # <<"note", k>> /\ (Sms(m) = Sms(k) => m = k)
  /\ \A m \in Texts : Sms(m) # <<"note", NoText>>
  /\ \A c \in Captures : (\E m \in Texts : c = Sms(m)) \/ (\E m \in Texts : c = <<"note", m>>)
  /\ \A c \in Captures : c \in Posters /\ c # Worker
  /\ \A p \in Posters : p # Worker => p \in Captures
BY DEF Sms, Captures, Posters, Worker

LEMMA EmptyIs == <<>> \in Seq(Captures)
OBVIOUS

LEMMA SilentIs == Silent \in Requests /\ Silent.pc = "idle" /\ Silent.copy = <<>>
BY DEF Silent, Requests, RequestPlaces, Posters

LEMMA IntakeInitInv == ASSUME IntakeInit PROVE IntakeInv
<1>1. Asleep \in Flushes /\ Asleep.left = {} /\ Asleep.took = {} /\ ~Asleep.on
  BY DEF Asleep, Flushes
<1>2. request \in [Posters -> Requests] /\ \A p \in Posters : request[p].pc = "idle"
  BY SilentIs DEF IntakeInit
<1>3. PhoneTypes
  BY <1>1, <1>2 DEF IntakeInit, PhoneTypes, AtRequest, AtOutbox
<1>4. RemovalsFine /\ ReceiversFine
  BY <1>2, CapturesAre DEF RemovalsFine, ReceiversFine
<1>5. rows \in Seq(EventRows) /\ DOMAIN rows = {}
  BY DEF IntakeInit
<1> QED
  BY <1>1, <1>3, <1>4, <1>5
  DEF IntakeInit, IntakeInv, PhoneFine, AllKept, EventsFine, FlushCovers, LegacyFine

\* What is with the backend stays there.
LEMMA KeptStays ==
  ASSUME DOMAIN rows \subseteq DOMAIN rows', \A n \in DOMAIN rows : rows[n].of \subseteq rows'[n].of,
         NEW m, IsKept(m)
  PROVE  IsKept(m)'
BY DEF IsKept

\* An outbox that is loaded and changed is an outbox.
LEMMA LoadsAre == ASSUME IntakeInv, NEW q \in Loads PROVE q \in Seq(Captures)
<1>1. outbox \in Seq(Captures)
  BY DEF IntakeInv, PhoneFine, PhoneTypes
<1>2. q = outbox \/ q = <<>>
  BY DEF Loads
<1> QED BY <1>1, <1>2, EmptyIs

LEMMA QueuedIs ==
  ASSUME IntakeAssumption, NEW q \in Seq(Captures), NEW c \in Captures
  PROVE  Queued(q, c) \in Seq(Captures) /\ c \in Range(Queued(q, c))
<1> DEFINE all == Append(q, c)
<1>1. /\ all \in Seq(Captures) /\ Len(all) \in Nat \ {0} /\ OutboxLimit \in Nat \ {0}
      /\ all[Len(all)] = c /\ DOMAIN all = 1..Len(all)
  BY DEF IntakeAssumption
<1> HIDE DEF all
<1>2. CASE Len(all) <= OutboxLimit
  <2>1. Queued(q, c) = all
    BY <1>2 DEF Queued, all
  <2>2. c \in Range(all)
    BY <1>1 DEF Range
  <2> QED BY <1>1, <2>1, <2>2
<1>3. CASE ~(Len(all) <= OutboxLimit)
  <2> DEFINE last == SubSeq(all, Len(all) - OutboxLimit + 1, Len(all))
  <2>1. /\ last \in Seq(Captures) /\ DOMAIN last = 1..OutboxLimit
        /\ last[OutboxLimit] = all[Len(all)]
    BY <1>1, <1>3
  <2>2. Queued(q, c) = last
    BY <1>3 DEF Queued, all
  <2> HIDE DEF last
  <2>3. c \in Range(last)
    BY <1>1, <2>1 DEF Range
  <2> QED BY <2>1, <2>2, <2>3
<1> QED BY <1>2, <1>3

LEMMA WithoutIs ==
  ASSUME NEW q \in Seq(Captures), NEW n \in DOMAIN q PROVE Without(q, n) \in Seq(Captures)
<1>1. DOMAIN q = 1..Len(q) /\ Len(q) \in Nat
  OBVIOUS
<1>2. SubSeq(q, 1, n - 1) \in Seq(Captures) /\ SubSeq(q, n + 1, Len(q)) \in Seq(Captures)
  BY <1>1
<1> QED BY <1>2 DEF Without

-----
\* The phone's steps, which leave the backend alone

\* One thread that is not the worker proceeds.
LEMMA ThreadStep ==
  ASSUME IntakeInv, UNCHANGED <<rows, legacy, swallowed, flush>>,
         NEW p \in Posters, p # Worker, NEW row \in Requests,
         request' = [request EXCEPT ![p] = row],
         row.pc \in {"posting", "deciding"} => row.capture = p,
         row.pc \in {"queueing", "removing", "keeping", "storing"} => row.capture = p,
         row.pc = "storing" => request[p].pc = "removing" \/ \A m \in Texts : p # Sms(m),
         row.pc \notin {"removing", "keeping"}, row.pc = "queueing" => p \in Range(row.copy),
         received' \subseteq Texts, outbox' \in Seq(Captures), discarded' \subseteq Texts,
         AllKept'
  PROVE  IntakeInv'
<1>1. PhoneTypes /\ p \in Captures
  BY CapturesAre DEF IntakeInv, PhoneFine
<1>2. request'[p] = row /\ \A o \in Posters : o # p => request'[o] = request[o]
  BY <1>1 DEF PhoneTypes
<1>3. PhoneTypes'
  BY <1>1, <1>2 DEF PhoneTypes, AtRequest, AtOutbox
<1>4. FlushCovers'
  <2>1. request'[Worker] = request[Worker]
    BY <1>2 DEF Posters
  <2> QED BY <2>1 DEF IntakeInv, PhoneFine, FlushCovers, IsKept, AtRequest
<1>5. RemovalsFine'
  <2> SUFFICES ASSUME NEW m \in Texts, request'[Sms(m)].pc \in {"removing", "storing"}
               PROVE  IsKept(m)'
    BY DEF RemovalsFine
  <2>1. request[Sms(m)].pc \in {"removing", "storing"}
    BY <1>2, CapturesAre
  <2> QED BY <2>1 DEF IntakeInv, PhoneFine, RemovalsFine, IsKept
<1>6. ReceiversFine'
  <2>1. \A m \in Texts : Sms(m) \in Posters
    BY CapturesAre
  <2> QED BY <1>2, <2>1 DEF IntakeInv, PhoneFine, ReceiversFine
<1> QED BY <1>3, <1>4, <1>5, <1>6 DEF IntakeInv, PhoneFine, EventsFine, LegacyFine

\* What is dropped from the outbox is noted, but for what may go.
LEMMA StoringKeeps ==
  ASSUME IntakeInv, UNCHANGED rows, NEW gone, \A m \in gone : IsKept(m),
         discarded' = discarded \cup (Dropped \ gone), received' = received
  PROVE  AllKept'
<1> SUFFICES ASSUME NEW m \in received
             PROVE  IsKept(m)' \/ Sms(m) \in Range(outbox') \/ m \in discarded'
  BY DEF AllKept
<1>1. m \in Texts /\ (IsKept(m) \/ Sms(m) \in Range(outbox) \/ m \in discarded)
  BY DEF IntakeInv, PhoneFine, PhoneTypes, AllKept
<1>2. IsKept(m) => IsKept(m)'
  BY DEF IsKept
<1>3. Sms(m) \in Range(outbox) => Sms(m) \in Range(outbox') \/ m \in Dropped
  BY <1>1 DEF Dropped, Sms
<1> QED BY <1>1, <1>2, <1>3

LEMMA SmsStep ==
  ASSUME IntakeAssumption, IntakeInv, NEW m \in Texts, SmsArrives(m) PROVE IntakeInv'
<1> DEFINE p == Sms(m)
<1>1. p \in Captures /\ p \in Posters /\ p # Worker
  BY CapturesAre
<1>2. PICK q \in Loads : request' = [request EXCEPT ![p] =
        [pc |-> "queueing", capture |-> p, acts |-> TRUE, copy |-> Queued(q, p)]]
  BY DEF SmsArrives, Sms
<1>3. UNCHANGED <<received, outbox, flush, discarded, rows, legacy, swallowed>>
  BY DEF SmsArrives, Backend
<1> HIDE DEF p
<1>4. Queued(q, p) \in Seq(Captures) /\ p \in Range(Queued(q, p))
  BY <1>1, LoadsAre, QueuedIs
<1> DEFINE row == [pc |-> "queueing", capture |-> p, acts |-> TRUE, copy |-> Queued(q, p)]
<1>5. row \in Requests /\ row.pc = "queueing" /\ row.capture = p
      /\ p \in Range(row.copy)
  BY <1>1, <1>4 DEF Requests, RequestPlaces
<1>6. request' = [request EXCEPT ![p] = row]
  BY <1>2
<1> HIDE DEF row
<1>7. /\ received' \subseteq Texts /\ outbox' \in Seq(Captures) /\ discarded' \subseteq Texts
      /\ AllKept'
  BY <1>3 DEF IntakeInv, PhoneFine, PhoneTypes, AllKept, IsKept
<1> QED BY <1>1, <1>3, <1>5, <1>6, <1>7, ThreadStep

LEMMA KeepSmsStep == ASSUME IntakeInv, NEW m \in Texts, KeepSms(m) PROVE IntakeInv'
<1> DEFINE p == Sms(m)
           row == [request[p] EXCEPT !.pc = "posting", !.copy = <<>>]
<1>1. p \in Captures /\ p \in Posters /\ p # Worker
  BY CapturesAre
<1>2. /\ request[p].pc = "queueing" /\ received' = received \cup {m}
      /\ \/ outbox' = request[p].copy /\ discarded' = discarded \cup Dropped
         \/ UNCHANGED outbox /\ discarded' = discarded \cup {m}
      /\ request' = [request EXCEPT ![p].pc = "posting", ![p].copy = <<>>]
      /\ UNCHANGED <<flush, rows, legacy, swallowed>>
  BY DEF KeepSms, Proceeds, Backend, Sms
<1>3. /\ PhoneTypes /\ request[p] \in Requests /\ request[p].capture = p
      /\ p \in Range(request[p].copy)
  BY <1>1, <1>2 DEF IntakeInv, PhoneFine, PhoneTypes, AtOutbox, ReceiversFine
<1>4. row \in Requests /\ row.pc = "posting" /\ row.capture = p
  BY <1>3, EmptyIs DEF Requests, RequestPlaces
<1>5. request' = [request EXCEPT ![p] = row]
  BY <1>1, <1>2, <1>3 DEF PhoneTypes
<1> HIDE DEF p, row
<1>6. Dropped \subseteq Texts /\ request[p].copy \in Seq(Captures)
  BY <1>3 DEF Dropped, Requests
<1>7. received' \subseteq Texts /\ outbox' \in Seq(Captures) /\ discarded' \subseteq Texts
  BY <1>2, <1>3, <1>6 DEF PhoneTypes
<1>8. AllKept'
  <2> SUFFICES ASSUME NEW k \in received'
               PROVE  IsKept(k)' \/ Sms(k) \in Range(outbox') \/ k \in discarded'
    BY DEF AllKept
  <2>1. CASE k \in received
    <3>1. k \in Texts /\ (IsKept(k)' \/ Sms(k) \in Range(outbox) \/ k \in discarded)
      BY <1>2, <1>3, <2>1 DEF IntakeInv, PhoneFine, PhoneTypes, AllKept, IsKept
    <3>2. CASE discarded' = discarded \cup Dropped
      BY <3>1, <3>2 DEF Dropped, Sms
    <3>3. CASE UNCHANGED outbox /\ discarded' = discarded \cup {m}
      BY <3>1, <3>3
    <3> QED BY <1>2, <3>2, <3>3
  <2>2. CASE k = m
    <3>1. CASE UNCHANGED outbox /\ discarded' = discarded \cup {m}
      BY <2>2, <3>1
    <3>2. CASE outbox' = request[p].copy
      <4> QED BY <1>3, <2>2, <3>2 DEF p
    <3> QED BY <1>2, <3>1, <3>2
  <2> QED BY <1>2, <2>1, <2>2
<1> QED BY <1>1, <1>2, <1>4, <1>5, <1>7, <1>8, ThreadStep

\* A thread that stores what it loaded, and one that goes no further
LEMMA StoreStep == ASSUME IntakeInv, NEW p \in Posters, StoreOutbox(p) PROVE IntakeInv'
<1> DEFINE row == [request[p] EXCEPT !.pc = "done", !.copy = <<>>]
           gone == {m \in Texts : p = <<"sms", m>>}
<1>1. /\ request[p].pc = "storing" /\ outbox' \in {outbox, request[p].copy}
      /\ discarded' = discarded \cup (Dropped \ gone)
      /\ request' = [request EXCEPT ![p].pc = "done", ![p].copy = <<>>]
      /\ UNCHANGED <<received, flush, rows, legacy, swallowed>>
  BY DEF StoreOutbox, Proceeds, Backend
<1>2. PhoneTypes /\ request[p] \in Requests /\ request[p].capture = p /\ p # Worker
  BY <1>1 DEF IntakeInv, PhoneFine, PhoneTypes, AtOutbox
<1>3. row \in Requests /\ row.pc = "done"
  BY <1>2, EmptyIs DEF Requests, RequestPlaces
<1>4. request' = [request EXCEPT ![p] = row]
  BY <1>1, <1>2 DEF PhoneTypes
<1> HIDE DEF row
<1>5. \A m \in gone : IsKept(m)
  BY <1>1 DEF IntakeInv, PhoneFine, RemovalsFine, Sms
<1> HIDE DEF gone
<1>6. Dropped \subseteq Texts /\ request[p].copy \in Seq(Captures)
  BY <1>2 DEF Dropped, Requests
<1>7. received' \subseteq Texts /\ outbox' \in Seq(Captures) /\ discarded' \subseteq Texts
  BY <1>1, <1>2, <1>6 DEF PhoneTypes
<1>8. AllKept'
  BY <1>1, <1>5, StoringKeeps
<1> QED BY <1>1, <1>2, <1>3, <1>4, <1>7, <1>8, ThreadStep

LEMMA MissStep == ASSUME IntakeInv, NEW m \in Texts, MissSms(m) PROVE IntakeInv'
<1> DEFINE p == Sms(m)
<1>1. /\ request' = [request EXCEPT ![p] = Silent] /\ p \in Posters /\ p # Worker
      /\ UNCHANGED <<received, outbox, flush, discarded, rows, legacy, swallowed>>
  BY CapturesAre DEF MissSms, Backend, Sms
<1> HIDE DEF p
<1>2. /\ received' \subseteq Texts /\ outbox' \in Seq(Captures) /\ discarded' \subseteq Texts
      /\ AllKept'
  BY <1>1 DEF IntakeInv, PhoneFine, PhoneTypes, AllKept, IsKept
<1> QED BY <1>1, <1>2, SilentIs, ThreadStep

LEMMA LoadStep ==
  ASSUME IntakeAssumption, IntakeInv, NEW p \in Posters, LoadOutbox(p) PROVE IntakeInv'
<1>1. /\ request[p].pc \in {"removing", "keeping"}
      /\ UNCHANGED <<received, outbox, flush, discarded, rows, legacy, swallowed>>
  BY DEF LoadOutbox, Backend
<1>2. PhoneTypes /\ request[p] \in Requests /\ request[p].capture = p /\ p # Worker
  BY <1>1 DEF IntakeInv, PhoneFine, PhoneTypes, AtOutbox
<1>3. p \in Captures
  BY <1>2, CapturesAre
<1>4. PICK row \in Requests :
        /\ request' = [request EXCEPT ![p] = row]
        /\ row.pc \in {"done", "storing"} /\ row.capture = p
  <2>1. PICK q \in Loads :
          \/ Proceeds(p, "done")
          \/ \E copy \in Changed(p, q) :
               request' = [request EXCEPT ![p].pc = "storing", ![p].copy = copy]
    BY DEF LoadOutbox
  <2>2. CASE Proceeds(p, "done")
    <3> DEFINE row == [request[p] EXCEPT !.pc = "done", !.copy = <<>>]
    <3>1. row \in Requests /\ row.pc = "done" /\ row.capture = p
      BY <1>2, EmptyIs DEF Requests, RequestPlaces
    <3>2. request' = [request EXCEPT ![p] = row]
      BY <1>2, <2>2 DEF PhoneTypes, Proceeds
    <3> HIDE DEF row
    <3> QED BY <3>1, <3>2
  <2>3. ASSUME NEW copy \in Changed(p, q),
               request' = [request EXCEPT ![p].pc = "storing", ![p].copy = copy]
        PROVE  \E row \in Requests :
                 /\ request' = [request EXCEPT ![p] = row]
                 /\ row.pc \in {"done", "storing"} /\ row.capture = p
    <3> DEFINE row == [request[p] EXCEPT !.pc = "storing", !.copy = copy]
    <3>1. q \in Seq(Captures)
      BY LoadsAre
    <3>2. copy \in Seq(Captures)
      <4>1. CASE request[p].pc = "removing"
        <5>1. PICK n \in DOMAIN q : copy = Without(q, n)
          BY <2>3, <4>1 DEF Changed, Copies
        <5> QED BY <3>1, <5>1, WithoutIs
      <4>2. CASE request[p].pc # "removing"
        <5>1. copy = Queued(q, p)
          BY <1>2, <2>3, <4>2 DEF Changed
        <5> QED BY <1>3, <3>1, <5>1, QueuedIs
      <4> QED BY <4>1, <4>2
    <3>3. row \in Requests /\ row.pc = "storing" /\ row.capture = p
      BY <1>2, <3>2 DEF Requests, RequestPlaces
    <3>4. request' = [request EXCEPT ![p] = row]
      BY <1>2, <2>3 DEF PhoneTypes
    <3> HIDE DEF row
    <3> QED BY <3>3, <3>4
  <2> QED BY <2>1, <2>2, <2>3
<1>5. request[p].pc = "removing" \/ \A m \in Texts : p # Sms(m)
  BY <1>1 DEF IntakeInv, PhoneFine, ReceiversFine
<1>6. /\ received' \subseteq Texts /\ outbox' \in Seq(Captures) /\ discarded' \subseteq Texts
      /\ AllKept'
  BY <1>1 DEF IntakeInv, PhoneFine, PhoneTypes, AllKept, IsKept
<1> QED BY <1>1, <1>2, <1>4, <1>5, <1>6, ThreadStep

LEMMA NotificationStep == ASSUME IntakeInv, NEW m \in Texts, NotificationPosted(m) PROVE IntakeInv'
<1> DEFINE c == <<"note", m>>
           row == [Silent EXCEPT !.pc = "posting", !.capture = c, !.acts = TRUE]
<1>1. c \in Captures /\ c \in Posters /\ c # Worker
  BY CapturesAre
<1>2. /\ request' = [request EXCEPT ![c] = row]
      /\ UNCHANGED <<received, outbox, flush, discarded, rows, legacy, swallowed>>
  BY DEF NotificationPosted, Posting, Backend
<1> HIDE DEF c
<1>3. row \in Requests /\ row.pc = "posting" /\ row.capture = c
  BY <1>1, SilentIs DEF Requests, RequestPlaces
<1> HIDE DEF row
<1>4. /\ received' \subseteq Texts /\ outbox' \in Seq(Captures) /\ discarded' \subseteq Texts
      /\ AllKept'
  BY <1>2 DEF IntakeInv, PhoneFine, PhoneTypes, AllKept, IsKept
<1> QED BY <1>1, <1>2, <1>3, <1>4, ThreadStep

LEMMA FlushStep == ASSUME IntakeInv, FlushBegins \/ FlushPosts \/ FlushEnds PROVE IntakeInv'
<1>1. PhoneTypes /\ FlushCovers /\ RemovalsFine /\ ReceiversFine /\ AllKept
  BY DEF IntakeInv, PhoneFine
<1>2. CASE FlushBegins
  <2>1. /\ flush' = [on |-> TRUE, took |-> Range(outbox), left |-> Range(outbox), missed |-> FALSE]
        /\ UNCHANGED <<received, outbox, request, discarded, rows, legacy, swallowed>>
    BY <1>2 DEF FlushBegins, Backend
  <2>2. Range(outbox) \subseteq Captures
    BY <1>1 DEF PhoneTypes, Range
  <2>3. PhoneTypes'
    BY <1>1, <2>1, <2>2 DEF PhoneTypes, Flushes, AtRequest, AtOutbox
  <2>4. FlushCovers'
    BY <2>1 DEF FlushCovers
  <2>5. RemovalsFine' /\ ReceiversFine' /\ AllKept'
    BY <1>1, <2>1 DEF RemovalsFine, ReceiversFine, AllKept, IsKept
  <2> QED BY <2>1, <2>3, <2>4, <2>5 DEF IntakeInv, PhoneFine, EventsFine, LegacyFine
<1>3. CASE FlushPosts
  <2>1. PICK c \in flush.left :
          /\ flush' = [flush EXCEPT !.left = flush.left \ {c}]
          /\ request' = [request EXCEPT ![Worker] =
               [Silent EXCEPT !.pc = "posting", !.capture = c, !.acts = c[1] = "sms"]]
    BY <1>3 DEF FlushPosts, Posting
  <2>2. flush.on /\ request[Worker].pc = "idle"
          /\ UNCHANGED <<received, outbox, discarded, rows, legacy, swallowed>>
    BY <1>3 DEF FlushPosts, Backend
  <2>3. c \in Captures /\ c \in Posters /\ Worker \in Posters
    BY <1>1 DEF PhoneTypes, Flushes, Posters
  <2> DEFINE row == [Silent EXCEPT !.pc = "posting", !.capture = c, !.acts = c[1] = "sms"]
  <2>4. row \in Requests /\ row.pc = "posting" /\ row.capture = c
    BY <2>3, SilentIs DEF Requests, RequestPlaces
  <2>5. /\ request' = [request EXCEPT ![Worker] = row]
        /\ request'[Worker] = row /\ \A o \in Posters : o # Worker => request'[o] = request[o]
    BY <1>1, <2>1, <2>3 DEF PhoneTypes
  <2> HIDE DEF row
  <2>6. PhoneTypes'
    BY <1>1, <2>1, <2>2, <2>3, <2>4, <2>5 DEF PhoneTypes, Flushes, AtRequest, AtOutbox
  <2>7. FlushCovers'
    BY <1>1, <2>1, <2>2, <2>4, <2>5 DEF FlushCovers, AtRequest, PhoneTypes, Flushes, IsKept
  <2>8. RemovalsFine' /\ ReceiversFine' /\ AllKept'
    BY <1>1, <2>2, <2>5, CapturesAre DEF RemovalsFine, ReceiversFine, AllKept, IsKept
  <2> QED BY <2>2, <2>6, <2>7, <2>8 DEF IntakeInv, PhoneFine, EventsFine, LegacyFine
<1>4. CASE FlushEnds
  <2>1. /\ flush.on /\ flush.left = {} /\ request[Worker].pc = "idle" /\ flush' = Asleep
        /\ UNCHANGED <<received, request, rows, legacy, swallowed>>
        /\ IF flush.missed THEN UNCHANGED <<outbox, discarded>>
           ELSE /\ outbox' = <<>>
                /\ discarded' =
                     discarded \cup (Dropped \ {m \in Dropped : Sms(m) \in flush.took})
    BY <1>4 DEF FlushEnds, Backend, Sms
  <2>2. PhoneTypes' /\ FlushCovers'
    <3>1. Dropped \subseteq Texts
      BY DEF Dropped
    <3>2. outbox' \in Seq(Captures) /\ discarded' \subseteq Texts
      BY <1>1, <2>1, <3>1, EmptyIs DEF PhoneTypes
    <3>3. flush' \in Flushes /\ flush'.left \subseteq flush'.took /\ ~flush'.on
      BY <2>1 DEF Flushes, Asleep
    <3> QED BY <1>1, <2>1, <3>2, <3>3 DEF PhoneTypes, AtRequest, AtOutbox, FlushCovers
  <2>3. AllKept'
    <3>1. CASE flush.missed
      BY <1>1, <2>1, <3>1 DEF AllKept, IsKept
    <3>2. CASE ~flush.missed
      <4> DEFINE gone == {m \in Dropped : Sms(m) \in flush.took}
      <4>1. \A m \in gone : IsKept(m)
        BY <1>1, <2>1, <3>2 DEF FlushCovers, AtRequest, Dropped
      <4>2. discarded' = discarded \cup (Dropped \ gone) /\ UNCHANGED <<rows, received>>
        BY <2>1, <3>2
      <4> HIDE DEF gone
      <4> QED BY <4>1, <4>2, StoringKeeps
    <3> QED BY <3>1, <3>2
  <2>4. RemovalsFine' /\ ReceiversFine'
    BY <1>1, <2>1 DEF RemovalsFine, ReceiversFine, IsKept
  <2> QED BY <2>1, <2>2, <2>3, <2>4 DEF IntakeInv, PhoneFine, EventsFine, LegacyFine
<1> QED BY <1>2, <1>3, <1>4

-----
\* Whatever the phone makes of an answer, it goes on to forget only what the backend has.
LEMMA AnswerStep ==
  ASSUME IntakeInv, NEW p \in Posters, NEW got \in BOOLEAN, AtRequest(p), Answered(p, got),
         DOMAIN rows \subseteq DOMAIN rows', \A n \in DOMAIN rows : rows[n].of \subseteq rows'[n].of,
         got => \A m \in Texts : request[p].capture = Sms(m) => IsKept(m)'
  PROVE  PhoneFine'
<1> DEFINE c == request[p].capture
<1>1. /\ c \in Captures /\ p \in {Worker, c} /\ PhoneTypes /\ FlushCovers
      /\ RemovalsFine /\ ReceiversFine /\ AllKept
  BY DEF IntakeInv, PhoneFine, PhoneTypes
<1>2. PICK q \in Requests :
        /\ request' = [request EXCEPT ![p] = q]
        /\ p = Worker => q.pc = "idle"
        /\ p # Worker =>
             /\ q.capture = p /\ q.pc \in {"done", "removing", "keeping"}
             /\ q.pc = "removing" => got
             /\ q.pc = "keeping" => p[1] = "note"
  <2>1. PICK pc \in Onward(p, got) : request' = [request EXCEPT ![p] =
          IF p = Worker THEN Silent ELSE [Silent EXCEPT !.pc = pc, !.capture = p]]
    BY DEF Answered
  <2>2. CASE p = Worker
    BY <2>1, <2>2, SilentIs
  <2>3. CASE p # Worker
    <3> DEFINE row == [Silent EXCEPT !.pc = pc, !.capture = p]
    <3>1. /\ pc \in {"done", "removing", "keeping"} /\ (pc = "removing" => got)
          /\ (pc = "keeping" => p[1] = "note")
      BY <2>3 DEF Onward
    <3>2. row \in Requests /\ row.pc = pc /\ row.capture = p
      BY <3>1, SilentIs DEF Requests, RequestPlaces
    <3>3. request' = [request EXCEPT ![p] = row]
      BY <2>1, <2>3
    <3> HIDE DEF row
    <3> QED BY <2>3, <3>1, <3>2, <3>3
  <2> QED BY <2>2, <2>3
<1>3. /\ flush' = IF p = Worker /\ ~got THEN [flush EXCEPT !.missed = TRUE] ELSE flush
      /\ UNCHANGED <<received, outbox, discarded>>
  BY DEF Answered
<1>4. request'[p] = q /\ \A o \in Posters : o # p => request'[o] = request[o]
  BY <1>1, <1>2 DEF PhoneTypes
<1>5. \A m : IsKept(m) => IsKept(m)'
  BY KeptStays
<1>6. PhoneTypes'
  <2>1. \A o \in Posters : AtRequest(o)' => o # p /\ request'[o] = request[o] /\ AtRequest(o)
    BY <1>2, <1>4 DEF AtRequest
  <2>2. \A o \in Posters : AtOutbox(o)' => o # Worker /\ request'[o].capture = o
    BY <1>1, <1>2, <1>4 DEF AtOutbox, PhoneTypes
  <2>3. flush' \in Flushes /\ flush'.left \subseteq flush'.took
    BY <1>1, <1>3 DEF PhoneTypes, Flushes
  <2>4. request' \in [Posters -> Requests]
    BY <1>1, <1>2 DEF PhoneTypes
  <2> QED BY <1>1, <1>3, <2>1, <2>2, <2>3, <2>4 DEF PhoneTypes
<1>7. FlushCovers'
  <2>1. CASE p = Worker
    <3> SUFFICES ASSUME flush'.on, ~flush'.missed, NEW m \in Texts, Sms(m) \in flush'.took \ flush'.left
                 PROVE  IsKept(m)'
      BY DEF FlushCovers
    <3>1. got /\ flush' = flush
      BY <1>1, <1>3, <2>1 DEF PhoneTypes, Flushes
    <3>2. IsKept(m) \/ request[Worker].capture = Sms(m)
      BY <1>1, <3>1 DEF FlushCovers
    <3> QED BY <1>5, <2>1, <3>1, <3>2
  <2>2. CASE p # Worker
    <3>1. flush' = flush /\ request'[Worker] = request[Worker]
      BY <1>3, <1>4, <2>2 DEF Posters
    <3> QED BY <1>1, <1>5, <3>1 DEF FlushCovers, AtRequest
  <2> QED BY <2>1, <2>2
<1>8. RemovalsFine'
  <2> SUFFICES ASSUME NEW m \in Texts, request'[Sms(m)].pc \in {"removing", "storing"}
               PROVE  IsKept(m)'
    BY DEF RemovalsFine
  <2>1. CASE p = Sms(m)
    BY <1>1, <1>2, <1>4, <2>1, CapturesAre
  <2>2. CASE p # Sms(m)
    BY <1>1, <1>4, <1>5, <2>2, CapturesAre DEF RemovalsFine
  <2> QED BY <2>1, <2>2
<1>9. ReceiversFine'
  <2> SUFFICES ASSUME NEW m \in Texts
               PROVE  /\ request'[Sms(m)].pc = "queueing" => Sms(m) \in Range(request'[Sms(m)].copy)
                      /\ request'[Sms(m)].pc # "keeping"
    BY DEF ReceiversFine
  <2>1. CASE p = Sms(m)
    BY <1>2, <1>4, <2>1, CapturesAre DEF Sms
  <2>2. CASE p # Sms(m)
    BY <1>1, <1>4, <2>2, CapturesAre DEF ReceiversFine
  <2> QED BY <2>1, <2>2
<1>10. AllKept'
  BY <1>1, <1>3, <1>5 DEF AllKept
<1> QED BY <1>6, <1>7, <1>8, <1>9, <1>10 DEF PhoneFine

\* Rows that change without losing anything
LEMMA RowsStep ==
  ASSUME EventsFine, swallowed' \subseteq Texts, swallowed \subseteq swallowed',
         rows' = [n \in DOMAIN rows |-> rows'[n]],
         \A n \in DOMAIN rows : /\ rows'[n] \in EventRows /\ rows'[n].id = rows[n].id
                                /\ EventFine(rows'[n], swallowed')
  PROVE  EventsFine'
<1>1. DOMAIN rows' = DOMAIN rows /\ DOMAIN rows = 1..Len(rows) /\ Len(rows) \in Nat
  BY DEF EventsFine
<1>2. rows' \in Seq(EventRows)
  BY <1>1 DEF EventsFine
<1> QED BY <1>1, <1>2 DEF EventsFine

LEMMA BackendLeft ==
  ASSUME IntakeInv, UNCHANGED <<rows, legacy, swallowed>>, PhoneFine'
  PROVE  IntakeInv'
BY DEF IntakeInv, EventsFine, LegacyFine

LEMMA BreakOffStep == ASSUME IntakeInv, NEW p \in Posters, BreakOff(p) PROVE IntakeInv'
<1>1. AtRequest(p) /\ Answered(p, FALSE) /\ UNCHANGED <<rows, legacy, swallowed>>
  BY DEF BreakOff, AtRequest
<1>2. PhoneFine'
  BY <1>1, AnswerStep
<1> QED BY <1>1, <1>2, BackendLeft

LEMMA StartEventStep == ASSUME IntakeInv, NEW p \in Posters, StartEvent(p) PROVE IntakeInv'
<1>1. /\ request[p].pc = "posting" /\ request' = [request EXCEPT ![p].pc = "deciding"]
      /\ UNCHANGED <<received, outbox, flush, posts, discarded, rows, legacy, swallowed>>
  BY DEF StartEvent, Backend
<1>0. PhoneTypes /\ FlushCovers /\ RemovalsFine /\ ReceiversFine /\ AllKept
  BY DEF IntakeInv, PhoneFine
<1>2. /\ request'[p].pc = "deciding" /\ request'[p].capture = request[p].capture
      /\ request' \in [Posters -> Requests]
      /\ \A o \in Posters : o # p => request'[o] = request[o]
  BY <1>0, <1>1 DEF PhoneTypes, Requests, RequestPlaces
<1>3. PhoneTypes'
  BY <1>0, <1>1, <1>2 DEF PhoneTypes, AtRequest, AtOutbox
<1>4. FlushCovers'
  <2>1. AtRequest(Worker) => AtRequest(Worker)' /\ request'[Worker].capture = request[Worker].capture
    BY <1>1, <1>2 DEF AtRequest, Posters
  <2> QED BY <1>0, <1>1, <2>1 DEF FlushCovers, IsKept
<1>5. RemovalsFine' /\ ReceiversFine' /\ AllKept'
  BY <1>0, <1>1, <1>2, CapturesAre DEF RemovalsFine, ReceiversFine, AllKept, IsKept
<1> QED BY <1>1, <1>3, <1>4, <1>5, BackendLeft DEF PhoneFine

LEMMA AnswerDuplicateStep ==
  ASSUME IntakeInv, NEW p \in Posters, AnswerDuplicate(p) PROVE IntakeInv'
<1> DEFINE c == request[p].capture
<1>1. PICK n \in DOMAIN rows, got \in BOOLEAN :
        /\ AtRequest(p) /\ Answered(p, got) /\ UNCHANGED legacy
        /\ n \in Known(c) \/ n \in Duplicates(c)
        /\ rows' = [rows EXCEPT ![n] = IF n \in Known(c) THEN [rows[n] EXCEPT !.of = rows[n].of \cup {c}]
                                       ELSE Promoted(c, rows[n])]
        /\ swallowed' = IF rows[n].superseded /\ Native(c) THEN swallowed \cup {c[2]} ELSE swallowed
  BY DEF AnswerDuplicate, AtRequest, AnswerComes, Known, Duplicates
<1>2. c \in Captures /\ EventsFine /\ c[2] \in Texts
  BY <1>1, CapturesAre DEF IntakeInv, PhoneFine, PhoneTypes, Captures
<1>3. DOMAIN rows = 1..Len(rows) /\ rows[n] \in EventRows /\ EventFine(rows[n], swallowed)
  BY <1>2 DEF EventsFine
<1>4. /\ DOMAIN rows' = DOMAIN rows
      /\ \A k \in DOMAIN rows : k # n => rows'[k] = rows[k]
  BY <1>1
<1>5. /\ rows'[n] \in EventRows /\ rows'[n].id = rows[n].id /\ rows'[n].of = rows[n].of \cup {c}
      /\ rows'[n].verdict = rows[n].verdict /\ rows'[n].asks = rows[n].asks
      /\ rows'[n].superseded <=> rows[n].superseded
      /\ rows'[n].native <=> (rows[n].native \/ (n \notin Known(c) /\ Native(c)))
  <2>1. Native(c) \in BOOLEAN /\ rows[n].native \in BOOLEAN
    BY <1>3 DEF Native, EventRows
  <2>2. CASE n \in Known(c)
    <3>1. rows'[n] = [rows[n] EXCEPT !.of = rows[n].of \cup {c}]
      BY <1>1, <2>2
    <3> QED BY <1>2, <1>3, <2>2, <3>1 DEF EventRows
  <2>3. CASE n \notin Known(c)
    <3> DEFINE b == rows[n].native \/ Native(c)
    <3> DEFINE o == rows[n].of \cup {c}
    <3>1. rows'[n] = [rows[n] EXCEPT !.native = b, !.of = o]
      BY <1>1, <2>3 DEF Promoted
    <3>2. b \in BOOLEAN /\ (b <=> rows[n].native \/ Native(c))
      BY <2>1
    <3>3. o \in (SUBSET Captures) \ {{}} /\ o = rows[n].of \cup {c}
      BY <1>2, <1>3 DEF EventRows
    <3> HIDE DEF b, o, c
    <3>4. /\ rows'[n] \in EventRows /\ rows'[n].id = rows[n].id /\ rows'[n].of = rows[n].of \cup {c}
          /\ rows'[n].verdict = rows[n].verdict /\ rows'[n].asks = rows[n].asks
          /\ rows'[n].superseded = rows[n].superseded /\ rows'[n].native = b
      BY <1>2, <1>3, <3>1, <3>2, <3>3 DEF EventRows
    <3> QED BY <2>3, <3>2, <3>4
  <2> QED BY <2>2, <2>3
<1>6. swallowed \subseteq swallowed' /\ swallowed' \subseteq Texts
  BY <1>1, <1>2 DEF EventsFine
<1>7. EventFine(rows'[n], swallowed')
  <2>1. CASE \E m \in Texts : c = Sms(m)
    <3>1. PICK m \in Texts : c = Sms(m)
      BY <2>1
    <3>2. Native(c) /\ c[2] = m /\ ExternalId(c) = c
      BY <3>1 DEF Native, Sms, ExternalId
    <3>3. rows'[n].superseded => m \in swallowed'
      BY <1>1, <1>5, <3>2
    <3>4. Sms(m) \in rows'[n].of
      BY <1>5, <3>1
    <3>5. CASE n \in Known(c)
      <4>1. Sms(m) \in rows[n].of
        BY <1>3, <3>1, <3>2, <3>5 DEF Known, EventFine
      <4>2. rows'[n].of = rows[n].of
        BY <1>5, <3>1, <4>1
      <4> QED BY <1>3, <1>5, <1>6, <3>5, <4>2 DEF EventFine
    <3>6. CASE n \notin Known(c)
      <4>1. ~rows[n].native /\ rows'[n].native
        BY <1>1, <1>5, <3>2, <3>6 DEF Duplicates, CrossTransport
      <4>2. \A k \in Texts : Sms(k) \notin rows[n].of
        BY <1>3, <4>1 DEF EventFine
      <4>3. \A k \in Texts : Sms(k) \in rows'[n].of => k = m
        BY <1>5, <3>1, <4>2, CapturesAre
      <4>4. \A k \in Texts : rows'[n].id # Sms(k)
        BY <1>3, <1>5, <4>2 DEF EventFine
      <4>5. rows'[n].verdict = "owner" /\ ~rows'[n].superseded => rows'[n].asks \in {"event", "open"}
        BY <1>3, <1>5 DEF EventFine
      <4> QED BY <3>3, <3>4, <4>1, <4>3, <4>4, <4>5 DEF EventFine
    <3> QED BY <3>5, <3>6
  <2>2. CASE \E m \in Texts : c = <<"note", m>>
    <3>1. ~Native(c) /\ \A k \in Texts : c # Sms(k)
      BY <2>2, CapturesAre DEF Native
    <3>2. \A k \in Texts : Sms(k) \in rows'[n].of <=> Sms(k) \in rows[n].of
      BY <1>5, <3>1
    <3>3. rows'[n].native <=> rows[n].native
      BY <1>5, <3>1
    <3> QED BY <1>3, <1>5, <1>6, <3>2, <3>3 DEF EventFine
  <2> QED BY <1>2, <2>1, <2>2, CapturesAre
<1>8. ASSUME NEW k \in DOMAIN rows
      PROVE  rows'[k] \in EventRows /\ rows'[k].id = rows[k].id /\ EventFine(rows'[k], swallowed')
  <2>1. CASE k = n
    BY <1>5, <1>7, <2>1
  <2>2. CASE k # n
    <3>1. rows'[k] = rows[k] /\ rows[k] \in EventRows /\ EventFine(rows[k], swallowed)
      BY <1>2, <1>3, <1>4, <2>2 DEF EventsFine
    <3> QED BY <1>6, <3>1 DEF EventFine
  <2> QED BY <2>1, <2>2
<1>9. EventsFine'
  <2>1. rows' = [k \in DOMAIN rows |-> rows'[k]]
    BY <1>1
  <2> QED BY <1>2, <1>6, <1>8, <2>1, RowsStep
<1>10. \A k \in DOMAIN rows : rows[k].of \subseteq rows'[k].of
  BY <1>4, <1>5
<1>11. \A m \in Texts : c = Sms(m) => IsKept(m)'
  BY <1>4, <1>5 DEF IsKept
<1>12. PhoneFine'
  BY <1>1, <1>4, <1>10, <1>11, AnswerStep
<1> QED BY <1>1, <1>9, <1>12 DEF IntakeInv, LegacyFine

LEMMA RecordEventStep == ASSUME IntakeInv, NEW p \in Posters, RecordEvent(p) PROVE IntakeInv'
<1> DEFINE c == request[p].capture
<1>1. PICK verdict \in Verdicts, got \in BOOLEAN :
        /\ AtRequest(p) /\ Known(c) = {} /\ Answered(p, got) /\ UNCHANGED <<legacy, swallowed>>
        /\ rows' = Append(rows, [id |-> ExternalId(c), of |-> {c}, native |-> Native(c),
                                 verdict |-> verdict, acts |-> verdict = "reply",
                                 asks |-> Asks(verdict), superseded |-> FALSE])
  BY DEF RecordEvent, AtRequest, AnswerComes
<1>2. c \in Captures /\ EventsFine
  BY <1>1 DEF IntakeInv, PhoneFine, PhoneTypes
<1> DEFINE r == [id |-> ExternalId(c), of |-> {c}, native |-> Native(c),
                 verdict |-> verdict, acts |-> verdict = "reply",
                 asks |-> Asks(verdict), superseded |-> FALSE]
<1>3. r \in EventRows
  <2>1. ExternalId(c) \in Captures \cup {ExternalId(<<"note", NoText>>)}
    BY <1>2 DEF ExternalId
  <2>2. Native(c) \in BOOLEAN /\ Asks(verdict) \in {"none", "event", "open", "cancelled"}
    BY DEF Native, Asks
  <2>3. (verdict = "reply") \in BOOLEAN /\ {c} \in (SUBSET Captures) \ {{}}
    BY <1>2
  <2> HIDE DEF c
  <2> QED BY <2>1, <2>2, <2>3 DEF EventRows
<1>4. EventFine(r, swallowed)
  <2>1. Native(c) <=> \E m \in Texts : Sms(m) \in {c}
    <3>1. CASE \E m \in Texts : c = Sms(m)
      BY <3>1 DEF Native, Sms
    <3>2. CASE \E m \in Texts : c = <<"note", m>>
      BY <3>2, CapturesAre DEF Native
    <3> QED BY <1>2, <3>1, <3>2, CapturesAre
  <2>2. \A m, k \in Texts : Sms(m) \in {c} /\ Sms(k) \in {c} => m = k
    BY CapturesAre
  <2>3. \A m \in Texts : ExternalId(c) = Sms(m) => Sms(m) \in {c}
    BY <1>2, CapturesAre DEF ExternalId
  <2>4. verdict = "owner" => Asks(verdict) \in {"event", "open"}
    BY DEF Asks
  <2> QED BY <2>1, <2>2, <2>3, <2>4 DEF EventFine
<1>5. r.of = {c} /\ r.id = ExternalId(c)
  OBVIOUS
<1>6. rows' = Append(rows, r)
  BY <1>1
<1> HIDE DEF r
<1>7. rows \in Seq(EventRows) /\ Len(rows) \in Nat
  BY <1>2 DEF EventsFine
<1>8. /\ rows' \in Seq(EventRows) /\ DOMAIN rows = 1..Len(rows) /\ DOMAIN rows' = 1..(Len(rows) + 1)
      /\ \A k \in DOMAIN rows : k \in DOMAIN rows' /\ rows'[k] = rows[k]
      /\ \A k \in DOMAIN rows' : k \in DOMAIN rows \/ k = Len(rows) + 1
      /\ Len(rows) + 1 \in DOMAIN rows' /\ rows'[Len(rows) + 1] = r
  BY <1>3, <1>6, <1>7
<1>9. EventsFine'
  <2>1. \A k \in DOMAIN rows' : EventFine(rows'[k], swallowed)
    BY <1>2, <1>4, <1>8 DEF EventsFine
  <2>2. \A k \in DOMAIN rows : rows[k].id # r.id
    BY <1>1, <1>5 DEF Known
  <2>3. \A k \in DOMAIN rows', j \in DOMAIN rows' : k # j => rows'[j].id # rows'[k].id
    BY <1>2, <1>8, <2>2 DEF EventsFine
  <2> QED BY <1>1, <1>2, <1>8, <2>1, <2>3 DEF EventsFine
<1>10. DOMAIN rows \subseteq DOMAIN rows' /\ \A k \in DOMAIN rows : rows[k].of \subseteq rows'[k].of
  BY <1>8
<1>11. \A m \in Texts : c = Sms(m) => IsKept(m)'
  BY <1>5, <1>8 DEF IsKept
<1>12. PhoneFine'
  BY <1>1, <1>10, <1>11, AnswerStep
<1> QED BY <1>1, <1>9, <1>12 DEF IntakeInv, LegacyFine

-----
\* The cycle of the core
LEMMA PhoneLeft ==
  ASSUME IntakeInv, UNCHANGED Phone, EventsFine', LegacyFine',
         DOMAIN rows \subseteq DOMAIN rows', \A n \in DOMAIN rows : rows[n].of \subseteq rows'[n].of
  PROVE  IntakeInv'
<1>1. \A m : IsKept(m) => IsKept(m)'
  BY KeptStays
<1>2. PhoneTypes'
  BY DEF IntakeInv, PhoneFine, PhoneTypes, AtRequest, AtOutbox, Phone
<1>3. FlushCovers' /\ RemovalsFine' /\ ReceiversFine' /\ AllKept'
  BY <1>1
  DEF IntakeInv, PhoneFine, FlushCovers, RemovalsFine, ReceiversFine, AllKept, AtRequest, Phone
<1> QED BY <1>2, <1>3 DEF IntakeInv, PhoneFine

LEMMA RepairStep == ASSUME IntakeInv, RepairCorrelation PROVE IntakeInv'
<1>1. DOMAIN rows' = DOMAIN rows /\ UNCHANGED <<swallowed, Phone>> /\ EventsFine
  BY DEF RepairCorrelation, IntakeInv
<1>2. ASSUME NEW n \in DOMAIN rows
      PROVE  /\ rows'[n] \in EventRows /\ rows'[n].id = rows[n].id /\ rows'[n].of = rows[n].of
             /\ EventFine(rows'[n], swallowed')
  <2>1. rows[n] \in EventRows /\ EventFine(rows[n], swallowed)
    BY <1>1 DEF EventsFine
  <2>2. CASE rows'[n] = rows[n]
    BY <1>1, <2>1, <2>2
  <2>3. CASE ~rows[n].native /\ rows'[n] = Superseded(rows[n])
    <3>1. /\ rows'[n] \in EventRows /\ rows'[n].id = rows[n].id /\ rows'[n].of = rows[n].of
          /\ rows'[n].superseded /\ ~rows'[n].native
      BY <2>1, <2>3 DEF Superseded, EventRows
    <3>2. \A m \in Texts : Sms(m) \notin rows'[n].of
      BY <2>1, <2>3, <3>1 DEF EventFine
    <3> QED BY <2>1, <3>1, <3>2 DEF EventFine
  <2> QED BY <2>2, <2>3 DEF RepairCorrelation
<1>3. EventsFine'
  <2>1. rows' = [n \in DOMAIN rows |-> rows'[n]]
    BY DEF RepairCorrelation
  <2>2. swallowed' \subseteq Texts /\ swallowed \subseteq swallowed'
    BY <1>1 DEF EventsFine
  <2> QED BY <1>1, <1>2, <2>1, <2>2, RowsStep
<1>4. LegacyFine'
  BY DEF RepairCorrelation, Replaced, IntakeInv, LegacyFine
<1> QED BY <1>1, <1>2, <1>3, <1>4, PhoneLeft

LEMMA ProcessStep == ASSUME IntakeInv, ProcessEvents PROVE IntakeInv'
<1>1. /\ DOMAIN rows' = DOMAIN rows /\ UNCHANGED <<swallowed, Phone>> /\ EventsFine
      /\ \A n \in DOMAIN rows : rows'[n] = [rows[n] EXCEPT !.asks = Asked(rows[n].asks)]
  BY DEF ProcessEvents, IntakeInv
<1>2. ASSUME NEW n \in DOMAIN rows
      PROVE  /\ rows'[n] \in EventRows /\ rows'[n].id = rows[n].id /\ rows'[n].of = rows[n].of
             /\ EventFine(rows'[n], swallowed')
  <2>1. rows[n] \in EventRows /\ EventFine(rows[n], swallowed)
    BY <1>1 DEF EventsFine
  <2>2. /\ rows'[n] \in EventRows /\ rows'[n].id = rows[n].id /\ rows'[n].of = rows[n].of
        /\ rows'[n].asks = Asked(rows[n].asks) /\ rows'[n].verdict = rows[n].verdict
        /\ (rows'[n].native <=> rows[n].native) /\ (rows'[n].superseded <=> rows[n].superseded)
    BY <1>1, <2>1 DEF Asked, EventRows
  <2> QED BY <1>1, <2>1, <2>2 DEF EventFine, Asked
<1>3. EventsFine'
  <2>1. rows' = [n \in DOMAIN rows |-> rows'[n]]
    BY DEF ProcessEvents
  <2>2. swallowed' \subseteq Texts /\ swallowed \subseteq swallowed'
    BY <1>1 DEF EventsFine
  <2> QED BY <1>1, <1>2, <2>1, <2>2, RowsStep
<1>4. LegacyFine'
  BY DEF ProcessEvents, Asked, IntakeInv, LegacyFine
<1> QED BY <1>1, <1>2, <1>3, <1>4, PhoneLeft

LEMMA IntakeNextInv ==
  ASSUME IntakeAssumption, IntakeInv, [IntakeNext]_intakeVars PROVE IntakeInv'
<1>1. CASE UNCHANGED intakeVars
  <2>1. DOMAIN rows \subseteq DOMAIN rows' /\ \A n \in DOMAIN rows : rows[n].of \subseteq rows'[n].of
    BY <1>1 DEF intakeVars
  <2> QED BY <1>1, <2>1, PhoneLeft DEF intakeVars, Phone, IntakeInv, EventsFine, LegacyFine
<1>2. CASE \E m \in Texts : SmsArrives(m) \/ KeepSms(m) \/ MissSms(m) \/ NotificationPosted(m)
  BY <1>2, SmsStep, KeepSmsStep, MissStep, NotificationStep
<1>7. CASE \E p \in Posters : LoadOutbox(p) \/ StoreOutbox(p)
  BY <1>7, LoadStep, StoreStep
<1>3. CASE FlushBegins \/ FlushPosts \/ FlushEnds
  BY <1>3, FlushStep
<1>4. CASE RepairCorrelation
  BY <1>4, RepairStep
<1>5. CASE ProcessEvents
  BY <1>5, ProcessStep
<1>6. CASE \E p \in Posters : AnswerDuplicate(p) \/ StartEvent(p) \/ RecordEvent(p) \/ BreakOff(p)
  BY <1>6, AnswerDuplicateStep, StartEventStep, RecordEventStep, BreakOffStep
<1> QED BY <1>1, <1>2, <1>3, <1>4, <1>5, <1>6, <1>7 DEF IntakeNext

LEMMA IntakeAlways == ASSUME IntakeAssumption PROVE IntakeSpec => []IntakeInv
BY IntakeInitInv, IntakeNextInv, PTL DEF IntakeSpec

LEMMA IntakeInvKeeps == ASSUME IntakeInv PROVE IntakeTypeOK /\ MessagesAreKept
<1>1. IntakeTypeOK
  <2>1. \A n \in DOMAIN rows : rows[n] \in EventRows
          /\ \A k \in DOMAIN rows \ {n} : rows[k].id # rows[n].id
    BY DEF IntakeInv, EventsFine
  <2>2. \A p \in Posters : request[p].pc \in RequestPlaces
    BY DEF IntakeInv, PhoneFine, PhoneTypes, Requests
  <2>3. flush.took \subseteq Captures /\ flush.left \subseteq flush.took
    BY DEF IntakeInv, PhoneFine, PhoneTypes, Flushes
  <2>4. Range(outbox) \subseteq Captures
    BY DEF IntakeInv, PhoneFine, PhoneTypes, Range
  <2> QED BY <2>1, <2>2, <2>3, <2>4 DEF IntakeInv, PhoneFine, PhoneTypes, IntakeTypeOK, LegacyFine
<1>2. \A m : IsKept(m) <=> Of(m) # {}
  BY DEF IsKept, Of, Sms
<1>3. ASSUME NEW m \in Texts, Of(m) # {}, m \notin swallowed
      PROVE  \E n \in Of(m) :
               /\ ~rows[n].superseded
               /\ \A k \in Texts \ {m} : <<"sms", k>> \notin rows[n].of
               /\ rows[n].verdict = "owner" => rows[n].asks \in {"event", "open"}
  <2>1. PICK n \in Of(m) : TRUE
    BY <1>3
  <2>2. n \in DOMAIN rows /\ Sms(m) \in rows[n].of
    BY DEF Of, Sms
  <2>3. EventFine(rows[n], swallowed)
    BY <2>2 DEF IntakeInv, EventsFine
  <2>4. ~rows[n].superseded /\ \A k \in Texts : Sms(k) \in rows[n].of => k = m
    BY <1>3, <2>2, <2>3 DEF EventFine
  <2>5. rows[n].verdict = "owner" => rows[n].asks \in {"event", "open"}
    BY <2>3, <2>4 DEF EventFine
  <2> QED BY <2>4, <2>5 DEF Sms
<1>4. \A m \in received : Of(m) # {} \/ <<"sms", m>> \in Range(outbox) \/ m \in discarded
  BY <1>2 DEF IntakeInv, PhoneFine, AllKept, Sms
<1> QED BY <1>1, <1>3, <1>4 DEF MessagesAreKept, IntakeInv, LegacyFine

\* The phone's outbox and requests and the backend's events keep their types, and no
\* two events have one id.
THEOREM IntakeTypes == ASSUME IntakeAssumption PROVE IntakeSpec => []IntakeTypeOK
BY IntakeAlways, IntakeInvKeeps, PTL

\* An SMS that the phone has begun to post is with the backend or in the outbox unless a
\* write about something else dropped it or it could not be encrypted, and with the backend
\* it is an event of its own for which the owner is asked if that was the verdict: for any
\* messages, any length of the outbox, and any threads, failures and repairs.
THEOREM TextsAreKept == ASSUME IntakeAssumption PROVE IntakeSpec => []MessagesAreKept
BY IntakeAlways, IntakeInvKeeps, PTL

(***************************************************************************)
(* Numbers                                                                 *)
(***************************************************************************)

NatLess == {p \in Nat \X Nat : p[1] < p[2]}

\* Some numbers have a least one: < is well-founded.
LEMMA HasLeast == ASSUME NEW T, T \subseteq Nat, T # {} PROVE \E x \in T : \A y \in T : x <= y
<1>1. IsWellFoundedOn(NatLess, Nat)
  BY NatLessThanWellFounded DEF NatLess, OpToRel
<1>2. \E x \in T : \A y \in T : ~ (<<y, x>> \in NatLess)
  BY <1>1, WFMin
<1>3. PICK x \in T : \A y \in T : ~ (<<y, x>> \in NatLess)
  BY <1>2
<1>4. ASSUME NEW y \in T PROVE x <= y
  <2>1. ~(y < x)
    BY <1>3 DEF NatLess
  <2> QED BY <2>1
<1> QED BY <1>4

(***************************************************************************)
(* Actions                                                                 *)
(***************************************************************************)

LEMMA Latest == ASSUME NEW n \in Nat, NEW T, T \subseteq 1..n, T # {}
                PROVE  \E x \in T : \A y \in T : y <= x
<1> DEFINE left == {n - i : i \in T}
<1>1. left \subseteq Nat /\ left # {}
  <2>1. \A i \in T : i \in Nat /\ i <= n
    OBVIOUS
  <2>2. left \subseteq Nat
    BY <2>1
  <2>3. left # {}
    OBVIOUS
  <2> QED BY <2>2, <2>3
<1>2. PICK l \in left : \A m \in left : l <= m
  BY <1>1, HasLeast
<1>3. PICK x \in T : l = n - x
  OBVIOUS
<1>4. ASSUME NEW y \in T PROVE y <= x
  <2>1. n - x <= n - y
    BY <1>2, <1>3
  <2> QED BY <2>1
<1> QED BY <1>4

TaskStates == Pending \cup {"none", "completed", "cancelled"}
Sessions == [pc : {"idle", "reconciling", "sending", "sent"}, close : SUBSET (Kinds \X Slots),
             create : SUBSET Kinds, slot : {0} \cup Slots, alone : BOOLEAN]
QueueTypes ==
  /\ letter \in [flag : BOOLEAN, wants : SUBSET Kinds] /\ proof \subseteq Kinds
  /\ queue \in [Kinds -> [Slots -> TaskStates]] /\ hand \in [Hands -> Sessions]
  /\ plan \in {"none", "queued", "sent", "verified"} /\ sent \in 0..2
  /\ crossed \in BOOLEAN /\ settled \in BOOLEAN

\* An action that has a record, a task that was not cancelled, or the owner's no
Taken(k) == k \in proof \cup dropped \/ IsCompleted(k) \/ IsOpen(k)

\* The reply is in one hand at most, and its acceptance is on record or known to a hand.
OneHand ==
  ~crossed =>
    /\ \A g \in Sending, h \in Sending : g = h
    /\ Sending # {} => plan = "none"
    /\ sent > 0 => "reply" \in proof \/ plan = "sent" \/ \E h \in Hands : hand[h].pc = "sent"
    /\ plan = "queued" \/ (\E h \in Hands : hand[h].pc = "sending") => sent = 0
    /\ sent <= 1

\* What a reconciliation has read still holds of what it leaves alone, and all of it does
\* if nobody crossed it.
ReadsWell(h) ==
  hand[h].pc = "reconciling" =>
    /\ \A k \in letter.wants \ hand[h].create : Taken(k)
    /\ \A t \in hand[h].close : queue[t[1]][t[2]] # "none"
    /\ hand[h].alone => /\ hand[h].create = Lacking
                        /\ hand[h].close = {t \in Kinds \X Slots : t[2] \in Stale(t[1])}

IsSettled ==
  settled => \A k \in letter.wants :
    /\ k \in proof => ~IsOpen(k)
    /\ ~IsOpen(k) => k \in proof \/ IsCompleted(k)

ActionInv ==
  /\ QueueTypes /\ OneHand /\ IsSettled /\ \A h \in Hands : ReadsWell(h)
  /\ plan = "verified" => "reply" \in proof
  /\ ~letter.flag => \A k \in letter.wants : Taken(k)

LEMMA KindsAre == "reply" \in Kinds /\ "bill" \in Kinds /\ "bill" # "reply"
BY DEF Kinds

LEMMA FreeIs == Free \in Sessions /\ Free.pc = "idle"
BY DEF Free, Sessions

LEMMA ActionInitInv == ASSUME ActionAssumption, ActionInit PROVE ActionInv
<1>1. QueueTypes
  <2>1. PICK wanted \in WishLists, planned \in {"none", "queued"} :
          /\ letter = [flag |-> TRUE, wants |-> wanted]
          /\ plan = IF "reply" \in wanted THEN planned ELSE "none"
    BY DEF ActionInit
  <2>2. wanted \in SUBSET Kinds
    BY DEF ActionAssumption
  <2>3. letter \in [flag : BOOLEAN, wants : SUBSET Kinds]
    BY <2>1, <2>2
  <2>4. plan \in {"none", "queued", "sent", "verified"}
    BY <2>1
  <2>5. queue \in [Kinds -> [Slots -> TaskStates]] /\ hand \in [Hands -> Sessions]
    BY FreeIs DEF ActionInit, TaskStates
  <2>6. proof = {} /\ sent = 0
    BY DEF ActionInit
  <2>7. crossed \in BOOLEAN /\ settled \in BOOLEAN
    BY Zenon DEF ActionInit
  <2> QED BY <2>3, <2>4, <2>5, <2>6, <2>7 DEF QueueTypes
<1>2. \A h \in Hands : hand[h].pc = "idle"
  BY FreeIs DEF ActionInit
<1>3. letter.flag /\ plan # "verified"
  BY DEF ActionInit
<1> QED BY <1>1, <1>2, <1>3 DEF ActionInit, ActionInv, OneHand, Sending, ReadsWell, IsSettled

-----
\* Steps that write to the queue or to the records

LEMMA Disturbed ==
  ASSUME ActionInv, Disturb, UNCHANGED letter, QueueTypes', OneHand',
         (plan = "verified" => "reply" \in proof)',
         \A k \in Kinds : Taken(k) => Taken(k)',
         \A k \in Kinds, i \in Slots : queue[k][i] # "none" => queue'[k][i] # "none"
  PROVE  ActionInv'
<1>1. ASSUME NEW h \in Hands PROVE ReadsWell(h)'
  <2>1. /\ hand'[h].pc = hand[h].pc /\ hand'[h].create = hand[h].create
        /\ hand'[h].close = hand[h].close /\ ~hand'[h].alone
    BY DEF Disturb, ActionInv, QueueTypes, Sessions
  <2>2. hand[h].close \subseteq Kinds \X Slots /\ letter.wants \subseteq Kinds
    BY DEF ActionInv, QueueTypes, Sessions
  <2>3. ReadsWell(h)
    BY DEF ActionInv
  <2>4. ASSUME hand[h].pc = "reconciling", NEW k \in letter.wants \ hand[h].create PROVE Taken(k)'
    BY <2>2, <2>3, <2>4 DEF ReadsWell
  <2>5. ASSUME hand[h].pc = "reconciling", NEW t \in hand[h].close PROVE queue'[t[1]][t[2]] # "none"
    BY <2>2, <2>3, <2>5 DEF ReadsWell
  <2> QED BY <2>1, <2>4, <2>5 DEF ReadsWell
<1>2. ~letter'.flag => \A k \in letter'.wants : Taken(k)'
  BY DEF ActionInv, QueueTypes
<1> QED BY <1>1, <1>2 DEF ActionInv, Disturb, IsSettled

LEMMA SamePlaces ==
  ASSUME ActionInv, Disturb
  PROVE  /\ hand' \in [Hands -> Sessions] /\ \A h \in Hands : hand'[h].pc = hand[h].pc
         /\ Sending' = Sending
<1>1. hand' \in [Hands -> Sessions] /\ \A h \in Hands : hand'[h].pc = hand[h].pc
  BY DEF Disturb, ActionInv, QueueTypes, Sessions
<1> QED BY <1>1 DEF Sending

\* A task that changes to something else than a cancellation is taken all the same.
LEMMA TaskChanges ==
  ASSUME ActionInv, NEW k \in Kinds, NEW i \in Slots, NEW status \in Pending \cup {"completed"},
         queue' = [queue EXCEPT ![k][i] = status], proof \subseteq proof', dropped \subseteq dropped'
  PROVE  /\ queue' \in [Kinds -> [Slots -> TaskStates]]
         /\ \A l \in Kinds : Taken(l) => Taken(l)'
         /\ \A l \in Kinds, j \in Slots : queue[l][j] # "none" => queue'[l][j] # "none"
<1>1. queue \in [Kinds -> [Slots -> TaskStates]]
  BY DEF ActionInv, QueueTypes
<1>2. \A l \in Kinds, j \in Slots : queue'[l][j] = IF l = k /\ j = i THEN status ELSE queue[l][j]
  BY <1>1
<1>3. queue' \in [Kinds -> [Slots -> TaskStates]]
  BY <1>1 DEF TaskStates
<1>4. \A l \in Kinds : Taken(l) => Taken(l)'
  BY <1>2 DEF Taken, IsCompleted, IsOpen, OpenSlots
<1>5. \A l \in Kinds, j \in Slots : queue[l][j] # "none" => queue'[l][j] # "none"
  BY <1>2 DEF Pending
<1> QED BY <1>3, <1>4, <1>5

LEMMA SetStatusStep ==
  ASSUME ActionInv, NEW k \in Kinds, NEW i \in Slots, SetStatus(k, i) PROVE ActionInv'
<1>1. PICK status \in Pending \cup {"completed", "cancelled"} :
        /\ queue' = [queue EXCEPT ![k][i] = status]
        /\ dropped' = IF status = "cancelled" THEN dropped \cup {k} ELSE dropped
  BY DEF SetStatus
<1>2. Disturb /\ UNCHANGED <<letter, proof, plan, sent, crossed>>
  BY DEF SetStatus
<1>3. queue \in [Kinds -> [Slots -> TaskStates]]
  BY DEF ActionInv, QueueTypes
<1>4. \A l \in Kinds, j \in Slots : queue'[l][j] = IF l = k /\ j = i THEN status ELSE queue[l][j]
  BY <1>1, <1>3
<1>5. queue' \in [Kinds -> [Slots -> TaskStates]]
  BY <1>1, <1>3 DEF TaskStates
<1>6. QueueTypes'
  BY <1>2, <1>5, SamePlaces DEF ActionInv, QueueTypes, Disturb
<1>7. OneHand'
  BY <1>2, SamePlaces DEF ActionInv, OneHand
<1>8. \A l \in Kinds : Taken(l) => Taken(l)'
  BY <1>1, <1>2, <1>4 DEF Taken, IsCompleted, IsOpen, OpenSlots
<1>9. \A l \in Kinds, j \in Slots : queue[l][j] # "none" => queue'[l][j] # "none"
  BY <1>4 DEF Pending
<1> QED BY <1>2, <1>6, <1>7, <1>8, <1>9, Disturbed DEF ActionInv

LEMMA ReviewBillStep == ASSUME ActionInv, ReviewBill PROVE ActionInv'
<1>1. /\ Disturb /\ UNCHANGED <<letter, queue, plan, sent, crossed>>
      /\ proof' \subseteq proof \cup {"bill"} /\ proof \ {"bill"} \subseteq proof'
      /\ dropped \subseteq dropped' /\ ("bill" \in proof => "bill" \in proof' \cup dropped')
  BY DEF ReviewBill
<1>2. QueueTypes'
  BY <1>1, SamePlaces DEF ActionInv, QueueTypes, Disturb, Kinds
<1>3. "reply" \in proof' <=> "reply" \in proof
  BY <1>1
<1>4. OneHand'
  BY <1>1, <1>3, SamePlaces DEF ActionInv, OneHand
<1>5. \A k \in Kinds : Taken(k) => Taken(k)'
  BY <1>1 DEF Taken, IsCompleted, IsOpen, OpenSlots
<1> QED BY <1>1, <1>2, <1>3, <1>4, <1>5, Disturbed DEF ActionInv

LEMMA PlanReplyStep == ASSUME ActionInv, NEW i \in Slots, PlanReply(i) PROVE ActionInv'
<1>1. /\ Disturb /\ UNCHANGED <<letter, proof, sent, dropped>>
      /\ \E status \in Pending \cup {"completed"} : queue' = [queue EXCEPT !["reply"][i] = status]
  BY DEF PlanReply, Pending
<1>2. /\ queue' \in [Kinds -> [Slots -> TaskStates]]
      /\ \A l \in Kinds : Taken(l) => Taken(l)'
      /\ \A l \in Kinds, j \in Slots : queue[l][j] # "none" => queue'[l][j] # "none"
  BY <1>1, TaskChanges, KindsAre
<1>3. \/ UNCHANGED <<plan, crossed>>
      \/ /\ plan' = IF plan = "none" THEN "queued" ELSE plan
         /\ crossed' = (crossed \/ (plan = "none" /\ (Sending # {} \/ sent > 0)))
  BY DEF PlanReply
<1>4. /\ plan' \in {"none", "queued", "sent", "verified"} /\ crossed' \in BOOLEAN
      /\ (plan' = plan \/ (plan = "none" /\ plan' = "queued"))
  BY <1>3 DEF ActionInv, QueueTypes
<1>5. QueueTypes'
  BY <1>1, <1>2, <1>4, SamePlaces DEF ActionInv, QueueTypes, Disturb
<1>6. ~crossed' => ~crossed /\ (plan' = plan \/ (Sending = {} /\ ~(sent > 0)))
  BY <1>3, <1>4 DEF ActionInv, QueueTypes
<1>7. OneHand'
  <2> SUFFICES ASSUME ~crossed' PROVE OneHand'
    BY DEF OneHand
  <2>1. ~crossed /\ sent' = sent /\ proof' = proof /\ sent \in 0..2
    BY <1>1, <1>6 DEF ActionInv, QueueTypes
  <2>2. CASE plan' = plan
    BY <2>1, <2>2, <1>1, SamePlaces DEF ActionInv, OneHand
  <2>3. CASE Sending = {} /\ ~(sent > 0)
    <3>1. Sending' = {} /\ sent' = 0
      BY <1>1, <2>1, <2>3, SamePlaces
    <3> QED BY <3>1 DEF OneHand
  <2> QED BY <1>6, <2>2, <2>3
<1> QED BY <1>1, <1>2, <1>4, <1>5, <1>7, Disturbed DEF ActionInv

LEMMA VerifyPlannedStep == ASSUME ActionInv, VerifyPlanned PROVE ActionInv'
<1>1. /\ plan = "sent" /\ plan' = "verified" /\ proof' = proof \cup {"reply"}
      /\ Disturb /\ UNCHANGED <<letter, sent, crossed, dropped>>
  BY DEF VerifyPlanned
<1>2. \/ queue' = queue
      \/ \E i \in Slots : queue' = [queue EXCEPT !["reply"][i] = "completed"]
  BY DEF VerifyPlanned, OpenSlots
<1>3. /\ queue' \in [Kinds -> [Slots -> TaskStates]]
      /\ \A l \in Kinds : Taken(l) => Taken(l)'
      /\ \A l \in Kinds, j \in Slots : queue[l][j] # "none" => queue'[l][j] # "none"
  <2>1. CASE queue' = queue
    BY <1>1, <2>1 DEF Taken, IsCompleted, IsOpen, OpenSlots, ActionInv, QueueTypes
  <2>2. CASE \E i \in Slots : queue' = [queue EXCEPT !["reply"][i] = "completed"]
    BY <1>1, <2>2, TaskChanges, KindsAre
  <2> QED BY <1>2, <2>1, <2>2
<1>4. QueueTypes'
  BY <1>1, <1>3, SamePlaces, KindsAre DEF ActionInv, QueueTypes, Disturb
<1>5. OneHand'
  BY <1>1, SamePlaces DEF ActionInv, OneHand, QueueTypes
<1> QED BY <1>1, <1>3, <1>4, <1>5, Disturbed DEF ActionInv

LEMMA RepairQueueStep == ASSUME ActionAssumption, ActionInv, Repair PROVE ActionInv'
<1>1. /\ Disturb /\ UNCHANGED <<letter, proof, plan, sent, crossed, dropped>>
      /\ queue' = [k \in Kinds |-> [i \in Slots |->
           IF i \in Superfluous(k) THEN "cancelled" ELSE queue[k][i]]]
  BY DEF Repair
<1>2. /\ queue' \in [Kinds -> [Slots -> TaskStates]]
      /\ \A k \in Kinds, i \in Slots : queue[k][i] # "none" => queue'[k][i] # "none"
  BY <1>1 DEF ActionInv, QueueTypes, TaskStates
<1>3. QueueTypes'
  BY <1>1, <1>2, SamePlaces DEF ActionInv, QueueTypes, Disturb
<1>4. OneHand'
  BY <1>1, SamePlaces DEF ActionInv, OneHand
<1>5. ASSUME NEW k \in Kinds, Taken(k) PROVE Taken(k)'
  <2>1. CASE k \in proof \cup dropped
    BY <1>1, <2>1 DEF Taken
  <2>2. CASE IsCompleted(k)
    BY <1>1, <2>2 DEF IsCompleted, Superfluous, OpenSlots, Pending, Taken
  <2>3. CASE IsOpen(k) /\ k \notin proof
    <3>1. OpenSlots(k) \subseteq 1..TaskLimit /\ OpenSlots(k) # {} /\ TaskLimit \in Nat
      BY <2>3 DEF OpenSlots, IsOpen, Slots, ActionAssumption
    <3>2. PICK i \in OpenSlots(k) : \A j \in OpenSlots(k) : j <= i
      BY <3>1, Latest
    <3>3. i \notin Superfluous(k)
      <4>1. ~ \E j \in OpenSlots(k) : j > i
        BY <3>1, <3>2
      <4>2. ~ (k = "reply" /\ plan = "verified")
        BY <2>3 DEF ActionInv
      <4> QED BY <4>1, <4>2 DEF Superfluous
    <3> QED BY <1>1, <3>3 DEF OpenSlots, IsOpen, Taken
  <2> QED BY <1>5, <2>1, <2>2, <2>3 DEF Taken
<1> QED BY <1>1, <1>2, <1>3, <1>4, <1>5, Disturbed DEF ActionInv

-----
\* Steps of a session

LEMMA SameQueue ==
  ASSUME UNCHANGED <<queue, proof, dropped>>
  PROVE  /\ \A k : /\ Taken(k) <=> Taken(k)'
                   /\ IsOpen(k) <=> IsOpen(k)'
                   /\ IsCompleted(k) <=> IsCompleted(k)'
                   /\ Stale(k)' = Stale(k)
         /\ letter' = letter => Lacking' = Lacking
<1>1. \A k : OpenSlots(k)' = OpenSlots(k) /\ (IsCompleted(k) <=> IsCompleted(k)')
  BY DEF OpenSlots, IsCompleted
<1>2. \A k : (IsOpen(k) <=> IsOpen(k)') /\ Stale(k)' = Stale(k)
  BY <1>1 DEF IsOpen, Stale, OnRecord
<1>3. \A k : Taken(k) <=> Taken(k)'
  BY <1>1, <1>2 DEF Taken
<1>4. letter' = letter => Lacking' = Lacking
  BY <1>1, <1>2 DEF Lacking, OnRecord
<1> QED BY <1>1, <1>2, <1>3, <1>4

\* Steps that leave the queue and the records alone, and read nothing
LEMMA QueueLeft ==
  ASSUME ActionInv, UNCHANGED <<letter, queue, proof, dropped, settled>>, QueueTypes', OneHand',
         plan' = "verified" => plan = "verified",
         \A h \in Hands : hand'[h].pc = "reconciling" => hand'[h] = hand[h]
  PROVE  ActionInv'
<1>1. \A k : /\ Taken(k) <=> Taken(k)'
             /\ IsOpen(k) <=> IsOpen(k)'
             /\ IsCompleted(k) <=> IsCompleted(k)'
             /\ Stale(k)' = Stale(k)
  BY SameQueue
<1>2. Lacking' = Lacking
  BY SameQueue
<1>3. \A h \in Hands : ReadsWell(h)'
  BY <1>1, <1>2 DEF ActionInv, ReadsWell
<1> QED BY <1>1, <1>3 DEF ActionInv, IsSettled

LEMMA ReconcileStep == ASSUME ActionInv, NEW h \in Hands, Reconcile(h) PROVE ActionInv'
<1> DEFINE stale == {t \in Kinds \X Slots : t[2] \in Stale(t[1])}
           new == [pc |-> "reconciling", slot |-> 0, create |-> Lacking, close |-> stale, alone |-> TRUE]
<1>1. /\ hand[h].pc = "idle" /\ hand' = [hand EXCEPT ![h] = new]
      /\ UNCHANGED <<letter, queue, proof, plan, sent, crossed, dropped, settled>>
  BY DEF Reconcile
<1>2. Lacking \in SUBSET Kinds /\ stale \in SUBSET (Kinds \X Slots) /\ letter.wants \subseteq Kinds
  BY DEF Lacking, ActionInv, QueueTypes
<1>3. new \in Sessions
  BY <1>2 DEF Sessions
<1>4. /\ new.pc = "reconciling" /\ new.create = Lacking /\ new.close = stale
  OBVIOUS
<1>5. \A t \in stale : queue[t[1]][t[2]] # "none"
  BY DEF Stale, OpenSlots, Pending
<1>6. \A k \in letter.wants \ Lacking : Taken(k)
  BY DEF Lacking, OnRecord, Taken
<1> HIDE DEF new
<1>7. hand' \in [Hands -> Sessions] /\ \A g \in Hands : hand'[g] = IF g = h THEN new ELSE hand[g]
  BY <1>1, <1>3 DEF ActionInv, QueueTypes
<1>8. QueueTypes'
  BY <1>1, <1>7 DEF ActionInv, QueueTypes
<1>9. OneHand'
  <2>1. Sending' = Sending
    BY <1>1, <1>4, <1>7 DEF Sending
  <2>2. \A g \in Hands, pc \in {"sending", "sent"} : hand'[g].pc = pc <=> hand[g].pc = pc
    BY <1>1, <1>4, <1>7
  <2> QED BY <1>1, <2>1, <2>2 DEF ActionInv, OneHand
<1>10. \A k : /\ Taken(k) <=> Taken(k)'
              /\ IsOpen(k) <=> IsOpen(k)'
              /\ IsCompleted(k) <=> IsCompleted(k)'
              /\ Stale(k)' = Stale(k)
  BY <1>1, SameQueue
<1>11. Lacking' = Lacking
  BY <1>1, SameQueue
<1>12. stale' = stale
  BY <1>10
<1> HIDE DEF stale
<1>13. ASSUME NEW g \in Hands PROVE ReadsWell(g)'
  <2>1. CASE g = h
    <3>1. ReadsWell(g)' <=>
            (hand'[g].pc = "reconciling" =>
              /\ \A k \in letter'.wants \ hand'[g].create : Taken(k)'
              /\ \A t \in hand'[g].close : queue'[t[1]][t[2]] # "none"
              /\ hand'[g].alone => hand'[g].create = Lacking' /\ hand'[g].close = stale')
      BY DEF ReadsWell, stale
    <3> QED BY <1>1, <1>4, <1>5, <1>6, <1>7, <1>10, <1>11, <1>12, <2>1, <3>1
  <2>2. CASE g # h
    BY <1>1, <1>7, <1>10, <1>11, <2>2 DEF ActionInv, ReadsWell
  <2> QED BY <2>1, <2>2
<1> QED BY <1>1, <1>8, <1>9, <1>10, <1>13 DEF ActionInv, IsSettled

LEMMA SettleStep == ASSUME ActionAssumption, ActionInv, NEW h \in Hands, Settle(h) PROVE ActionInv'
<1> DEFINE c == hand[h]
           unresolved == \E k \in Kinds, i \in Slots : queue'[k][i] \in Pending
<1>1. /\ c.pc = "reconciling" /\ \A k \in c.create : Vacant(k) # {}
      /\ queue' = [k \in Kinds |-> [i \in Slots |->
           IF <<k, i>> \in c.close THEN "completed"
           ELSE IF k \in c.create /\ i = NewTask(k) THEN "open" ELSE queue[k][i]]]
      /\ settled' = c.alone /\ Hand(h, Free)
      /\ UNCHANGED <<proof, plan, sent, crossed, dropped>>
  BY DEF Settle
<1>2. letter' = [letter EXCEPT !.flag = letter.flag /\ (unresolved \/ "bill" \in c.create)]
  <2>1. letter' = [letter EXCEPT !.flag = letter.flag /\
          ((\E k \in Kinds, i \in Slots :
             [l \in Kinds |-> [j \in Slots |->
               IF <<l, j>> \in c.close THEN "completed"
               ELSE IF l \in c.create /\ j = NewTask(l) THEN "open" ELSE queue[l][j]]][k][i] \in Pending)
           \/ "bill" \in c.create)]
    BY DEF Settle
  <2> QED BY <1>1, <2>1
<1>3. c \in Sessions /\ QueueTypes /\ ReadsWell(h) /\ c.create \subseteq Kinds
  BY DEF ActionInv, QueueTypes, Sessions
<1>4. \A k \in c.create : NewTask(k) \in Slots /\ queue[k][NewTask(k)] = "none"
  <2> SUFFICES ASSUME NEW k \in c.create PROVE NewTask(k) \in Vacant(k)
    BY DEF Vacant
  <2>1. Vacant(k) \subseteq Nat /\ Vacant(k) # {}
    BY <1>1 DEF Vacant, Slots
  <2>2. \E i \in Vacant(k) : \A j \in Vacant(k) : i <= j
    BY <2>1, HasLeast
  <2> QED BY <2>2 DEF NewTask, First
<1> HIDE DEF c
<1>5. /\ \A k \in Kinds, i \in Slots : <<k, i>> \in c.close => queue'[k][i] = "completed"
      /\ \A k \in c.create : queue'[k][NewTask(k)] = "open"
      /\ \A k \in Kinds, i \in Slots :
           <<k, i>> \notin c.close /\ queue[k][i] # "none" => queue'[k][i] = queue[k][i]
      /\ \A k \in Kinds \ c.create, i \in Slots : <<k, i>> \notin c.close => queue'[k][i] = queue[k][i]
  <2>1. \A t \in c.close : queue[t[1]][t[2]] # "none"
    BY <1>1, <1>3 DEF ReadsWell, c
  <2>2. \A k \in c.create : k \in Kinds /\ <<k, NewTask(k)>> \notin c.close
    BY <1>3, <1>4, <2>1
  <2> QED BY <1>1, <1>4, <2>2
<1>6. \A k \in Kinds : Taken(k) => Taken(k)'
  BY <1>1, <1>5 DEF Taken, IsCompleted, IsOpen, OpenSlots, Pending
<1>7. \A k \in Kinds, i \in Slots : queue[k][i] # "none" => queue'[k][i] # "none"
  BY <1>5
<1>8. /\ hand' \in [Hands -> Sessions] /\ hand'[h].pc = "idle"
      /\ \A g \in Hands : g # h => /\ hand'[g].pc = hand[g].pc /\ hand'[g].create = hand[g].create
                                   /\ hand'[g].close = hand[g].close /\ ~hand'[g].alone
  <2>1. hand' = [g \in Hands |-> IF g = h THEN Free ELSE [hand[g] EXCEPT !.alone = FALSE]]
    BY <1>1 DEF Hand
  <2> QED BY <1>3, <2>1, FreeIs DEF QueueTypes, Sessions
<1>9. OneHand'
  <2>1. Sending' = Sending
    BY <1>1, <1>8 DEF Sending, c
  <2>2. \A g \in Hands, pc \in {"sending", "sent"} : hand'[g].pc = pc <=> hand[g].pc = pc
    BY <1>1, <1>8 DEF c
  <2> QED BY <1>1, <2>1, <2>2 DEF ActionInv, OneHand
<1>10. /\ letter' \in [flag : BOOLEAN, wants : SUBSET Kinds] /\ letter'.wants = letter.wants
       /\ letter'.flag <=> letter.flag /\ (unresolved \/ "bill" \in c.create)
  <2> DEFINE b == letter.flag /\ (unresolved \/ "bill" \in c.create)
  <2>1. b \in BOOLEAN /\ letter' = [letter EXCEPT !.flag = b]
    BY <1>2
  <2> HIDE DEF b
  <2>2. letter'.flag = b /\ letter' \in [flag : BOOLEAN, wants : SUBSET Kinds]
          /\ letter'.wants = letter.wants
    BY <1>3, <2>1 DEF QueueTypes
  <2> QED BY <2>2 DEF b
<1>11. queue' \in [Kinds -> [Slots -> TaskStates]] /\ settled' \in BOOLEAN
  BY <1>1, <1>3 DEF QueueTypes, TaskStates, Pending, Sessions
<1>12. QueueTypes'
  BY <1>1, <1>3, <1>8, <1>10, <1>11 DEF QueueTypes
<1>13. ASSUME NEW g \in Hands PROVE ReadsWell(g)'
  <2>1. CASE g = h
    BY <1>8, <2>1 DEF ReadsWell
  <2>2. CASE g # h
    <3>1. ReadsWell(g) /\ hand[g].close \subseteq Kinds \X Slots /\ letter.wants \subseteq Kinds
      BY DEF ActionInv, QueueTypes, Sessions
    <3> QED BY <1>6, <1>7, <1>8, <1>10, <2>2, <3>1 DEF ReadsWell
  <2> QED BY <2>1, <2>2
<1>14. ASSUME ~letter'.flag, NEW k \in letter'.wants PROVE Taken(k)'
  <2>1. k \in letter.wants /\ k \in Kinds
    BY <1>3, <1>10, <1>14 DEF QueueTypes
  <2>2. CASE ~letter.flag
    BY <1>6, <2>1, <2>2 DEF ActionInv
  <2>3. CASE ~unresolved
    <3>1. c.create = {}
      BY <1>3, <1>4, <1>5, <2>3 DEF Pending
    <3> QED BY <1>1, <1>3, <1>6, <2>1, <3>1 DEF ReadsWell, c
  <2> QED BY <1>10, <1>14, <2>2, <2>3
<1>15. IsSettled'
  <2> SUFFICES ASSUME settled', NEW k \in letter'.wants
               PROVE  (k \in proof' => ~IsOpen(k)') /\ (~IsOpen(k)' => k \in proof' \/ IsCompleted(k)')
    BY DEF IsSettled
  <2>1. k \in letter.wants /\ k \in Kinds
    BY <1>3, <1>10 DEF QueueTypes
  <2>2. c.create = Lacking /\ c.close = {t \in Kinds \X Slots : t[2] \in Stale(t[1])}
    BY <1>1, <1>3 DEF ReadsWell, c
  <2>3. \A i \in Slots : <<k, i>> \in c.close <=> i \in Stale(k)
    BY <2>1, <2>2
  <2>4. CASE k \in proof
    <3>1. k \notin c.create /\ Stale(k) = OpenSlots(k)
      BY <2>2, <2>4 DEF Lacking, OnRecord, Stale
    <3>2. ASSUME NEW i \in Slots PROVE queue'[k][i] \notin Pending
      <4>1. CASE <<k, i>> \in c.close
        BY <1>5, <2>1, <4>1 DEF Pending
      <4>2. CASE <<k, i>> \notin c.close
        <5>1. queue'[k][i] = queue[k][i]
          BY <1>5, <2>1, <3>1, <4>2
        <5>2. i \notin OpenSlots(k)
          BY <2>3, <3>1, <4>2
        <5> QED BY <5>1, <5>2 DEF OpenSlots
      <4> QED BY <4>1, <4>2
    <3> QED BY <1>1, <2>4, <3>2 DEF IsOpen, OpenSlots
  <2>5. CASE k \notin proof
    <3>1. \A i \in Slots : <<k, i>> \notin c.close
      BY <2>3, <2>5 DEF Stale, OnRecord
    <3>2. CASE k \in c.create
      BY <1>1, <1>4, <1>5, <2>5, <3>2 DEF IsOpen, OpenSlots, Pending
    <3>3. CASE k \notin c.create
      <4>1. IsOpen(k) \/ IsCompleted(k)
        BY <2>1, <2>2, <2>5, <3>3 DEF Lacking, OnRecord
      <4>2. \A i \in Slots : queue'[k][i] = queue[k][i]
        BY <1>5, <2>1, <3>1, <3>3
      <4> QED BY <1>1, <2>5, <4>1, <4>2 DEF IsOpen, OpenSlots, IsCompleted
    <3> QED BY <3>2, <3>3
  <2> QED BY <2>4, <2>5
<1> QED BY <1>1, <1>9, <1>12, <1>13, <1>14, <1>15 DEF ActionInv

LEMMA ExecuteStep == ASSUME ActionInv, NEW h \in Hands, NEW i \in Slots, Execute(h, i) PROVE ActionInv'
<1>1. hand[h].pc = "idle" /\ UNCHANGED <<letter, proof, plan, sent, dropped>>
  BY DEF Execute
<1>2. CASE "reply" \in proof
  <2>1. /\ queue' = [queue EXCEPT !["reply"][i] = "completed"] /\ Disturb /\ UNCHANGED crossed
    BY <1>2 DEF Execute, AlreadySent, OnRecord
  <2>2. /\ queue' \in [Kinds -> [Slots -> TaskStates]]
        /\ \A l \in Kinds : Taken(l) => Taken(l)'
        /\ \A l \in Kinds, j \in Slots : queue[l][j] # "none" => queue'[l][j] # "none"
    BY <1>1, <2>1, TaskChanges, KindsAre
  <2>3. QueueTypes'
    BY <1>1, <2>1, <2>2, SamePlaces DEF ActionInv, QueueTypes, Disturb
  <2>4. OneHand'
    BY <1>1, <2>1, SamePlaces DEF ActionInv, OneHand
  <2> QED BY <1>1, <2>1, <2>2, <2>3, <2>4, Disturbed DEF ActionInv
<1>3. CASE "reply" \notin proof
  <2> DEFINE new == [Free EXCEPT !.pc = "sending", !.slot = i]
  <2>1. /\ hand' = [hand EXCEPT ![h] = new] /\ UNCHANGED <<queue, settled>>
        /\ crossed' = (crossed \/ Sending # {} \/ plan \in {"queued", "sent"})
    BY <1>3 DEF Execute, AlreadySent, OnRecord
  <2>2. new \in Sessions /\ new.pc = "sending"
    BY DEF Free, Sessions
  <2> HIDE DEF new
  <2>3. hand' \in [Hands -> Sessions] /\ \A g \in Hands : hand'[g] = IF g = h THEN new ELSE hand[g]
    BY <2>1, <2>2 DEF ActionInv, QueueTypes
  <2>4. QueueTypes'
    BY <1>1, <2>1, <2>3 DEF ActionInv, QueueTypes
  <2>5. OneHand'
    <3> SUFFICES ASSUME ~crossed' PROVE OneHand'
      BY DEF OneHand
    <3>1. ~crossed /\ Sending = {} /\ plan = "none"
      BY <1>3, <2>1 DEF ActionInv, QueueTypes
    <3>2. Sending' = {h}
      BY <2>2, <2>3, <3>1 DEF Sending
    <3>3. sent = 0
      BY <1>3, <3>1 DEF ActionInv, OneHand, Sending, QueueTypes
    <3> QED BY <1>1, <3>1, <3>2, <3>3 DEF OneHand
  <2> QED BY <1>1, <2>1, <2>2, <2>3, <2>4, <2>5, QueueLeft
<1> QED BY <1>2, <1>3

LEMMA SendStep == ASSUME ActionInv, (\E h \in Hands : Send(h)) \/ SendPlanned PROVE ActionInv'
<1>1. /\ sent < 2 /\ sent' = sent + 1 /\ UNCHANGED <<letter, queue, proof, crossed, dropped, settled>>
  BY DEF Send, SendPlanned
<1>2. CASE \E h \in Hands : Send(h)
  <2>1. PICK h \in Hands : hand[h].pc = "sending" /\ hand' = [hand EXCEPT ![h].pc = "sent"]
             /\ plan' = plan
    BY <1>2 DEF Send
  <2>2. /\ hand' \in [Hands -> Sessions] /\ hand'[h].pc = "sent"
        /\ \A g \in Hands : g # h => hand'[g] = hand[g]
    BY <2>1 DEF ActionInv, QueueTypes, Sessions
  <2>3. QueueTypes'
    BY <1>1, <2>1, <2>2 DEF ActionInv, QueueTypes
  <2>4. OneHand'
    <3> SUFFICES ASSUME ~crossed PROVE OneHand'
      BY <1>1 DEF OneHand
    <3>1. sent = 0 /\ plan = "none" /\ \A g \in Sending : g = h
      BY <2>1 DEF ActionInv, OneHand, Sending
    <3>2. Sending' = Sending
      BY <2>1, <2>2 DEF Sending
    <3>3. \A g \in Hands : hand'[g].pc # "sending"
      BY <2>2, <3>1 DEF Sending
    <3> QED BY <1>1, <2>1, <2>2, <3>1, <3>2, <3>3 DEF OneHand
  <2> QED BY <1>1, <2>1, <2>2, <2>3, <2>4, QueueLeft
<1>3. CASE SendPlanned
  <2>1. plan = "queued" /\ plan' = "sent" /\ hand' = hand
    BY <1>3 DEF SendPlanned
  <2>2. QueueTypes'
    BY <1>1, <2>1 DEF ActionInv, QueueTypes
  <2>3. OneHand'
    <3> SUFFICES ASSUME ~crossed PROVE OneHand'
      BY <1>1 DEF OneHand
    <3>1. sent = 0 /\ Sending = {}
      BY <2>1 DEF ActionInv, OneHand
    <3>2. Sending' = {} /\ \A g \in Hands : hand'[g].pc # "sending"
      BY <2>1, <3>1 DEF Sending
    <3> QED BY <1>1, <2>1, <3>1, <3>2 DEF OneHand
  <2> QED BY <1>1, <2>1, <2>2, <2>3, QueueLeft
<1> QED BY <1>2, <1>3

LEMMA RecordSentStep == ASSUME ActionInv, NEW h \in Hands, RecordSent(h) PROVE ActionInv'
<1> DEFINE i == hand[h].slot
<1>1. /\ hand[h].pc = "sent" /\ queue' = [queue EXCEPT !["reply"][i] = "completed"]
      /\ proof' = proof \cup {"reply"} /\ Hand(h, Free) /\ ~settled'
      /\ UNCHANGED <<letter, plan, sent, crossed, dropped>>
  BY DEF RecordSent
<1>2. /\ queue' \in [Kinds -> [Slots -> TaskStates]]
      /\ \A l \in Kinds : Taken(l) => Taken(l)'
      /\ \A l \in Kinds, j \in Slots : queue[l][j] # "none" => queue'[l][j] # "none"
  <2>1. CASE i \in Slots
    BY <1>1, <2>1, TaskChanges, KindsAre
  <2>2. CASE i \notin Slots
    <3>1. queue' = queue /\ queue \in [Kinds -> [Slots -> TaskStates]]
      BY <1>1, <2>2 DEF ActionInv, QueueTypes
    <3> QED BY <1>1, <3>1 DEF Taken, IsCompleted, IsOpen, OpenSlots
  <2> QED BY <2>1, <2>2
<1>3. /\ hand' \in [Hands -> Sessions] /\ hand'[h].pc = "idle"
      /\ \A g \in Hands : g # h => /\ hand'[g].pc = hand[g].pc /\ hand'[g].create = hand[g].create
                                   /\ hand'[g].close = hand[g].close /\ ~hand'[g].alone
  <2>1. hand' = [g \in Hands |-> IF g = h THEN Free ELSE [hand[g] EXCEPT !.alone = FALSE]]
    BY <1>1 DEF Hand
  <2> QED BY <2>1, FreeIs DEF ActionInv, QueueTypes, Sessions
<1>4. QueueTypes'
  <2>1. settled' \in BOOLEAN
    BY DEF RecordSent
  <2> QED BY <1>1, <1>2, <1>3, <2>1, KindsAre DEF ActionInv, QueueTypes
<1>5. OneHand'
  <2> SUFFICES ASSUME ~crossed PROVE OneHand'
    BY <1>1 DEF OneHand
  <2>1. Sending' = Sending \ {h} /\ h \in Sending
    BY <1>1, <1>3 DEF Sending
  <2>2. Sending' = {} /\ plan = "none" /\ sent <= 1
    BY <2>1 DEF ActionInv, OneHand
  <2>3. \A g \in Hands : hand'[g].pc # "sending"
    BY <2>2 DEF Sending
  <2> QED BY <1>1, <2>2, <2>3 DEF OneHand
<1>6. ASSUME NEW g \in Hands PROVE ReadsWell(g)'
  <2>1. CASE g = h
    BY <1>3, <2>1 DEF ReadsWell
  <2>2. CASE g # h
    <3>1. ReadsWell(g) /\ hand[g].close \subseteq Kinds \X Slots /\ letter.wants \subseteq Kinds
      BY DEF ActionInv, QueueTypes, Sessions
    <3> QED BY <1>1, <1>2, <1>3, <2>2, <3>1 DEF ReadsWell
  <2> QED BY <2>1, <2>2
<1>7. ~letter'.flag => \A k \in letter'.wants : Taken(k)'
  BY <1>1, <1>2 DEF ActionInv, QueueTypes
<1> QED BY <1>1, <1>4, <1>5, <1>6, <1>7 DEF ActionInv, IsSettled

LEMMA HandDiesStep == ASSUME ActionInv, NEW h \in Hands, HandDies(h) PROVE ActionInv'
<1>1. /\ hand' = [hand EXCEPT ![h] = Free] /\ crossed' = (crossed \/ hand[h].pc = "sent")
      /\ UNCHANGED <<letter, queue, proof, plan, sent, dropped, settled>>
  BY DEF HandDies
<1>2. /\ hand' \in [Hands -> Sessions] /\ hand'[h].pc = "idle"
      /\ \A g \in Hands : g # h => hand'[g] = hand[g]
  BY <1>1, FreeIs DEF ActionInv, QueueTypes
<1>3. QueueTypes'
  BY <1>1, <1>2 DEF ActionInv, QueueTypes
<1>4. OneHand'
  <2> SUFFICES ASSUME ~crossed' PROVE OneHand'
    BY DEF OneHand
  <2>1. ~crossed /\ hand[h].pc # "sent"
    BY <1>1 DEF ActionInv, QueueTypes
  <2>2. Sending' \subseteq Sending
    BY <1>2 DEF Sending
  <2>3. \A g \in Hands : (hand[g].pc = "sent" => hand'[g].pc = "sent")
                         /\ (hand'[g].pc = "sending" => hand[g].pc = "sending")
    BY <1>2, <2>1
  <2> QED BY <1>1, <2>1, <2>2, <2>3 DEF ActionInv, OneHand
<1> QED BY <1>1, <1>2, <1>3, <1>4, QueueLeft

LEMMA ActionNextInv ==
  ASSUME ActionAssumption, ActionInv, [ActionNext]_actionVars PROVE ActionInv'
<1>1. CASE UNCHANGED actionVars
  <2>1. QueueTypes' /\ OneHand' /\ \A h \in Hands : hand'[h] = hand[h]
    BY <1>1 DEF actionVars, ActionInv, QueueTypes, OneHand, Sending
  <2> QED BY <1>1, <2>1, QueueLeft DEF actionVars
<1>2. CASE ReviewBill \/ VerifyPlanned \/ Repair
  BY <1>2, ReviewBillStep, VerifyPlannedStep, RepairQueueStep
<1>3. CASE SendPlanned \/ \E h \in Hands : Send(h)
  BY <1>3, SendStep
<1>4. CASE \E k \in Kinds, i \in Slots : SetStatus(k, i)
  BY <1>4, SetStatusStep
<1>5. CASE \E i \in Slots : PlanReply(i)
  BY <1>5, PlanReplyStep
<1>6. CASE \E h \in Hands : Reconcile(h) \/ Settle(h)
  BY <1>6, ReconcileStep, SettleStep
<1>7. CASE \E h \in Hands : RecordSent(h) \/ HandDies(h) \/ \E i \in Slots : Execute(h, i)
  BY <1>7, RecordSentStep, HandDiesStep, ExecuteStep
<1> QED BY <1>1, <1>2, <1>3, <1>4, <1>5, <1>6, <1>7 DEF ActionNext

LEMMA ActionAlways == ASSUME ActionAssumption PROVE ActionSpec => []ActionInv
BY ActionInitInv, ActionNextInv, PTL DEF ActionSpec

LEMMA ActionInvKeeps == ASSUME ActionInv PROVE ActionTypeOK /\ ActionsEndOnce
<1>1. ActionTypeOK
  BY DEF ActionInv, QueueTypes, Sessions, TaskStates, Pending, ActionTypeOK
<1>2. sent > 1 => crossed
  BY DEF ActionInv, QueueTypes, OneHand
<1> QED BY <1>1, <1>2 DEF ActionInv, IsSettled, Taken, ActionsEndOnce

\* The queue, the plan and the hands at work keep their types.
THEOREM ActionTypes == ASSUME ActionAssumption PROVE ActionSpec => []ActionTypeOK
BY ActionAlways, ActionInvKeeps, PTL

\* A reply that an action stands for goes out once unless two hands took it up at
\* once, and an action is closed only when what it asked for is settled: for any
\* hands, kinds of action and number of tasks.
THEOREM ActionsEnd == ASSUME ActionAssumption PROVE ActionSpec => []ActionsEndOnce
BY ActionAlways, ActionInvKeeps, PTL

(***************************************************************************)
(* Briefings                                                               *)
(***************************************************************************)

\* The latest of some ticks
LEMMA MaxIs == ASSUME NEW n \in Nat, NEW T, T \subseteq 0..n, T # {}
               PROVE  Max(T) \in T /\ \A y \in T : y <= Max(T)
<1> DEFINE left == {n - i : i \in T}
<1>1. left \subseteq Nat /\ left # {}
  <2>1. \A i \in T : n - i \in Nat
    OBVIOUS
  <2> QED BY <2>1
<1>2. PICK l \in left : \A m \in left : l <= m
  BY <1>1, HasLeast
<1>3. PICK x \in T : l = n - x
  OBVIOUS
<1>4. ASSUME NEW y \in T PROVE x >= y
  <2>1. n - x <= n - y
    BY <1>2, <1>3
  <2> QED BY <2>1
<1>5. Max(T) \in T /\ \A y \in T : Max(T) >= y
  BY <1>4 DEF Max
<1> QED BY <1>5

LEMMA PairMax == ASSUME NEW a \in Int, NEW b \in Int PROVE Max({a, b}) = IF a >= b THEN a ELSE b
BY DEF Max

LEMMA PairMin == ASSUME NEW a \in Int, NEW b \in Int PROVE Min({a, b}) = IF a <= b THEN a ELSE b
BY DEF Min

LEMMA DaysPass ==
  ASSUME NEW L \in Nat \ {0}, NEW a \in Nat, NEW b \in Nat, a <= b
  PROVE  a \div L \in Nat /\ b \div L \in Nat /\ a \div L <= b \div L
OBVIOUS

-----
Answers == [ready : SUBSET Keys, start : (-Fallback)..LastTick, end : Ticks, lists : SUBSET News]
Phones == [pc : Places, last : Keys \cup {NoKey}, key : Keys \cup {NoKey}, proof : Proofs,
           due : Keys \cup {NoKey}, answer : Answers]

BriefTypes ==
  /\ now \in Ticks /\ switched \subseteq Hours
  /\ news \in [News -> [at : 0..Never, stored : 0..Never]]
  /\ deliveries \subseteq Proofs /\ phone \in Phones
  /\ told \subseteq News /\ noted \subseteq Keys

\* A briefing told what is in its window, but for what newer things filled it.
Sound(p, listed) ==
  \A n \in News \ listed : Covers(p, n) /\ news[n].stored < p.end
    => Cardinality(Newer(p, n)) >= ListLimit

\* What lies before a window is covered by the deliveries, or by nothing that looks so far back.
Linked(p) ==
  \A n \in News : news[n].at < p.start =>
    \E e \in deliveries \cup {p} : \/ Covers(e, n)
                                   \/ news[n].at < e.start /\ e.end - e.start \in {Fallback, Lookback}

ProofsHold ==
  /\ \A d \in deliveries : d.key \in noted /\ Sound(d, told) /\ Linked(d)
  /\ phone.proof.key # NoKey =>
       phone.proof.key \in noted /\ Sound(phone.proof, told) /\ Linked(phone.proof)
  /\ phone.pc \in {"retrying", "proving"} => phone.key # NoKey
  /\ phone.pc \in {"answered", "shown"} => Linked(phone.answer)
  /\ phone.pc = "answered" => Sound(phone.answer, phone.answer.lists)
  /\ phone.pc = "shown" => Sound(phone.answer, told)

\* The period noted last is of the latest day, and no briefing is of an earlier one.
DaysGoOn ==
  /\ noted # {} => phone.last \in noted
  /\ \A k \in noted : k[1] <= phone.last[1] /\ k[1] <= now \div DayLength
  /\ phone.pc \in {"answered", "shown"} =>
       \A k \in phone.answer.ready :
         /\ k[1] <= now \div DayLength /\ \A j \in noted : j[1] <= k[1]
         /\ \A j \in phone.answer.ready : j[1] = k[1]
  /\ phone.pc = "shown" => phone.due \in phone.answer.ready /\ phone.due # phone.last

BriefInv == BriefTypes /\ ProofsHold /\ DaysGoOn

LEMMA BoundsAre ==
  ASSUME BriefingAssumption
  PROVE  /\ DayLength \in Nat \ {0} /\ LastTick \in Nat /\ Fallback \in Nat \ {0}
         /\ Lookback \in Nat /\ Lookback >= Fallback /\ ListLimit \in Nat
         /\ Hours \subseteq Nat /\ IsFiniteSet(News) /\ LastTick \div DayLength \in Nat
<1>1. /\ DayLength \in Nat \ {0} /\ LastTick \in Nat /\ Fallback \in Nat \ {0}
      /\ Lookback \in Nat /\ Lookback >= Fallback /\ ListLimit \in Nat
      /\ Hours \subseteq Nat /\ IsFiniteSet(News)
  BY DEF BriefingAssumption
<1> QED BY <1>1, DaysPass

LEMMA KeysAre ==
  ASSUME BriefingAssumption
  PROVE  /\ NoKey \notin Keys /\ \A k \in Keys : k[1] \in Nat
         /\ NoProof \in Proofs /\ NoProof.key = NoKey /\ NoAnswer \in Answers
<1>1. NoKey \notin Keys /\ \A k \in Keys : k[1] \in Nat
  BY BoundsAre DEF NoKey, Keys
<1>2. NoProof \in Proofs /\ NoProof.key = NoKey /\ NoAnswer \in Answers
  <2>1. 0 \in (-Fallback)..LastTick /\ 0 \in Ticks
    BY BoundsAre DEF Ticks
  <2> QED BY <2>1 DEF NoProof, Proof, Proofs, NoAnswer, Answers
<1> QED BY <1>1, <1>2

LEMMA BriefInitInv == ASSUME BriefingAssumption, BriefingInit PROVE BriefInv
<1>1. /\ phone \in Phones /\ phone.pc = "idle" /\ phone.proof.key = NoKey
  BY KeysAre DEF BriefingInit, Phones, Places
<1>2. news \in [News -> [at : 0..Never, stored : 0..Never]]
  <2>1. Ticks \subseteq 0..Never /\ Never \in 0..Never
    BY BoundsAre DEF Ticks, Never
  <2>2. news \in [News -> {n \in [at : Ticks, stored : Ticks \cup {Never}] : n.at <= n.stored}]
    BY DEF BriefingInit
  <2> QED BY <2>1, <2>2
<1>3. now \in Ticks /\ switched \subseteq Hours
  BY BoundsAre DEF BriefingInit, Ticks
<1>4. deliveries = {} /\ told = {} /\ noted = {}
  BY DEF BriefingInit
<1> QED BY <1>1, <1>2, <1>3, <1>4 DEF BriefInv, BriefTypes, ProofsHold, DaysGoOn

-----
\* Steps that note and prove nothing

\* What holds of a proof goes on to hold.
LEMMA HoldsOn ==
  ASSUME told \subseteq told', deliveries \subseteq deliveries', UNCHANGED news, NEW p, NEW listed
  PROVE  /\ Sound(p, told) => Sound(p, told)'
         /\ Sound(p, listed) <=> Sound(p, listed)'
         /\ Linked(p) => Linked(p)'
BY DEF Sound, Linked, Covers, Newer

LEMMA ProofsStay ==
  ASSUME ProofsHold, UNCHANGED news, told \subseteq told', noted \subseteq noted',
         deliveries \subseteq deliveries',
         \A d \in deliveries' : d \in deliveries \/ (d = phone.proof /\ d.key # NoKey),
         phone'.proof.key # NoKey => phone'.proof = phone.proof,
         phone'.pc \in {"retrying", "proving"} => phone'.key # NoKey,
         phone'.pc \in {"answered", "shown"} =>
           /\ phone'.answer = phone.answer /\ phone.pc \in {"answered", "shown"}
           /\ \/ phone'.pc = phone.pc
              \/ phone.pc = "answered" /\ phone'.pc = "shown" /\ phone.answer.lists \subseteq told'
  PROVE  ProofsHold'
<1>1. ASSUME NEW d \in deliveries' PROVE d.key \in noted' /\ Sound(d, told)' /\ Linked(d)'
  BY HoldsOn DEF ProofsHold
<1>2. ASSUME phone'.proof.key # NoKey
      PROVE  phone'.proof.key \in noted' /\ Sound(phone.proof, told)' /\ Linked(phone.proof)'
  <2>1. PICK p : p = phone.proof
    OBVIOUS
  <2>2. p.key \in noted' /\ Sound(p, told)' /\ Linked(p)'
    BY <1>2, <2>1, HoldsOn DEF ProofsHold
  <2> QED BY <1>2, <2>1, <2>2 DEF Sound, Linked, Covers, Newer
<1>3. ASSUME phone'.pc \in {"answered", "shown"}
      PROVE  /\ Linked(phone.answer)'
             /\ phone'.pc = "answered" => Sound(phone.answer, phone.answer.lists)'
             /\ phone'.pc = "shown" => Sound(phone.answer, told)'
  <2>1. PICK p : p = phone.answer
    OBVIOUS
  <2>2. phone'.answer = p /\ Linked(p)'
    BY <1>3, <2>1, HoldsOn DEF ProofsHold
  <2>3. phone'.pc = "answered" => Sound(p, p.lists)'
    BY <1>3, <2>1, HoldsOn DEF ProofsHold
  <2>4. phone'.pc = "shown" => Sound(p, told)'
    <3>1. CASE phone.pc = "shown"
      BY <1>3, <2>1, <3>1, HoldsOn DEF ProofsHold
    <3>2. CASE phone.pc = "answered" /\ phone'.pc = "shown"
      <4>1. Sound(p, p.lists) /\ p.lists \subseteq told'
        BY <1>3, <2>1, <3>2 DEF ProofsHold
      <4>2. Sound(p, p.lists)'
        BY <4>1, HoldsOn
      <4> QED BY <4>1, <4>2 DEF Sound
    <3> QED BY <1>3, <3>1, <3>2
  <2> QED BY <2>2, <2>3, <2>4 DEF Sound, Linked, Covers, Newer
<1>4. \A d \in deliveries' : d.key \in noted' /\ Sound(d, told)' /\ Linked(d)'
  BY <1>1
<1> QED BY <1>2, <1>3, <1>4 DEF ProofsHold

LEMMA DaysStay ==
  ASSUME BriefingAssumption, BriefInv, noted' = noted, phone'.last = phone.last,
         now' \in Ticks, now <= now',
         phone'.pc \in {"answered", "shown"} =>
           phone'.answer = phone.answer /\ phone.pc \in {"answered", "shown"},
         phone'.pc = "shown" => phone'.due \in phone'.answer.ready /\ phone'.due # phone'.last
  PROVE  DaysGoOn'
<1>1. now \in Nat /\ now' \in Nat
  BY BoundsAre DEF BriefInv, BriefTypes, Ticks
<1>2. now \div DayLength \in Nat /\ now' \div DayLength \in Nat
        /\ now \div DayLength <= now' \div DayLength
  BY <1>1, BoundsAre, DaysPass
<1>3. \A k \in Keys : k[1] \in Nat
  BY KeysAre
<1>4. \A k \in noted' : k[1] <= phone'.last[1] /\ k[1] <= now' \div DayLength
  BY <1>2, <1>3 DEF BriefInv, BriefTypes, DaysGoOn
<1>5. ASSUME phone'.pc \in {"answered", "shown"}, NEW k \in phone'.answer.ready
      PROVE  /\ k[1] <= now' \div DayLength /\ \A j \in noted' : j[1] <= k[1]
             /\ \A j \in phone'.answer.ready : j[1] = k[1]
  <2>1. k \in Keys /\ k \in phone.answer.ready
    BY <1>5 DEF BriefInv, BriefTypes, Phones, Answers
  <2> QED BY <1>2, <1>3, <1>5, <2>1 DEF BriefInv, DaysGoOn
<1> QED BY <1>4, <1>5 DEF BriefInv, DaysGoOn

\* The phone at rest
LEMMA StopIs ==
  ASSUME BriefingAssumption, NEW p \in Phones
  PROVE  /\ Stop(p) \in Phones /\ Stop(p).pc = "idle" /\ Stop(p).last = p.last
         /\ Stop(p).key = p.key /\ Stop(p).proof = p.proof
BY KeysAre DEF Stop, Phones, Places

LEMMA QuietStep ==
  ASSUME BriefingAssumption, BriefInv, BeginCheck \/ NothingDue \/ CheckStops \/ TimePasses
  PROVE  BriefInv'
<1>1. /\ UNCHANGED <<switched, news, deliveries, told, noted>> /\ now' \in Ticks /\ now <= now'
  <2>1. now \in Ticks /\ LastTick \in Nat
    BY BoundsAre DEF BriefInv, BriefTypes
  <2>2. CASE BeginCheck \/ NothingDue \/ CheckStops
    BY <2>1, <2>2, BoundsAre DEF BeginCheck, NothingDue, CheckStops, world, record, Ticks
  <2>3. CASE TimePasses
    BY <2>1, <2>3 DEF TimePasses, record, Ticks
  <2> QED BY <2>2, <2>3
<1>2. phone \in Phones /\ BriefTypes /\ ProofsHold /\ DaysGoOn
  BY DEF BriefInv, BriefTypes
<1>3. /\ phone' \in Phones /\ phone'.last = phone.last /\ phone'.key = phone.key
         /\ phone'.proof = phone.proof
      /\ \/ phone'.pc = "idle"
         \/ phone'.pc = "asking"
         \/ phone'.pc = "retrying" /\ phone.key # NoKey
         \/ phone' = phone
  <2>1. CASE BeginCheck
    <3>1. PICK pc \in Places : phone' = [phone EXCEPT !.pc = pc]
                               /\ (pc = "asking" \/ (pc = "retrying" /\ phone.key # NoKey))
      BY <2>1 DEF BeginCheck, Awaited, Places
    <3> QED BY <1>2, <3>1 DEF Phones
  <2>2. CASE NothingDue \/ CheckStops
    BY <1>2, <2>2, StopIs DEF NothingDue, CheckStops
  <2>3. CASE TimePasses
    BY <1>2, <2>3 DEF TimePasses
  <2> QED BY <2>1, <2>2, <2>3
<1>4. BriefTypes'
  BY <1>1, <1>2, <1>3 DEF BriefTypes
<1>5. ProofsHold'
  BY <1>1, <1>2, <1>3, ProofsStay DEF ProofsHold
<1>6. DaysGoOn'
  BY <1>1, <1>2, <1>3, DaysStay DEF DaysGoOn
<1> QED BY <1>4, <1>5, <1>6 DEF BriefInv

LEMMA ShowStep == ASSUME BriefingAssumption, BriefInv, ShowBriefing PROVE BriefInv'
<1>1. PICK k \in Due : phone' = [phone EXCEPT !.pc = "shown", !.due = k]
  BY DEF ShowBriefing
<1>2. /\ phone.pc = "answered" /\ told' = told \cup phone.answer.lists
      /\ UNCHANGED <<now, switched, news, deliveries, noted>>
  BY DEF ShowBriefing, At, world
<1>3. phone \in Phones /\ k \in phone.answer.ready /\ k # phone.last /\ k \in Keys
      /\ phone.answer.lists \subseteq News
  BY DEF BriefInv, BriefTypes, Due, Phones, Answers
<1>4. /\ phone' \in Phones /\ phone'.pc = "shown" /\ phone'.due = k /\ phone'.answer = phone.answer
      /\ phone'.last = phone.last /\ phone'.key = phone.key /\ phone'.proof = phone.proof
  BY <1>1, <1>3 DEF Phones, Places
<1>5. BriefTypes'
  BY <1>2, <1>3, <1>4 DEF BriefInv, BriefTypes
<1>6. ProofsHold'
  BY <1>2, <1>4, ProofsStay DEF BriefInv
<1>7. DaysGoOn'
  <2>1. now' \in Ticks /\ now <= now'
    BY <1>2, BoundsAre DEF BriefInv, BriefTypes, Ticks
  <2> QED BY <1>2, <1>3, <1>4, <2>1, DaysStay
<1> QED BY <1>5, <1>6, <1>7 DEF BriefInv

LEMMA SendProofStep == ASSUME BriefingAssumption, BriefInv, SendProof PROVE BriefInv'
<1> DEFINE next == IF At("retrying") THEN [phone EXCEPT !.pc = "asking"] ELSE Stop(phone)
<1>1. /\ phone.pc \in {"retrying", "proving"} /\ UNCHANGED <<now, switched, news, told, noted>>
      /\ \/ /\ phone.proof.key = phone.key /\ Acknowledge(phone.proof)
            /\ phone' \in {next, [next EXCEPT !.key = NoKey, !.proof = NoProof]}
         \/ phone' = next /\ UNCHANGED deliveries
  BY DEF SendProof, Refused, world, record
<1>2. phone \in Phones /\ phone.key # NoKey /\ phone.proof \in Proofs /\ deliveries \subseteq Proofs
  BY <1>1 DEF BriefInv, BriefTypes, ProofsHold, Phones
<1>3. /\ next \in Phones /\ next.pc \in {"asking", "idle"} /\ next.last = phone.last
      /\ next.proof = phone.proof
  BY <1>2, StopIs DEF Phones, Places
<1> HIDE DEF next
<1>4. /\ phone' \in Phones /\ phone'.pc \in {"asking", "idle"} /\ phone'.last = phone.last
      /\ phone'.proof.key # NoKey => phone'.proof = phone.proof
  <2>1. CASE phone' = next
    BY <1>3, <2>1
  <2>2. CASE phone' = [next EXCEPT !.key = NoKey, !.proof = NoProof]
    BY <1>3, <2>2, KeysAre DEF Phones
  <2> QED BY <1>1, <2>1, <2>2
<1>5. /\ deliveries \subseteq deliveries' /\ deliveries' \subseteq Proofs
      /\ \A d \in deliveries' : d \in deliveries \/ (d = phone.proof /\ d.key # NoKey)
  BY <1>1, <1>2 DEF Acknowledge
<1>6. BriefTypes'
  BY <1>1, <1>4, <1>5 DEF BriefInv, BriefTypes
<1>7. ProofsHold'
  BY <1>1, <1>4, <1>5, ProofsStay DEF BriefInv
<1>8. DaysGoOn'
  <2>1. now' \in Ticks /\ now <= now'
    BY <1>1, BoundsAre DEF BriefInv, BriefTypes, Ticks
  <2> QED BY <1>1, <1>4, <2>1, DaysStay
<1> QED BY <1>6, <1>7, <1>8 DEF BriefInv

-----
\* The briefing that is asked for

LEMMA SinceIs ==
  ASSUME BriefingAssumption, BriefInv
  PROVE  /\ Since \in (-Fallback)..LastTick
         /\ \/ now - Since \in {Fallback, Lookback}
            \/ \E d \in deliveries : Since = d.end
<1>1. now \in 0..LastTick /\ LastTick \in Nat /\ Fallback \in Nat /\ Lookback \in Nat
  BY BoundsAre DEF BriefInv, BriefTypes, Ticks
<1>2. CASE deliveries = {}
  <2>1. Since = now - Fallback
    BY <1>2 DEF Since
  <2> QED BY <1>1, <2>1
<1>3. CASE deliveries # {}
  <2> DEFINE ends == {d.end : d \in deliveries}
  <2>1. ends \subseteq 0..LastTick /\ ends # {}
    BY <1>3 DEF BriefInv, BriefTypes, Proofs, Ticks
  <2>2. Max(ends) \in ends
    BY <1>1, <2>1, MaxIs
  <2>3. Max(ends) \in 0..LastTick /\ \E d \in deliveries : Max(ends) = d.end
    BY <2>1, <2>2
  <2>4. Since = Max({Max(ends), now - Lookback})
    BY <1>3 DEF Since
  <2> HIDE DEF ends
  <2>5. Since = IF Max(ends) >= now - Lookback THEN Max(ends) ELSE now - Lookback
    BY <1>1, <2>3, <2>4, PairMax
  <2>6. CASE Max(ends) >= now - Lookback
    BY <1>1, <2>3, <2>5, <2>6
  <2>7. CASE ~(Max(ends) >= now - Lookback)
    <3>1. Since = now - Lookback
      BY <2>5, <2>7
    <3>2. now - Since = Lookback
      BY <1>1, <3>1
    <3>3. Since \in (-Fallback)..LastTick
      BY <1>1, <2>3, <2>7, <3>1
    <3> QED BY <3>2, <3>3
  <2> QED BY <2>6, <2>7
<1> QED BY <1>2, <1>3

\* What it lists is the newest of its window.
LEMMA ListsNewest ==
  ASSUME BriefingAssumption, BriefInv, NEW listed \in Listings(Within(Since, now)),
         NEW p, p.start = Since, p.end = now
  PROVE  listed \subseteq News /\ Sound(p, listed)
<1> DEFINE fresh == Within(Since, now)
<1>1. /\ fresh \subseteq News /\ listed \subseteq fresh
      /\ Cardinality(listed) = Min({ListLimit, Cardinality(fresh)})
      /\ \A n \in listed, m \in fresh \ listed : news[n].at >= news[m].at
  BY DEF Listings, Within
<1>2. /\ IsFiniteSet(News) /\ IsFiniteSet(fresh) /\ IsFiniteSet(listed)
      /\ Cardinality(fresh) \in Nat /\ Cardinality(listed) \in Nat /\ ListLimit \in Nat
  BY <1>1, BoundsAre, FS_Subset, FS_CardinalityType
<1>3. ASSUME NEW n \in News \ listed, Covers(p, n), news[n].stored < p.end
      PROVE  Cardinality(Newer(p, n)) >= ListLimit
  <2>1. \A m \in News : news[m].at \in Nat /\ news[m].stored \in Nat
    BY BoundsAre DEF BriefInv, BriefTypes, Never
  <2>2. now \in Nat
    BY BoundsAre DEF BriefInv, BriefTypes, Ticks
  <2>3. n \in fresh
    BY <1>3, <2>1, <2>2 DEF Covers, Within
  <2>4. Cardinality(listed) # Cardinality(fresh)
    BY <1>1, <1>2, <1>3, <2>3, FS_Subset
  <2>5. Cardinality(listed) = ListLimit
    BY <1>1, <1>2, <2>4, PairMin
  <2>6. listed \subseteq Newer(p, n)
    BY <1>1, <1>3, <2>3 DEF Newer, Covers, Within
  <2>7. Newer(p, n) \subseteq News
    BY DEF Newer
  <2>8. IsFiniteSet(Newer(p, n)) /\ Cardinality(Newer(p, n)) \in Nat
    BY <1>2, <2>7, FS_Subset, FS_CardinalityType
  <2>9. Cardinality(listed) <= Cardinality(Newer(p, n))
    BY <2>6, <2>8, FS_Subset
  <2> QED BY <1>2, <2>5, <2>8, <2>9
<1> QED BY <1>1, <1>3 DEF Sound

LEMMA ReadyIs ==
  ASSUME BriefingAssumption, BriefInv
  PROVE  Ready \subseteq Keys /\ \A k \in Ready : k[1] = now \div DayLength
<1>1. now \in Nat /\ LastTick \in Nat /\ now <= LastTick /\ DayLength \in Nat \ {0}
        /\ switched \subseteq Hours
  BY BoundsAre DEF BriefInv, BriefTypes, Ticks
<1>2. now \div DayLength \in 0..(LastTick \div DayLength)
  BY <1>1, DaysPass
<1> QED BY <1>1, <1>2 DEF Ready, Keys

LEMMA AskStep == ASSUME BriefingAssumption, BriefInv, AskBriefing PROVE BriefInv'
<1>1. PICK listed \in Listings(Within(Since, now)) :
        phone' = [phone EXCEPT !.pc = "answered",
                    !.answer = [ready |-> Ready, start |-> Since, end |-> now, lists |-> listed]]
  BY DEF AskBriefing
<1>2. UNCHANGED <<now, switched, news, deliveries, told, noted>>
  BY DEF AskBriefing, world, record
<1>3. PICK p : p = [ready |-> Ready, start |-> Since, end |-> now, lists |-> listed]
  OBVIOUS
<1>4. p.start = Since /\ p.end = now /\ p.ready = Ready /\ p.lists = listed
  BY <1>3
<1>5. Sound(p, p.lists) /\ listed \subseteq News
  BY <1>4, ListsNewest
<1>6. p \in Answers /\ phone \in Phones
  BY <1>3, <1>5, SinceIs, ReadyIs DEF Answers, BriefInv, BriefTypes
<1>7. Linked(p)
  <2> SUFFICES ASSUME NEW n \in News, news[n].at < p.start
               PROVE  \E e \in deliveries \cup {p} :
                        \/ Covers(e, n)
                        \/ news[n].at < e.start /\ e.end - e.start \in {Fallback, Lookback}
    BY DEF Linked
  <2>1. CASE now - Since \in {Fallback, Lookback}
    BY <1>4, <2>1
  <2>2. CASE \E d \in deliveries : Since = d.end
    <3>1. PICK d \in deliveries : Since = d.end
      BY <2>2
    <3>2. d.start \in Int /\ d.end \in Int /\ news[n].at \in Int
      BY BoundsAre DEF BriefInv, BriefTypes, Proofs, Ticks, Never
    <3>3. CASE news[n].at < d.start
      BY <3>3 DEF BriefInv, ProofsHold, Linked
    <3>4. CASE ~(news[n].at < d.start)
      <4>1. Covers(d, n)
        BY <1>4, <3>1, <3>2, <3>4 DEF Covers
      <4> QED BY <4>1
    <3> QED BY <3>3, <3>4
  <2> QED BY <2>1, <2>2, SinceIs
<1>8. /\ phone' \in Phones /\ phone'.pc = "answered" /\ phone'.answer = p
      /\ phone'.last = phone.last /\ phone'.proof = phone.proof
  <2>1. phone' = [phone EXCEPT !.pc = "answered", !.answer = p]
    BY <1>1, <1>3
  <2> QED BY <1>6, <2>1 DEF Phones, Places
<1>9. BriefTypes'
  BY <1>2, <1>8 DEF BriefInv, BriefTypes
<1>10. ProofsHold'
  <2>1. \A d \in deliveries' : d.key \in noted' /\ Sound(d, told)' /\ Linked(d)'
    BY <1>2, HoldsOn DEF BriefInv, ProofsHold
  <2>2. phone'.proof.key # NoKey =>
          phone'.proof.key \in noted' /\ Sound(phone.proof, told)' /\ Linked(phone.proof)'
    BY <1>2, <1>8 DEF BriefInv, ProofsHold, Sound, Linked, Covers, Newer
  <2>3. Linked(phone.answer)' /\ Sound(phone.answer, phone.answer.lists)'
    BY <1>2, <1>5, <1>7, <1>8 DEF Sound, Linked, Covers, Newer
  <2> QED BY <1>8, <2>1, <2>2, <2>3 DEF ProofsHold
<1>11. DaysGoOn'
  <2>1. now \div DayLength \in Nat /\ now' = now
    BY <1>2, BoundsAre, DaysPass DEF BriefInv, BriefTypes, Ticks
  <2> QED BY <1>2, <1>4, <1>8, <2>1, ReadyIs DEF BriefInv, DaysGoOn
<1> QED BY <1>9, <1>10, <1>11 DEF BriefInv

\* The briefing that was shown
LEMMA RememberStep == ASSUME BriefingAssumption, BriefInv, Remember PROVE BriefInv'
<1>1. PICK p : p = Proof(phone.due, phone.answer.start, phone.answer.end)
  OBVIOUS
<1> DEFINE named == [phone EXCEPT !.last = phone.due, !.key = phone.due]
           kept == [named EXCEPT !.proof = p]
<1>2. /\ phone.pc = "shown" /\ noted' = noted \cup {phone.due}
      /\ UNCHANGED <<now, switched, news, deliveries, told>>
      /\ phone' \in {Stop([phone EXCEPT !.last = phone.due]), Stop(named),
         [Stop(kept) EXCEPT !.pc = "proving"]}
  BY <1>1 DEF Remember, At, world
<1>3. /\ phone \in Phones /\ phone.due \in Keys /\ phone.due # NoKey /\ phone.due \in phone.answer.ready
  BY <1>2, KeysAre DEF BriefInv, BriefTypes, DaysGoOn, Phones, Answers
<1>4. p \in Proofs /\ p.key = phone.due /\ p.start = phone.answer.start /\ p.end = phone.answer.end
  BY <1>1, <1>3 DEF Proof, Proofs, Phones, Answers
<1>5. /\ named \in Phones /\ named.last = phone.due /\ named.key = phone.due /\ named.proof = phone.proof
      /\ kept \in Phones /\ kept.last = phone.due /\ kept.key = phone.due /\ kept.proof = p
  BY <1>3, <1>4 DEF Phones
<1>6. [phone EXCEPT !.last = phone.due] \in Phones /\ [phone EXCEPT !.last = phone.due].last = phone.due
      /\ [phone EXCEPT !.last = phone.due].proof = phone.proof
  BY <1>3 DEF Phones
<1> HIDE DEF named, kept
<1>7. /\ phone' \in Phones /\ phone'.last = phone.due /\ phone'.pc \in {"idle", "proving"}
      /\ phone'.pc = "proving" => phone'.key # NoKey
      /\ phone'.proof \in {phone.proof, p}
  <2>1. CASE phone' = Stop([phone EXCEPT !.last = phone.due])
    BY <1>6, <2>1, StopIs
  <2>2. CASE phone' = Stop(named)
    BY <1>5, <2>2, StopIs
  <2>3. CASE phone' = [Stop(kept) EXCEPT !.pc = "proving"]
    <3>1. Stop(kept) \in Phones /\ Stop(kept).last = phone.due /\ Stop(kept).key = phone.due
            /\ Stop(kept).proof = p
      BY <1>5, StopIs
    <3> QED BY <1>3, <2>3, <3>1 DEF Phones, Places
  <2> QED BY <1>2, <2>1, <2>2, <2>3
<1>8. BriefTypes'
  BY <1>2, <1>3, <1>7 DEF BriefInv, BriefTypes
<1>9. ProofsHold'
  <2>1. \A d \in deliveries' : d.key \in noted' /\ Sound(d, told)' /\ Linked(d)'
    BY <1>2, HoldsOn DEF BriefInv, ProofsHold
  <2>2. p.key \in noted' /\ Sound(p, told) /\ Linked(p)
    <3>1. Sound(phone.answer, told) /\ Linked(phone.answer)
      BY <1>2 DEF BriefInv, ProofsHold
    <3>2. Sound(p, told)
      BY <1>4, <3>1 DEF Sound, Covers, Newer
    <3>3. ASSUME NEW n \in News, news[n].at < p.start
          PROVE  \E e \in deliveries \cup {p} :
                   \/ Covers(e, n)
                   \/ news[n].at < e.start /\ e.end - e.start \in {Fallback, Lookback}
      <4>1. PICK e \in deliveries \cup {phone.answer} :
                   \/ Covers(e, n)
                   \/ news[n].at < e.start /\ e.end - e.start \in {Fallback, Lookback}
        BY <1>4, <3>1, <3>3 DEF Linked
      <4>2. CASE e \in deliveries
        BY <4>1, <4>2
      <4>3. CASE e = phone.answer
        BY <1>4, <4>1, <4>3 DEF Covers
      <4> QED BY <4>2, <4>3
    <3> QED BY <1>2, <1>4, <3>2, <3>3 DEF Linked
  <2>3. phone'.proof.key # NoKey =>
          phone'.proof.key \in noted' /\ Sound(phone'.proof, told) /\ Linked(phone'.proof)
    BY <1>2, <1>7, <2>2 DEF BriefInv, ProofsHold
  <2>4. phone'.proof.key # NoKey =>
          phone'.proof.key \in noted' /\ Sound(phone.proof, told)' /\ Linked(phone.proof)'
    BY <1>2, <2>3 DEF Sound, Linked, Covers, Newer
  <2> QED BY <1>7, <2>1, <2>4 DEF ProofsHold
<1>10. DaysGoOn'
  <2>1. \A k \in noted : k[1] <= phone.due[1]
    BY <1>2, <1>3 DEF BriefInv, DaysGoOn
  <2>2. phone.due[1] <= now \div DayLength /\ phone.due[1] \in Nat
    BY <1>2, <1>3, KeysAre DEF BriefInv, DaysGoOn
  <2>3. \A k \in noted' : k[1] <= phone'.last[1] /\ k[1] <= now' \div DayLength
    BY <1>2, <1>7, <2>1, <2>2 DEF BriefInv, DaysGoOn
  <2> QED BY <1>2, <1>7, <2>3 DEF DaysGoOn
<1> QED BY <1>8, <1>9, <1>10 DEF BriefInv

LEMMA BriefNextInv == ASSUME BriefingAssumption, BriefInv, [BriefingNext]_briefingVars PROVE BriefInv'
<1>1. CASE UNCHANGED briefingVars
  BY <1>1 DEF briefingVars, BriefInv, BriefTypes, ProofsHold, DaysGoOn, Sound, Linked, Covers, Newer
<1>2. CASE BeginCheck \/ NothingDue \/ CheckStops \/ TimePasses
  BY <1>2, QuietStep
<1>3. CASE SendProof \/ AskBriefing \/ ShowBriefing \/ Remember
  BY <1>3, SendProofStep, AskStep, ShowStep, RememberStep
<1> QED BY <1>1, <1>2, <1>3 DEF BriefingNext

LEMMA BriefAlways == ASSUME BriefingAssumption PROVE BriefingSpec => []BriefInv
BY BriefInitInv, BriefNextInv, PTL DEF BriefingSpec

LEMMA BriefInvKeeps == ASSUME BriefingAssumption, BriefInv PROVE BriefingTypeOK /\ BriefingsLeaveNoGap
<1>1. BriefingTypeOK
  BY DEF BriefInv, BriefTypes, Phones, BriefingTypeOK
<1>2. ASSUME NEW d \in deliveries
      PROVE  /\ d.key \in noted
             /\ \A n \in News \ told :
                  Covers(d, n) /\ news[n].stored < d.end => Cardinality(Newer(d, n)) >= ListLimit
             /\ \A n \in News : news[n].at < d.start =>
                  \E e \in deliveries : \/ Covers(e, n)
                                        \/ news[n].at < e.start
                                           /\ e.end - e.start \in {Fallback, Lookback}
  BY DEF BriefInv, ProofsHold, Sound, Linked
<1>3. ASSUME phone.pc = "shown", phone.due \in noted
      PROVE  \E k \in noted : k[1] = phone.due[1] /\ k # phone.due
  <2>1. phone.last \in noted /\ phone.last # phone.due
    BY <1>3 DEF BriefInv, DaysGoOn
  <2>2. phone.due[1] <= phone.last[1] /\ phone.last[1] <= phone.due[1]
    BY <1>3, <2>1 DEF BriefInv, DaysGoOn
  <2>3. phone.due[1] \in Nat /\ phone.last[1] \in Nat
    BY <1>3, <2>1, KeysAre DEF BriefInv, BriefTypes
  <2> QED BY <2>1, <2>2, <2>3
<1> QED BY <1>1, <1>2, <1>3 DEF BriefingsLeaveNoGap, At

\* Hours, listings and the phone's keys keep their types.
THEOREM BriefingTypes == ASSUME BriefingAssumption PROVE BriefingSpec => []BriefingTypeOK
BY BriefAlways, BriefInvKeeps, PTL

\* News that fell due and was not shown is within reach of the next briefing, however
\* often the phone was off, asked late or lost an answer: for any news, hours and
\* switches.
THEOREM NoGapIsLeft == ASSUME BriefingAssumption PROVE BriefingSpec => []BriefingsLeaveNoGap
BY BriefAlways, BriefInvKeeps, PTL

=============================================================================
