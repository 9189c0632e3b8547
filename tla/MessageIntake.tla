---------------------------- MODULE MessageIntake -----------------------------
(***************************************************************************)
(* How an SMS gets from the phone to the backend, and becomes one event.   *)
(* The phone captures it twice: the receiver of SMS, which keeps it in an  *)
(* encrypted outbox until the backend has answered (SmsReceiver.kt), and   *)
(* the listener that sees the notification of the Messages app             *)
(* (VaNotificationListenerService.kt). The backend stores one event per    *)
(* external id, takes a notification and an SMS of the same text within    *)
(* two minutes for one message (communication_correlation.py), and repairs *)
(* what got past that in every cycle of the core.                          *)
(*                                                                         *)
(* Simplifications                                                         *)
(*  - The messages have one sender and one text, within the window: the    *)
(*    case in which the correlation has to tell them apart.                *)
(*  - What apply() has taken is stored, also when the process ends. An SMS *)
(*    whose receiver is ended before that is one that has not arrived.     *)
(*  - One flush at a time: that which the owner starts in the app is left  *)
(*    out.                                                                 *)
(*  - A session that finds a duplicate answers in the step that found it;  *)
(*    one that does not holds its row until the model has decided.         *)
(*  - The reply of a phone is in DeviceDispatch: here it is an action that *)
(*    its event has. Calls, and the phone's history, which asks for        *)
(*    nothing, are left out.                                               *)
(***************************************************************************)
EXTENDS Naturals, Sequences, Functions

CONSTANTS
  Texts,      \* the messages, alike
  NoText,
  OutboxLimit,    \* MAX_PENDING_EVENTS
  KeyFaults,  \* what the Android Keystore may fail to do
  PostLimit   \* bound on what the phone takes up: messages, notifications, flushes

IntakeAssumption ==
  /\ NoText \notin Texts /\ PostLimit \in Nat /\ OutboxLimit \in Nat \ {0}
  /\ KeyFaults \subseteq {"decrypt", "encrypt"}

VARIABLES
  received,   \* messages that have reached the phone
  outbox,     \* KEY_PENDING_EVENTS: captures that the backend has not answered, oldest first
  request,    \* of each thread of the phone: its capture, how far it is, what it will store
  flush,      \* VaCommunicationPendingWorker: what it loaded, has left to post, and missed
  rows,       \* communication_events, each with its action and its objective
  legacy,     \* a message of an earlier version: its task, and what asks for it
  posts,      \* counts towards PostLimit
  discarded,  \* history: messages that a write about something else dropped from the
              \* outbox, or that could not be encrypted
  swallowed   \* history: messages answered with an event that was superseded

intakeVars == <<received, outbox, request, flush, rows, legacy, posts, discarded, swallowed>>

Captures == {"sms", "note"} \X Texts
Worker == <<"worker", NoText>>
Posters == Captures \cup {Worker}

\* The id of a notification is a fingerprint of its key, title and text: it is the same
\* for all of them. That of an SMS has its time.
ExternalId(c) == IF c[1] = "note" THEN <<"note", NoText>> ELSE c

Silent == [pc |-> "idle", capture |-> Worker, acts |-> FALSE, copy |-> <<>>]
Asleep == [on |-> FALSE, took |-> {}, left |-> {}, missed |-> FALSE]

IntakeInit ==
  /\ received = {} /\ outbox = <<>> /\ rows = <<>> /\ posts = 0
  /\ request = [p \in Posters |-> Silent] /\ flush = Asleep
  /\ legacy = [task |-> "open", asks |-> "none"]
  /\ discarded = {} /\ swallowed = {}

-----------------------------------------------------------------------------
(***************************************************************************)
(* The phone                                                               *)
(***************************************************************************)
CanPost == posts < PostLimit /\ posts' = posts + 1
Backend == <<rows, legacy, swallowed>>

Proceeds(p, pc) == request' = [request EXCEPT ![p].pc = pc, ![p].copy = <<>>]
Posting(p, c, acts) ==
  request' = [request EXCEPT ![p] =
                [Silent EXCEPT !.pc = "posting", !.capture = c, !.acts = acts]]

\* loadPendingCommunicationEvents: what cannot be decrypted reads as empty.
Loads == {outbox} \cup {q \in {<<>>} : "decrypt" \in KeyFaults}

\* What the outbox becomes when a capture is queued or removed. The oldest give way.
Queued(q, c) ==
  LET all == Append(q, c) IN
  IF Len(all) <= OutboxLimit THEN all
  ELSE SubSeq(all, Len(all) - OutboxLimit + 1, Len(all))
Without(q, n) == SubSeq(q, 1, n - 1) \o SubSeq(q, n + 1, Len(q))

\* The messages that the outbox no longer has
Dropped == {m \in Texts : <<"sms", m>> \in Range(outbox) \ Range(outbox')}

\* SmsReceiver loads the outbox, on the main thread, stores it with the message, and
\* posts, whether that could be done or not.
SmsArrives(m) ==
  /\ CanPost /\ m \notin received /\ \A k \in Texts : request[<<"sms", k>>].pc # "queueing"
  /\ \E q \in Loads :
       request' = [request EXCEPT ![<<"sms", m>>] =
         [pc |-> "queueing", capture |-> <<"sms", m>>, acts |-> TRUE,
          copy |-> Queued(q, <<"sms", m>>)]]
  /\ UNCHANGED <<received, outbox, flush, discarded, Backend>>

KeepSms(m) ==
  LET p == <<"sms", m>> IN
  /\ request[p].pc = "queueing"
  /\ received' = received \cup {m}
  /\ \/ outbox' = request[p].copy /\ discarded' = discarded \cup Dropped
     \/ "encrypt" \in KeyFaults /\ UNCHANGED outbox /\ discarded' = discarded \cup {m}
  /\ Proceeds(p, "posting")
  /\ UNCHANGED <<flush, posts, Backend>>

\* VaNotificationListenerService posts it, and queues it when there is no answer.
NotificationPosted(m) ==
  /\ CanPost /\ m \in received /\ request[<<"note", m>>] = Silent
  /\ Posting(<<"note", m>>, <<"note", m>>, TRUE)
  /\ UNCHANGED <<received, outbox, flush, discarded, Backend>>

\* removeQueuedCommunicationEvent and queueCommunicationEvent after the post: the outbox
\* is loaded, and stored in a step of its own unless nothing is to change.
Copies(q, c) == {n \in DOMAIN q : ExternalId(q[n]) = ExternalId(c)}
Changed(p, q) ==
  LET c == request[p].capture
      copies == Copies(q, c)
  IN IF request[p].pc = "removing" THEN {Without(q, n) : n \in copies}
     ELSE IF copies = {} THEN {Queued(q, c)} ELSE {}

LoadOutbox(p) ==
  /\ request[p].pc \in {"removing", "keeping"}
  /\ \E q \in Loads :
       \/ Changed(p, q) = {} /\ Proceeds(p, "done")
       \/ \E copy \in Changed(p, q) :
            request' = [request EXCEPT ![p].pc = "storing", ![p].copy = copy]
  /\ UNCHANGED <<received, outbox, flush, posts, discarded, Backend>>

\* The message that was answered is not dropped: it was to go. A copy that cannot be
\* encrypted, or whose thread ends first, is not stored.
StoreOutbox(p) ==
  /\ request[p].pc = "storing"
  /\ outbox' \in {outbox, request[p].copy}
  /\ discarded' = discarded \cup (Dropped \ {m \in Texts : p = <<"sms", m>>})
  /\ Proceeds(p, "done")
  /\ UNCHANGED <<received, flush, posts, Backend>>

\* The process ends before the receiver has stored the message: it has not arrived.
MissSms(m) ==
  /\ request[<<"sms", m>>].pc = "queueing"
  /\ request' = [request EXCEPT ![<<"sms", m>>] = Silent]
  /\ UNCHANGED <<received, outbox, flush, posts, discarded, Backend>>

FlushBegins ==
  /\ ~flush.on /\ outbox # <<>> /\ CanPost
  /\ flush' = [on |-> TRUE, took |-> Range(outbox), left |-> Range(outbox), missed |-> FALSE]
  /\ UNCHANGED <<received, outbox, request, discarded, Backend>>

\* A notification from the outbox may not be replied to: it is gone.
FlushPosts ==
  /\ flush.on /\ request[Worker].pc = "idle"
  /\ \E c \in flush.left :
       /\ flush' = [flush EXCEPT !.left = @ \ {c}]
       /\ Posting(Worker, c, c[1] = "sms")
  /\ UNCHANGED <<received, outbox, posts, discarded, Backend>>

\* Everything was answered: the outbox is emptied, also of what came in meanwhile.
FlushEnds ==
  /\ flush.on /\ flush.left = {} /\ request[Worker].pc = "idle"
  /\ flush' = Asleep
  /\ IF flush.missed THEN UNCHANGED <<outbox, discarded>>
     ELSE /\ outbox' = <<>>
          /\ discarded' = discarded \cup {m \in Dropped : <<"sms", m>> \notin flush.took}
  /\ UNCHANGED <<received, request, posts, Backend>>

\* What thread p goes on to when its post was answered, or was not; a thread that dies
\* goes on to nothing.
Onward(p, got) ==
  IF p = Worker THEN {"idle"}
  ELSE {"done"} \cup {pc \in {"removing"} : got /\ p[1] = "sms"}
                \cup {pc \in {"keeping"} : ~got /\ p[1] = "note"}
Answered(p, got) ==
  /\ \E pc \in Onward(p, got) :
       request' = [request EXCEPT ![p] =
         IF p = Worker THEN Silent ELSE [Silent EXCEPT !.pc = pc, !.capture = p]]
  /\ flush' = IF p = Worker /\ ~got THEN [flush EXCEPT !.missed = TRUE] ELSE flush
  /\ UNCHANGED <<received, outbox, posts, discarded>>

\* request: an answer, or null whatever went wrong
AnswerComes == BOOLEAN

-----------------------------------------------------------------------------
(***************************************************************************)
(* ingest_communication                                                    *)
(***************************************************************************)
Native(c) == c[1] = "sms"

\* Mutant: the text decides.
SameText(c, r) == TRUE

\* An SMS and a notification are one message; two of the same transport are not.
CrossTransport(c, r) == Native(c) # r.native

\* find_cross_transport_duplicate: not an event that has an action
Duplicates(c) == {n \in DOMAIN rows : CrossTransport(c, rows[n]) /\ ~rows[n].acts}
Known(c) == {n \in DOMAIN rows : rows[n].id = ExternalId(c)}

\* The notification's event becomes that of the SMS; it keeps its id.
Promoted(c, r) == [r EXCEPT !.native = @ \/ Native(c), !.of = @ \cup {c}]

AnswerDuplicate(p) ==
  LET c == request[p].capture IN
  /\ request[p].pc = "posting"
  /\ \E n \in IF Known(c) # {} THEN Known(c) ELSE Duplicates(c) :
       LET r == rows[n] IN
       /\ rows' = [rows EXCEPT ![n] = IF n \in Known(c) THEN [r EXCEPT !.of = @ \cup {c}]
                                      ELSE Promoted(c, r)]
       /\ swallowed' = IF r.superseded /\ Native(c) THEN swallowed \cup {c[2]} ELSE swallowed
  /\ \E got \in AnswerComes : Answered(p, got)
  /\ UNCHANGED legacy

StartEvent(p) ==
  LET c == request[p].capture IN
  /\ request[p].pc = "posting" /\ Known(c) = {} /\ Duplicates(c) = {}
  /\ request' = [request EXCEPT ![p].pc = "deciding"]
  /\ UNCHANGED <<received, outbox, flush, posts, discarded, Backend>>

\* _decision_for, which the model and the rules of _normalize_decision make together
Verdicts == {"reply", "owner", "nothing"}

\* normalize_communication_attention: what has a safe reply asks for nothing.
Asks(verdict) == IF verdict = "owner" THEN "event" ELSE "none"
MayReply(p) == request[p].acts

\* The row is committed with its action, or with the event that asks the owner.
RecordEvent(p) ==
  LET c == request[p].capture IN
  /\ request[p].pc = "deciding" /\ Known(c) = {}
  /\ \E verdict \in Verdicts :
       /\ verdict = "reply" => MayReply(p)
       /\ rows' = Append(rows, [id |-> ExternalId(c), of |-> {c}, native |-> Native(c),
                                verdict |-> verdict, acts |-> verdict = "reply",
                                asks |-> Asks(verdict), superseded |-> FALSE])
  /\ \E got \in AnswerComes : Answered(p, got)
  /\ UNCHANGED <<legacy, swallowed>>

\* The session broke off, or another one inserted the id; the batch goes on.
BreakOff(p) ==
  /\ request[p].pc = "deciding"
  /\ Answered(p, FALSE)
  /\ UNCHANGED <<rows, legacy, swallowed>>

-----------------------------------------------------------------------------
(***************************************************************************)
(* The cycle of the core                                                   *)
(***************************************************************************)
Phone == <<received, outbox, request, flush, posts, discarded>>

\* The native SMS is the one that counts.
Superseded(r) == [r EXCEPT !.superseded = TRUE, !.asks = IF @ = "open" THEN "cancelled" ELSE @]

\* The task of an earlier version gives way to the event that asks.
Replaced(old) ==
  IF old.task # "open" THEN old
  ELSE [task |-> "cancelled", asks |-> IF old.asks = "none" THEN "event" ELSE old.asks]

\* repair_communication_correlation: a notification without an action gives way to an SMS.
RepairCorrelation ==
  /\ legacy' = Replaced(legacy)
  /\ rows' = [n \in DOMAIN rows |->
               IF /\ ~rows[n].native /\ ~rows[n].superseded /\ ~rows[n].acts
                  /\ \E k \in DOMAIN rows : rows[k].native
               THEN Superseded(rows[n]) ELSE rows[n]]
  /\ UNCHANGED <<swallowed, Phone>>

\* objective_from_event
Asked(asks) == IF asks = "event" THEN "open" ELSE asks
ProcessEvents ==
  /\ rows' = [n \in DOMAIN rows |-> [rows[n] EXCEPT !.asks = Asked(@)]]
  /\ legacy' = [legacy EXCEPT !.asks = Asked(@)]
  /\ UNCHANGED <<swallowed, Phone>>

IntakeNext ==
  \/ \E m \in Texts : SmsArrives(m) \/ KeepSms(m) \/ MissSms(m) \/ NotificationPosted(m)
  \/ \E p \in Posters : LoadOutbox(p) \/ StoreOutbox(p)
  \/ FlushBegins \/ FlushPosts \/ FlushEnds \/ RepairCorrelation \/ ProcessEvents
  \/ \E p \in Posters : AnswerDuplicate(p) \/ StartEvent(p) \/ RecordEvent(p) \/ BreakOff(p)

IntakeSpec == IntakeInit /\ [][IntakeNext]_intakeVars

-----------------------------------------------------------------------------
Of(m) == {n \in DOMAIN rows : <<"sms", m>> \in rows[n].of}

RequestPlaces ==
  {"idle", "queueing", "posting", "deciding", "removing", "keeping", "storing", "done"}
EventRows == [id : Captures \cup {ExternalId(<<"note", NoText>>)}, of : (SUBSET Captures) \ {{}},
              native : BOOLEAN, verdict : Verdicts, acts : BOOLEAN,
              asks : {"none", "event", "open", "cancelled"}, superseded : BOOLEAN]

IntakeTypeOK ==
  /\ received \subseteq Texts /\ Range(outbox) \subseteq Captures /\ discarded \subseteq Texts
  /\ \A p \in Posters : request[p].pc \in RequestPlaces
  /\ flush.took \subseteq Captures /\ flush.left \subseteq flush.took
  /\ \A n \in DOMAIN rows :
       /\ rows[n] \in EventRows
       /\ \A k \in DOMAIN rows \ {n} : rows[k].id # rows[n].id
  /\ legacy.task \in {"none", "open", "cancelled"} /\ legacy.asks \in {"none", "event", "open"}

\* An SMS that the phone has begun to post is with the backend or in the outbox, whatever
\* is lost and whoever posts it, unless a write about something else dropped it - one that
\* had loaded the outbox before, a flush that emptied it, an outbox that was full or could
\* not be read - or it could not be encrypted. With the backend it is an event of its own,
\* that no other SMS shares: the owner is asked for it if that was the verdict. The exception
\* is a message that was answered with an event which a repair had superseded by the message
\* before.
MessagesAreKept ==
  /\ \A m \in received : Of(m) # {} \/ <<"sms", m>> \in Range(outbox) \/ m \in discarded
  /\ \A m \in Texts : Of(m) # {} /\ m \notin swallowed =>
       \E n \in Of(m) :
         /\ ~rows[n].superseded
         /\ \A k \in Texts \ {m} : <<"sms", k>> \notin rows[n].of
         /\ rows[n].verdict = "owner" => rows[n].asks \in {"event", "open"}
  /\ legacy.task = "cancelled" => legacy.asks # "none"

\* An SMS whose dispatch has failed remains queued: when its thread is done, it is with the
\* backend or in the outbox.
FailedDispatchStaysQueued ==
  \A m \in received :
    request[<<"sms", m>>].pc = "done" => Of(m) # {} \/ <<"sms", m>> \in Range(outbox)
=============================================================================
