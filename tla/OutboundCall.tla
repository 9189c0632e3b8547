---------------------------- MODULE OutboundCall -----------------------------
(***************************************************************************)
(* An outbound call made for an errand: telephony_service.py. It is        *)
(* created at Twilio by a request whose answer may be lost, and recovered  *)
(* by its webhooks or by a search of the provider's list. What it achieved *)
(* is decided turn by turn, while status callbacks and the reconciliation  *)
(* write the same row. An errand that stays open is dialed again by a next *)
(* attempt, which takes the same course and is only created here.          *)
(*                                                                         *)
(* Simplifications                                                         *)
(*  - Callbacks may be lost, repeated or late: a callback reports any      *)
(*    status that the call has been in. Those of a call that goes on are   *)
(*    one, "ringing"; a canceled call is a failed one.                     *)
(*  - Statuses that nothing tests are one, "later"; so are the open and    *)
(*    the blocked ones of the errand. The flag needs_user and              *)
(*    verification_status are one field, always written together.          *)
(*  - Of a loaded row only the columns that its session looks at are kept. *)
(*  - A retry is due an hour later at least and a call is limited to half  *)
(*    an hour: it is over then, and none of its turns is being decided.    *)
(*  - No other errand dials the same number within the search window, and  *)
(*    the errand has one step. Inbound calls are left out.                 *)
(***************************************************************************)
EXTENDS Naturals

CONSTANT Turns   \* requests that decide a turn

VARIABLES
  call,       \* telephony_calls
  mayRetry,   \* attempt < max_attempts
  errand,     \* status of the objective
  dialer,     \* the session that creates the call
  turn,       \* the turns being decided, each with the row it loaded
  reader,     \* the reconciliation, with the row it loaded
  line,       \* the call at Twilio
  dialed,     \* requests that Twilio carried out
  redialed,   \* the next attempt exists
  confirmed   \* history: the counterparty confirmed the outcome

callVars == <<call, mayRetry, errand, dialer, turn, reader, line, dialed, redialed, confirmed>>

Endings == {"completed", "busy", "failed"}
Errands == {"open", "needs_user", "stopped", "completed"}
CallRows == [status : {"none", "creating", "dispatching", "creation_uncertain", "later"},
             bound : BOOLEAN, ended : BOOLEAN, retry : BOOLEAN, seq : 0..2,
             verdict : {"unverified", "needs_user", "verified"}]

NoCall == [status |-> "none", bound |-> FALSE, ended |-> FALSE, retry |-> FALSE, seq |-> 0,
           verdict |-> "unverified"]

\* create_outbound_call, up to its commit.
CallInit ==
  /\ call = [NoCall EXCEPT !.status = "creating"] /\ mayRetry \in BOOLEAN
  /\ errand = "open" /\ dialer = "creating"
  /\ turn = [h \in Turns |-> NoCall] /\ reader = NoCall
  /\ line = "none" /\ dialed = 0 /\ redialed = FALSE /\ confirmed = FALSE

-----------------------------------------------------------------------------
\* A session that loaded old and now holds new writes the columns that differ.
SaveCall(old, new) ==
  call' = [c \in DOMAIN new |-> IF new[c] # old[c] THEN new[c] ELSE call[c]]

\* _bind_sid
Bound(row) ==
  [row EXCEPT !.bound = TRUE, !.status = IF @ = "creation_uncertain" THEN "later" ELSE @]

\* _apply_provider_status: the row, and what becomes of the errand.
Reported(row, report) ==
  [row EXCEPT !.status = "later", !.ended = report \in Endings,
              !.retry = IF row.verdict = "needs_user" THEN @
                        ELSE (@ \/ (report = "busy" /\ mayRetry))
                             /\ report # "failed"]

\* Mutant: a call that was connected has done its errand.
ErrandDone(row, report) == IF report = "completed" THEN "completed" ELSE errand

ErrandAfter(row, report) ==
  CASE row.verdict = "needs_user" -> errand
    [] row.verdict # "needs_user" /\ report = "completed" ->
         IF row.verdict = "verified" THEN "completed" ELSE "open"
    [] row.verdict # "needs_user" /\ report = "busy" ->
         IF mayRetry THEN "open" ELSE "stopped"
    [] row.verdict # "needs_user" /\ report = "failed" -> "stopped"
    [] OTHER -> errand

-----------------------------------------------------------------------------
\* _dispatch_outbound_call. Without credentials nothing is dialed.
Dispatch ==
  /\ dialer = "creating"
  /\ \/ /\ call' = [call EXCEPT !.status = "dispatching"]
        /\ dialer' = "dispatching"
        /\ UNCHANGED errand
     \/ /\ call' = [call EXCEPT !.status = "later"]
        /\ dialer' = "idle"
        /\ errand' = "stopped"
  /\ UNCHANGED <<mayRetry, turn, reader, line, dialed, redialed, confirmed>>

PlaceCall ==
  /\ dialer = "dispatching"
  /\ \/ dialed' = dialed + 1 /\ line' = "ringing" /\ dialer' = "placed"
     \/ dialer' = "refused" /\ UNCHANGED <<line, dialed>>
  /\ UNCHANGED <<call, mayRetry, errand, turn, reader, redialed, confirmed>>

\* The answer overwrites what the webhooks wrote meanwhile. An error may be answered
\* for a call that was placed.
EndDispatch ==
  /\ dialer \in {"placed", "refused"} /\ dialer' = "idle"
  /\ \/ /\ dialer = "placed"
        /\ call' = [call EXCEPT !.bound = TRUE, !.status = "later", !.ended = FALSE]
        /\ UNCHANGED errand
     \/ call' = [call EXCEPT !.status = "creation_uncertain"] /\ errand' = "open"
     \/ call' = [call EXCEPT !.status = "later", !.ended = TRUE] /\ errand' = "stopped"
  /\ UNCHANGED <<mayRetry, turn, reader, line, dialed, redialed, confirmed>>

DialerDies ==
  /\ dialer # "idle" /\ dialer' = "idle"
  /\ UNCHANGED <<call, mayRetry, errand, turn, reader, line, dialed, redialed, confirmed>>

\* The call goes on at Twilio.
LineMoves ==
  /\ \/ line = "ringing" /\ line' \in {"in-progress", "busy", "failed"}
     \/ line = "in-progress" /\ line' \in {"completed", "failed"}
  /\ UNCHANGED <<call, mayRetry, errand, dialer, turn, reader, dialed, redialed, confirmed>>

-----------------------------------------------------------------------------
\* What Twilio has reported, numbered in order.
Reports ==
  {r \in {<<1, "ringing">>, <<2, line>>} : line # "none" /\ (r[1] = 2 => line \in Endings)}

\* process_status_webhook
StatusCallback ==
  /\ \E r \in Reports :
       LET row == Bound(call) IN
       IF r[1] < row.seq THEN call' = row /\ UNCHANGED errand
       ELSE /\ call' = [Reported(row, r[2]) EXCEPT !.seq = r[1]]
            /\ errand' = ErrandAfter(row, r[2])
  /\ UNCHANGED <<mayRetry, dialer, turn, reader, line, dialed, redialed, confirmed>>

\* process_voice_webhook
VoiceWebhook ==
  /\ line = "in-progress"
  /\ call' = [Bound(call) EXCEPT !.status = IF call.ended THEN @ ELSE "later"]
  /\ UNCHANGED <<mayRetry, errand, dialer, turn, reader, line, dialed, redialed, confirmed>>

\* process_turn_webhook up to the commit that accounts for the AI's answer, which
\* releases the row. A repeated request decides the turn again.
TakeTurn(h) ==
  /\ turn[h] = NoCall /\ line = "in-progress"
  /\ call' = Bound(call)
  /\ turn' = [turn EXCEPT ![h] = [call' EXCEPT !.seq = 0, !.ended = FALSE]]
  /\ UNCHANGED <<mayRetry, errand, dialer, reader, line, dialed, redialed, confirmed>>

DecideTurn(h) ==
  LET row == [turn[h] EXCEPT !.status = "later"] IN
  /\ turn[h] # NoCall /\ turn' = [turn EXCEPT ![h] = NoCall]
  /\ \/ /\ SaveCall(turn[h], [row EXCEPT !.verdict = "needs_user", !.retry = FALSE])
        /\ errand' = "needs_user"
        /\ UNCHANGED confirmed
     \/ /\ SaveCall(turn[h], [row EXCEPT !.verdict = "verified", !.retry = FALSE])
        /\ errand' = "completed" /\ confirmed' = TRUE
     \/ \E again \in {row.retry, mayRetry} :
          /\ SaveCall(turn[h], [row EXCEPT !.retry = again])
          /\ errand' \in {errand, "open", "stopped"}
          /\ UNCHANGED confirmed
  /\ UNCHANGED <<mayRetry, dialer, reader, line, dialed, redialed>>

TurnDies(h) ==
  /\ turn[h] # NoCall /\ turn' = [turn EXCEPT ![h] = NoCall]
  /\ UNCHANGED <<call, mayRetry, errand, dialer, reader, line, dialed, redialed, confirmed>>

-----------------------------------------------------------------------------
\* reconcile_telephony: a creation that its session left is uncertain.
MarkInterrupted ==
  /\ call.status \in {"creating", "dispatching"} /\ ~call.bound /\ dialer = "idle"
  /\ call' = [call EXCEPT !.status = "creation_uncertain"]
  /\ errand' = "open"
  /\ UNCHANGED <<mayRetry, dialer, turn, reader, line, dialed, redialed, confirmed>>

\* The rows are loaded once, and each is then looked up at Twilio.
ReadCall ==
  /\ reader = NoCall
  /\ (call.bound /\ ~call.ended) \/ (~call.bound /\ call.status = "creation_uncertain")
  /\ reader' = [call EXCEPT !.seq = 0]
  /\ UNCHANGED <<call, mayRetry, errand, dialer, turn, line, dialed, redialed, confirmed>>

\* reconcile_call and _recover_uncertain_call_creation. Twilio may not answer or not
\* list the call yet: it is never dialed instead.
ReconcileCall ==
  /\ reader # NoCall /\ reader' = NoCall
  /\ \/ /\ dialed > 0
        /\ SaveCall(reader, Reported(Bound(reader), line))
        /\ errand' = ErrandAfter(reader, line)
     \/ /\ errand' = IF reader.bound THEN errand ELSE "open"
        /\ UNCHANGED call
  /\ UNCHANGED <<mayRetry, dialer, turn, line, dialed, redialed, confirmed>>

\* Mutant: what came of the call is not looked at.
DueAnyway == call.bound /\ call.ended /\ call.retry

RetryDue == call.bound /\ call.ended /\ call.retry /\ call.verdict = "unverified"

\* _create_retry_call: of several reconciliations one creates the next attempt.
RetryCall ==
  /\ RetryDue /\ mayRetry
  /\ line \in Endings /\ \A h \in Turns : turn[h] = NoCall
  /\ call' = [call EXCEPT !.retry = FALSE]
  /\ redialed' = TRUE
  /\ UNCHANGED <<mayRetry, errand, dialer, turn, reader, line, dialed, confirmed>>

CallNext ==
  \/ Dispatch \/ PlaceCall \/ EndDispatch \/ DialerDies \/ LineMoves
  \/ StatusCallback \/ VoiceWebhook
  \/ \E h \in Turns : TakeTurn(h) \/ DecideTurn(h) \/ TurnDies(h)
  \/ MarkInterrupted \/ ReadCall \/ ReconcileCall \/ RetryCall

CallSpec == CallInit /\ [][CallNext]_callVars

-----------------------------------------------------------------------------
CallTypeOK ==
  /\ {call, reader} \subseteq CallRows /\ turn \in [Turns -> CallRows]
  /\ {mayRetry, redialed, confirmed} \subseteq BOOLEAN
  /\ errand \in Errands /\ dialed \in Nat
  /\ dialer \in {"idle", "creating", "dispatching", "placed", "refused"}
  /\ line \in {"none", "ringing", "in-progress"} \cup Endings

\* An errand that the call has settled, by a confirmation or by a decision that only
\* the owner may take, is not dialed again, and no attempt is dialed twice, whatever
\* answers are lost, however callbacks are reordered, and whoever overwrites whom.
\* And it is completed only if the counterparty confirmed the outcome: a connected
\* call proves nothing, in whatever order its reports and its turns are applied.
NoRedialAfterOutcome ==
  /\ dialed <= 1
  /\ redialed => call.verdict = "unverified"
  /\ errand = "completed" => confirmed
==============================================================================
