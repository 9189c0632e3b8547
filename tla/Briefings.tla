------------------------------ MODULE Briefings ------------------------------
(***************************************************************************)
(* The briefings on the owner's phone: a check that runs every quarter of  *)
(* an hour (background_service.dart) asks the backend for the briefing     *)
(* since the last one that was proven delivered (briefing_service.py),     *)
(* shows it when a period of the day is due, and proves that it did        *)
(* (briefing_delivery.py), now or at a later check. The phone may stop     *)
(* anywhere, and each request may be lost or applied without an answer.    *)
(*                                                                         *)
(* Simplifications                                                         *)
(*  - One phone: each has deliveries of its own. Its clock is the          *)
(*    backend's.                                                           *)
(*  - One list stands for all those of what happened in the window (mails, *)
(*    bills, payments, documents, messages, transfers, the audit log): a   *)
(*    row has the time at which it happened, and is stored then or later.  *)
(*    What is counted because it is open, whatever its time, is left out,  *)
(*    as is the alert for an urgent message, which has a mark of its own.  *)
(*  - The two keys of a pending proof are deleted in one step.             *)
(*  - The owner switches no period on or off meanwhile.                    *)
(***************************************************************************)
EXTENDS Integers, FiniteSetsExt

CONSTANTS
  News,          \* what happens
  DayLength,     \* in ticks of the clock
  Hours,         \* the periods, by the hour at which they begin
  Fallback,      \* daily_briefing_window_hours
  Lookback,      \* max_lookback_hours
  ListLimit,     \* rows that a briefing lists
  LastTick       \* bound on the clock

BriefingAssumption ==
  /\ DayLength \in Nat \ {0} /\ Hours \subseteq 0..(DayLength - 1) /\ LastTick \in Nat
  /\ Fallback \in Nat \ {0} /\ Lookback \in Nat /\ Lookback >= Fallback /\ ListLimit \in Nat
  /\ IsFiniteSet(News)

VARIABLES
  now,
  switched,    \* the enabled periods
  news,        \* when each happens, and when it is stored
  deliveries,  \* briefing_deliveries
  phone,       \* the check, and the phone's storage
  told,        \* history: what a shown briefing listed
  noted        \* history: periods that the phone noted as shown

briefingVars == <<now, switched, news, deliveries, phone, told, noted>>

Never == LastTick + 1
Ticks == 0..LastTick
NoKey == <<-1, -1>>
Keys == (0..(LastTick \div DayLength)) \X Hours
Proof(key, start, end) == [key |-> key, start |-> start, end |-> end]
NoProof == Proof(NoKey, 0, 0)
\* What the phone and the owner see of a briefing.
NoAnswer == [ready |-> {}, start |-> 0, end |-> 0, lists |-> {}]
Places == {"idle", "retrying", "asking", "answered", "shown", "proving"}

BriefingInit ==
  /\ now = 0 /\ switched \in (SUBSET Hours) \ {{}}
  /\ news \in [News -> {n \in [at : Ticks, stored : Ticks \cup {Never}] : n.at <= n.stored}]
  /\ deliveries = {} /\ told = {} /\ noted = {}
  /\ phone = [pc |-> "idle", last |-> NoKey, key |-> NoKey, proof |-> NoProof,
              due |-> NoKey, answer |-> NoAnswer]

-----------------------------------------------------------------------------
(* The backend. *)

\* resolve_briefing_window_start
Since ==
  IF deliveries = {} THEN now - Fallback
  ELSE Max({Max({d.end : d \in deliveries}), now - Lookback})

\* The SELECTs that count what happened in the window.
Within(start, end) == {n \in News : news[n].stored <= now /\ news[n].at \in start..end}

\* The newest rows, as many as fit.
Listings(rows) ==
  {listed \in SUBSET rows :
     /\ Cardinality(listed) = Min({ListLimit, Cardinality(rows)})
     /\ \A n \in listed, m \in rows \ listed : news[n].at >= news[m].at}

Ready == {<<now \div DayLength, h>> : h \in {g \in switched : now % DayLength >= g}}

\* Mutant: the window ends when its proof arrives.
AcknowledgeNow(proof) ==
  deliveries' = IF \E d \in deliveries : d.key = proof.key THEN deliveries
                ELSE deliveries \cup {[proof EXCEPT !.end = now]}
\* acknowledge_briefing_delivery: the first proof of a period counts.
Acknowledge(proof) ==
  deliveries' = IF \E d \in deliveries : d.key = proof.key THEN deliveries
                ELSE deliveries \cup {proof}

-----------------------------------------------------------------------------
(* The check of the phone. *)

At(place) == phone.pc = place
Awaited == phone.key # NoKey /\ phone.proof # NoProof
Stop(record) == [record EXCEPT !.pc = "idle", !.due = NoKey, !.answer = NoAnswer]
world == <<now, switched, news>>
record == <<told, noted>>

BeginCheck ==
  /\ At("idle")
  /\ phone' = [phone EXCEPT !.pc = IF Awaited THEN "retrying" ELSE "asking"]
  /\ UNCHANGED <<world, deliveries, record>>

\* The backend refuses a proof that was issued for another key.
Refused(proof, key) == proof.key # key

\* _ackBriefingDelivery, before the next briefing is asked for or after it was shown.
\* The phone keeps what is not confirmed.
SendProof ==
  /\ phone.pc \in {"retrying", "proving"}
  /\ LET next == IF At("retrying") THEN [phone EXCEPT !.pc = "asking"] ELSE Stop(phone)
     IN \/ /\ ~Refused(phone.proof, phone.key) /\ Acknowledge(phone.proof)
           /\ phone' \in {next, [next EXCEPT !.key = NoKey, !.proof = NoProof]}
        \/ /\ phone' = next
           /\ UNCHANGED deliveries
  /\ UNCHANGED <<world, record>>

AskBriefing ==
  /\ At("asking")
  /\ \E listed \in Listings(Within(Since, now)) :
       phone' = [phone EXCEPT !.pc = "answered",
                   !.answer = [ready |-> Ready, start |-> Since, end |-> now, lists |-> listed]]
  /\ UNCHANGED <<world, deliveries, record>>

\* The phone has a note of one period only: with two of a day ready, the other one is due.
Due == {k \in phone.answer.ready : k # phone.last}

ShowBriefing ==
  /\ At("answered") /\ Due # {}
  /\ \E k \in Due : /\ \A j \in Due : j[2] <= k[2]
                    /\ phone' = [phone EXCEPT !.pc = "shown", !.due = k]
  /\ told' = told \cup phone.answer.lists
  /\ UNCHANGED <<world, deliveries, noted>>

NothingDue ==
  /\ At("answered") /\ Due = {}
  /\ phone' = Stop(phone)
  /\ UNCHANGED <<world, deliveries, record>>

\* The phone notes the period, then keeps the proof's key and the proof itself.
Remember ==
  /\ At("shown")
  /\ LET named == [phone EXCEPT !.last = phone.due, !.key = phone.due]
         kept == [named EXCEPT !.proof = Proof(phone.due, phone.answer.start, phone.answer.end)]
     IN phone' \in {Stop([phone EXCEPT !.last = phone.due]), Stop(named),
                    [Stop(kept) EXCEPT !.pc = "proving"]}
  /\ noted' = noted \cup {phone.due}
  /\ UNCHANGED <<world, deliveries, told>>

\* Also when the briefing cannot be fetched or shown.
CheckStops ==
  /\ ~At("idle")
  /\ phone' = Stop(phone)
  /\ UNCHANGED <<world, deliveries, record>>

-----------------------------------------------------------------------------
(* The world. *)

TimePasses ==
  /\ now < LastTick /\ now' = now + 1
  /\ UNCHANGED <<switched, news, deliveries, phone, record>>

BriefingNext ==
  \/ BeginCheck \/ SendProof \/ AskBriefing \/ ShowBriefing \/ NothingDue
  \/ Remember \/ CheckStops \/ TimePasses

BriefingSpec == BriefingInit /\ [][BriefingNext]_briefingVars

-----------------------------------------------------------------------------
Proofs == [key : Keys \cup {NoKey}, start : (-Fallback)..LastTick, end : Ticks]

BriefingTypeOK ==
  /\ now \in Ticks /\ switched \subseteq Hours
  /\ news \in [News -> [at : 0..Never, stored : 0..Never]]
  /\ deliveries \subseteq Proofs
  /\ phone.pc \in Places /\ {phone.last, phone.key, phone.due} \subseteq Keys \cup {NoKey}
  /\ phone.proof \in Proofs
  /\ told \subseteq News /\ noted \subseteq Keys

\* What a proven briefing covers, stored before it was made, or in the same tick.
Covers(proof, n) == news[n].at \in proof.start..proof.end
Newer(proof, n) ==
  {m \in News \ {n} : Covers(proof, m) /\ news[m].at >= news[n].at /\ news[m].stored <= proof.end}

\* The briefings leave no gap, however they are shown, lost, proven late or not at all:
\* What a proven briefing covers was told if it was stored in time, unless newer things
\* filled it. What lies before a proven one is covered by another one; it is left out only
\* if more time had passed without a proof than a briefing looks back. Each proof is of a
\* period that was shown, and a period is shown again after the phone has noted it only if
\* another one of the day was shown in between.
BriefingsLeaveNoGap ==
  /\ \A d \in deliveries :
       /\ d.key \in noted
       /\ \A n \in News \ told :
            Covers(d, n) /\ news[n].stored < d.end => Cardinality(Newer(d, n)) >= ListLimit
       /\ \A n \in News : news[n].at < d.start =>
            \E e \in deliveries : \/ Covers(e, n)
                                  \/ news[n].at < e.start /\ e.end - e.start \in {Fallback, Lookback}
  /\ At("shown") /\ phone.due \in noted =>
       \E k \in noted : k[1] = phone.due[1] /\ k # phone.due
=============================================================================
