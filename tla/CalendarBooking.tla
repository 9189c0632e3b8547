--------------------------- MODULE CalendarBooking ---------------------------
(***************************************************************************)
(* One calendar mutation of calendar_ownership.py: the step of the core    *)
(* that prepares, looks, submits and verifies it, the calendar at Google,  *)
(* where the owner and the attendees change the event meanwhile, and the   *)
(* sync that mirrors the event and records the attendees' answers.         *)
(*                                                                         *)
(* Simplifications                                                         *)
(*  - The event is what was wanted, something else or cancelled; all       *)
(*    attendees answer at once. The mutation is well-formed.               *)
(*  - The step is tried again as often as it fails; delays are left out.   *)
(***************************************************************************)
EXTENDS Naturals

CONSTANTS
  MutationTries,  \* max_attempts
  EditLimit       \* bound on the versions of the event; an event has one from the start

BookingAssumption == MutationTries \in Nat \ {0} /\ EditLimit \in Nat \ {0}

VARIABLES
  kind,       \* calendar_mutations.operation
  event,      \* the event at Google: what it is, its version (etag), answered or not
  booking,    \* calendar_mutations: status, attempts, etag
  bookStep,   \* status of the objective's step
  courier,    \* what the core is doing with the mutation
  requests,   \* requests that Google may still serve: attempt and If-Match
  mirror,     \* calendar_event_mirrors: known, owned, answered
  fetched,    \* what the sync has listed, not yet mirrored
  recorded,   \* versions for which an attendee-response event is recorded
  inserts,    \* history: events created for the mutation
  held,       \* history: the calendar was as wanted
  blind       \* history: a version that the core had not seen was changed

bookingVars == <<kind, event, booking, bookStep, courier, requests, mirror, fetched,
                 recorded, inserts, held, blind>>

Operations == {"create", "update", "cancel"}
Absent == [is |-> "absent", etag |-> 0, answered |-> FALSE]
CourierAtRest == [pc |-> "idle", verifying |-> FALSE, seen |-> Absent, answer |-> "none"]

BookingInit ==
  /\ kind \in Operations
  /\ event = IF kind = "create" THEN Absent
             ELSE [is |-> "other", etag |-> 1, answered |-> FALSE]
  /\ booking = [status |-> "none", tries |-> 0, etag |-> 0]
  /\ bookStep = "ready" /\ courier = CourierAtRest /\ requests = {}
  /\ mirror = [known |-> FALSE, owned |-> FALSE, answered |-> FALSE]
  /\ fetched = Absent /\ recorded = {}
  /\ inserts = 0 /\ held = FALSE /\ blind = FALSE

-----------------------------------------------------------------------------
AsWanted(e) == IF kind = "cancel" THEN e.is \in {"absent", "cancelled"}
               ELSE e.is = "wanted"

\* _upsert_mirror: an event of the VA whose attendees have all answered is recorded
\* when it was not answered before, or not known; its key holds the version.
Upsert(item, owned) ==
  LET newly == item.answered /\ ~(mirror.known /\ mirror.answered) IN
  /\ mirror' = [known |-> TRUE, owned |-> mirror.owned \/ owned, answered |-> item.answered]
  /\ recorded' = IF mirror'.owned /\ newly THEN recorded \cup {item.etag} ELSE recorded

\* The step is executed (pending or retry) or verified; the event is looked at first.
LookAtEvent(verifying) ==
  /\ courier.pc = "idle"
  /\ bookStep = IF verifying THEN "verifying" ELSE "ready"
  /\ IF booking.status = "none" THEN booking' = [booking EXCEPT !.status = "pending"]
     ELSE UNCHANGED booking
  /\ booking.status \notin {"failed", "failed_user", "needs_user_conflict"}
  /\ bookStep' = IF verifying THEN bookStep ELSE "running"
  /\ courier' = [pc |-> "looking", verifying |-> verifying, seen |-> event, answer |-> "none"]
  /\ UNCHANGED <<kind, event, requests, mirror, fetched, recorded, inserts, held, blind>>

EndStepAs(status) == bookStep' = status /\ courier' = CourierAtRest
\* An error that _execute_step catches, or the verification leaves to the next cycle.
GiveUp == EndStepAs(IF courier.verifying THEN "verifying" ELSE "ready")
ToOwner(status) == booking' = [booking EXCEPT !.status = status] /\ EndStepAs("blocked")

\* reconcile_calendar_mutation finds what was wanted.
FindBooked ==
  /\ courier.pc = "looking"
  /\ AsWanted(courier.seen) \/ booking.status = "verified"
  /\ booking' = [booking EXCEPT !.status = "verified",
                   !.etag = IF courier.seen = Absent THEN @ ELSE courier.seen.etag]
  /\ IF courier.seen = Absent \/ booking.status = "verified"
       THEN UNCHANGED <<mirror, recorded>> ELSE Upsert(courier.seen, TRUE)
  /\ EndStepAs(IF courier.verifying THEN "completed" ELSE "verifying")
  /\ UNCHANGED <<kind, event, requests, fetched, inserts, held, blind>>

\* It does not: the version that was seen is kept. A verification looks once more
\* before it submits again, and only what is submitted or uncertain.
FindUnbooked ==
  /\ courier.pc = "looking" /\ booking.status # "verified" /\ ~AsWanted(courier.seen)
  /\ booking' = IF courier.seen = Absent THEN booking
                ELSE [booking EXCEPT !.etag = courier.seen.etag]
  /\ IF courier.verifying
       THEN IF booking.status \in {"creation_uncertain", "submitted"}
               /\ booking.tries < MutationTries
              THEN courier' = [courier EXCEPT !.pc = "relooking"] ELSE courier' = CourierAtRest
       ELSE courier' = [courier EXCEPT !.pc = "submitting"]
  /\ UNCHANGED <<kind, event, bookStep, requests, mirror, fetched, recorded, inserts,
                 held, blind>>

LookAgain ==
  /\ courier.pc = "relooking"
  /\ courier' = [courier EXCEPT !.pc = "resending", !.seen = event]
  /\ UNCHANGED <<kind, event, booking, bookStep, requests, mirror, fetched, recorded,
                 inserts, held, blind>>

\* The second look ends like the first, and the submission follows it.
EndLookAgain ==
  /\ courier.pc = "resending"
  /\ IF AsWanted(courier.seen)
       THEN /\ booking' = [booking EXCEPT !.status = "verified", !.etag = courier.seen.etag]
            /\ IF courier.seen = Absent THEN UNCHANGED <<mirror, recorded>>
               ELSE Upsert(courier.seen, TRUE)
            /\ EndStepAs("completed")
       ELSE /\ booking' = IF courier.seen = Absent THEN booking
                          ELSE [booking EXCEPT !.etag = courier.seen.etag]
            /\ courier' = [courier EXCEPT !.pc = "submitting"]
            /\ UNCHANGED <<bookStep, mirror, recorded>>
  /\ UNCHANGED <<kind, event, requests, fetched, inserts, held, blind>>

\* Looking fails: not authorized, or without an answer. A verification that has only
\* looked once takes a server error for "not there" and goes on.
FailToLook ==
  /\ courier.pc \in {"looking", "resending"}
  /\ \/ ToOwner("failed_user")
     \/ GiveUp /\ UNCHANGED booking
     \/ courier.pc = "looking" /\ courier.verifying /\ ToOwner("failed")
     \/ /\ courier.pc = "looking" /\ courier.verifying
        /\ booking.status \in {"creation_uncertain", "submitted"}
        /\ booking.tries < MutationTries
        /\ courier' = [courier EXCEPT !.pc = "relooking"]
        /\ UNCHANGED <<booking, bookStep>>
  /\ UNCHANGED <<kind, event, requests, mirror, fetched, recorded, inserts, held, blind>>

\* Free or busy is asked before the first attempt to create only.
FindConflict ==
  /\ courier.pc = "submitting" /\ kind = "create" /\ booking.tries = 0
  /\ ToOwner("needs_user_conflict")
  /\ UNCHANGED <<kind, event, requests, mirror, fetched, recorded, inserts, held, blind>>

\* Mutant: the request is sent without If-Match.
NoMatch == 0
IfMatch == booking.etag

Submit ==
  /\ courier.pc = "submitting"
  /\ booking' = [booking EXCEPT !.status = "submitting", !.tries = @ + 1]
  /\ requests' = requests \cup {[try |-> booking.tries + 1, etag |-> IfMatch]}
  /\ courier' = [courier EXCEPT !.pc = "calling"]
  /\ UNCHANGED <<kind, event, bookStep, mirror, fetched, recorded, inserts, held, blind>>

\* Google serves a request, at once or after its sender has gone: an identifier is
\* inserted once, and a version that If-Match does not name is refused.
Serve ==
  \E r \in requests :
    LET found == event.is # "absent"
        matches == r.etag \in {0, event.etag}
        answer(a) == IF courier.pc = "calling" /\ booking.tries = r.try
                     THEN courier' = [courier EXCEPT !.answer = a] ELSE UNCHANGED courier
        change(is) ==
          /\ event' = [is |-> is, etag |-> event.etag + 1, answered |-> event.answered]
          /\ held' = TRUE /\ answer("done")
          /\ blind' = (blind \/ (found /\ booking.etag # event.etag)) IN
    /\ requests' = requests \ {r}
    /\ CASE kind = "create" /\ ~found ->
              change("wanted") /\ inserts' = inserts + 1
         [] kind = "create" /\ found ->
              answer("exists") /\ UNCHANGED <<event, inserts, held, blind>>
         [] kind # "create" /\ (event.is = "cancelled" \/ ~matches) ->
              /\ answer(IF event.is = "cancelled" /\ kind = "cancel" THEN "gone"
                        ELSE "refused")
              /\ UNCHANGED <<event, inserts, held, blind>>
         [] OTHER ->
              /\ change(IF kind = "update" THEN "wanted" ELSE "cancelled")
              /\ UNCHANGED inserts
    /\ UNCHANGED <<kind, booking, bookStep, mirror, fetched, recorded>>

\* The answer, or none: a server error or a lost connection leaves it open.
EndCall ==
  LET to(status) == booking' = [booking EXCEPT !.status = status] IN
  /\ courier.pc = "calling"
  /\ \/ courier.answer \in {"done", "exists"} /\ to("submitted") /\ EndStepAs("verifying")
     \/ courier.answer = "gone" /\ to("verified") /\ EndStepAs("verifying")
     \/ courier.answer = "refused" /\ to("failed") /\ EndStepAs("blocked")
     \/ /\ to(IF kind = "create" THEN "creation_uncertain" ELSE "submitted")
        /\ EndStepAs("verifying")
     \/ /\ courier.answer = "none" /\ \A r \in requests : r.try # booking.tries
        /\ ToOwner("failed_user")
  /\ UNCHANGED <<kind, event, requests, mirror, fetched, recorded, inserts, held, blind>>

\* The process dies: a step that was being executed stays "running".
CourierDies ==
  /\ courier.pc # "idle" /\ courier' = CourierAtRest
  /\ UNCHANGED <<kind, event, booking, bookStep, requests, mirror, fetched, recorded,
                 inserts, held, blind>>

\* Rejected outright: the request has no effect.
Reject ==
  /\ courier.pc = "calling"
  /\ \E r \in requests : r.try = booking.tries /\ requests' = requests \ {r}
  /\ UNCHANGED <<kind, event, booking, bookStep, courier, mirror, fetched, recorded,
                 inserts, held, blind>>

-----------------------------------------------------------------------------
\* The owner edits or cancels the event, or the attendees answer.
OthersChange ==
  /\ event.is \in {"wanted", "other"} /\ event.etag < EditLimit
  /\ \/ \E is \in {"other", "cancelled"} :
          event' = [event EXCEPT !.is = is, !.etag = @ + 1]
     \/ ~event.answered /\ event' = [event EXCEPT !.answered = TRUE, !.etag = @ + 1]
  /\ held' = (held \/ AsWanted(event'))
  /\ UNCHANGED <<kind, booking, bookStep, courier, requests, mirror, fetched, recorded,
                 inserts, blind>>

\* sync_calendar lists the events, and mirrors them when all pages are in.
FetchEvents ==
  /\ event # Absent /\ fetched' = event
  /\ UNCHANGED <<kind, event, booking, bookStep, courier, requests, mirror, recorded,
                 inserts, held, blind>>

MirrorEvents ==
  /\ fetched # Absent /\ fetched' = Absent
  /\ Upsert(fetched, booking.status # "none")
  /\ UNCHANGED <<kind, event, booking, bookStep, courier, requests, inserts, held, blind>>

BookingNext ==
  \/ \E verifying \in BOOLEAN : LookAtEvent(verifying)
  \/ FindBooked \/ FindUnbooked \/ LookAgain \/ EndLookAgain \/ FailToLook \/ FindConflict
  \/ Submit \/ Serve \/ Reject \/ EndCall \/ CourierDies
  \/ OthersChange \/ FetchEvents \/ MirrorEvents

BookingSpec == BookingInit /\ [][BookingNext]_bookingVars

-----------------------------------------------------------------------------
Versions == 0 .. EditLimit + MutationTries
EventStates == [is : {"absent", "wanted", "other", "cancelled"}, etag : Versions,
                answered : BOOLEAN]

Bookings == [status : {"none", "pending", "submitting", "submitted", "verified",
                       "creation_uncertain", "failed", "failed_user",
                       "needs_user_conflict"},
             tries : 0 .. MutationTries, etag : Versions]
Mirrors == [known : BOOLEAN, owned : BOOLEAN, answered : BOOLEAN]

BookingTypeOK ==
  /\ kind \in Operations /\ event \in EventStates /\ booking \in Bookings
  /\ bookStep \in {"ready", "running", "verifying", "completed", "blocked"}
  /\ courier \in [pc : {"idle", "looking", "relooking", "resending", "submitting", "calling"},
                  verifying : BOOLEAN, seen : EventStates,
                  answer : {"none", "done", "exists", "gone", "refused"}]
  /\ requests \subseteq [try : 1 .. MutationTries, etag : Versions]
  /\ mirror \in Mirrors
  /\ fetched \in EventStates /\ recorded \subseteq Versions
  /\ inserts \in Nat /\ held \in BOOLEAN /\ blind \in BOOLEAN

\* Whatever answers are lost and whoever edits meanwhile, one event is created for the
\* mutation, it is only changed or cancelled in a version that was looked at, what is
\* called verified was in the calendar, and the answer of the attendees of an event that
\* the VA created and mirrors has been recorded for the objective.
BookedAsSeen ==
  /\ inserts <= 1 /\ ~blind
  /\ booking.status = "verified" => held
  /\ kind = "create" /\ mirror.owned /\ mirror.answered => recorded # {}
==============================================================================
