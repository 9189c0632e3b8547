------------------------------ MODULE Purchase ------------------------------
(***************************************************************************)
(* One purchase: fulfillment_service.py. The reconciler and the owner's    *)
(* routes run the request; a run observes the action that is open, or      *)
(* opens one and hands it to the browser, which orders on the shop's page. *)
(*                                                                         *)
(* Simplifications                                                         *)
(*  - A session writes the columns it changed since it loaded the row.     *)
(*    It reads the last action and commits what it makes of it in one      *)
(*    step; runs that cross there conflict over the evidence (RunBreaks).  *)
(*  - blocked_system and blocked_capability are one status, blocked.       *)
(*  - The provider has a recipe that commits money. Its browser operation  *)
(*    orders at most once (EffectsAreNotReplayed of PortalOperation) and   *)
(*    is shown here by its status, not by its steps.                       *)
(*  - The standing policy (amounts, monthly limit) allows or refuses.      *)
(*  - next_action_at, which only delays the reconciler, is left out.       *)
(***************************************************************************)
EXTENDS Naturals, Sequences, FiniteSets

CONSTANTS
  Fulfillers,    \* sessions that run the request
  ActionLimit    \* bound on the actions of the request

PurchaseAssumption == ActionLimit \in Nat

VARIABLES
  purchase,    \* fulfillment_requests: status, authorized (material_authorized_at)
  deeds,       \* fulfillment_actions by sequence, each with its browser operation
  ordered,     \* the actions whose operation placed an order in the shop
  fulfiller,   \* the sessions, each with the rows as it holds them
  overtaken    \* history: a run wrote to a request that another had settled

purchaseVars == <<purchase, deeds, ordered, fulfiller, overtaken>>

TerminalRequestStates == {"completed", "cancelled", "failed"}
RequestStates == TerminalRequestStates \cup
  {"planned", "dispatching", "waiting_provider", "needs_user", "blocked"}
ClosedActions == {"completed", "failed"}
PortalStates == {"none", "pending", "queued", "needs_user_auth", "creation_uncertain",
                 "failed", "verified"}
NewRequest == [status |-> "planned", authorized |-> FALSE]
NewDeed == [status |-> "planned", portal |-> "none", approved |-> FALSE]
AtEase == [pc |-> "idle", row |-> NewRequest, at |-> 0]

PurchaseInit ==
  /\ purchase = NewRequest
  /\ deeds = <<>> /\ ordered = {}
  /\ fulfiller = [s \in Fulfillers |-> AtEase]
  /\ overtaken = FALSE

-----------------------------------------------------------------------------
Holding(s, places) == fulfiller[s].pc \in places
Leave(s) == fulfiller' = [fulfiller EXCEPT ![s] = AtEase]
Overtakes == overtaken' = (overtaken \/ purchase.status \in TerminalRequestStates)

\* The commit of a run: what it changed in its row of the request, and the action.
SaveBoth(s, row, n, deed) ==
  /\ purchase' = [c \in DOMAIN row |-> IF row[c] # fulfiller[s].row[c] THEN row[c]
                                       ELSE purchase[c]]
  /\ deeds' = [deeds EXCEPT ![n] = deed]
  /\ Overtakes

\* reconcile_fulfillment lists the requests due and runs them one after another;
\* a route loads its own.
LoadPurchase(s) ==
  /\ Holding(s, {"idle"}) /\ purchase.status \notin TerminalRequestStates
  /\ fulfiller' = [fulfiller EXCEPT ![s] = [AtEase EXCEPT !.pc = "loaded", !.row = purchase]]
  /\ UNCHANGED <<purchase, deeds, ordered, overtaken>>

\* authorize_request, and the run that its route starts.
AuthorizePurchase(s) ==
  LET row == [status |-> IF purchase.status = "needs_user" THEN "planned" ELSE purchase.status,
              authorized |-> TRUE] IN
  /\ Holding(s, {"idle"}) /\ ~purchase.authorized
  /\ purchase' = row
  /\ fulfiller' = [fulfiller EXCEPT ![s] = IF row.status \in TerminalRequestStates THEN @
                     ELSE [AtEase EXCEPT !.pc = "loaded", !.row = row]]
  /\ UNCHANGED <<deeds, ordered, overtaken>>

\* cancel_request leaves the action and its operation as they are.
CancelPurchase ==
  /\ purchase.status # "completed"
  /\ purchase' = [purchase EXCEPT !.status = "cancelled"]
  /\ UNCHANGED <<deeds, ordered, fulfiller, overtaken>>

\* Mutant: an action that waits for the owner does not keep the next one back.
OpenUnlessWaiting(n) ==
  n > 0 /\ deeds[n].status \notin ClosedActions \cup {"needs_user"}

OpenAction(n) == n > 0 /\ deeds[n].status \notin ClosedActions

\* run_request observes the last action while it is open. Otherwise _ensure_action
\* commits a new one before anything is sent. The sequence is unique: of two
\* sessions one inserts it, the other fails (RunBreaks).
EnsureAction(s) ==
  /\ Holding(s, {"loaded"}) /\ ~OpenAction(Len(deeds)) /\ Len(deeds) < ActionLimit
  /\ deeds' = Append(deeds, NewDeed)
  /\ fulfiller' = [fulfiller EXCEPT ![s].pc = "planned", ![s].at = Len(deeds) + 1]
  /\ Overtakes
  /\ UNCHANGED <<purchase, ordered>>

\* _reconcile_existing_action. An operation in doubt is resumed to look at the
\* page again, unless it has no marker of what it did.
ObserveAction(s) ==
  LET n == Len(deeds)
      Becomes(status, portal) ==
        SaveBoth(s, [fulfiller[s].row EXCEPT !.status = status], n,
                 [deeds[n] EXCEPT !.status = status, !.portal = portal])
      Seen(portals, status) == deeds[n].portal \in portals /\ Becomes(status, deeds[n].portal)
  IN /\ Holding(s, {"loaded"}) /\ OpenAction(n)
     /\ \/ deeds[n].portal = "none" /\ UNCHANGED <<purchase, deeds, overtaken>>
        \/ Seen({"verified"}, "completed")
        \/ Seen({"needs_user_auth"}, "needs_user")
        \/ Seen({"failed"}, "failed")
        \/ Seen({"pending", "queued"}, "waiting_provider")
        \/ Seen({"creation_uncertain"}, "blocked")
        \/ deeds[n].portal = "creation_uncertain" /\ Becomes("waiting_provider", "queued")
     /\ Leave(s)
     /\ UNCHANGED ordered

\* _standing_policy_authorizes for a payment that the owner has not authorized.
PolicyAnswers == BOOLEAN

Prepared(approved) == [portal |-> "pending", approved |-> approved,
                       status |-> IF approved THEN "dispatching" ELSE "needs_user"]

\* Mutant: the owner is asked and the order goes out all the same.
DispatchRegardless(s, allowed) ==
  LET f == fulfiller[s]
      deed == Prepared(f.row.authorized \/ allowed)
  IN /\ Holding(s, {"planned"})
     /\ SaveBoth(s, [f.row EXCEPT !.status = deed.status], f.at, deed)
     /\ fulfiller' = [fulfiller EXCEPT ![s].pc = "enqueueing"]
     /\ UNCHANGED ordered

\* _dispatch_browser_action: the operation is prepared and, if the owner or the
\* policy has allowed the payment, approved; otherwise the owner is asked.
DispatchAction(s, allowed) ==
  LET f == fulfiller[s]
      deed == Prepared(f.row.authorized \/ allowed)
      row == [status |-> deed.status, authorized |-> deed.approved]
  IN /\ Holding(s, {"planned"})
     /\ SaveBoth(s, row, f.at, deed)
     /\ IF deed.approved
          THEN fulfiller' = [fulfiller EXCEPT ![s].pc = "enqueueing", ![s].row = row]
          ELSE Leave(s)
     /\ UNCHANGED ordered

\* enqueue_browser_operation, after the commit.
EnqueueOrder(s) ==
  /\ Holding(s, {"enqueueing"})
  /\ deeds' = [deeds EXCEPT ![fulfiller[s].at].portal = IF @ = "pending" THEN "queued" ELSE @]
  /\ Leave(s)
  /\ UNCHANGED <<purchase, ordered, overtaken>>

\* An error in the dispatch blocks the request and the action.
DispatchFails(s) ==
  LET f == fulfiller[s] IN
  /\ Holding(s, {"planned", "enqueueing"})
  /\ SaveBoth(s, [f.row EXCEPT !.status = "blocked"], f.at, [deeds[f.at] EXCEPT !.status = "blocked"])
  /\ Leave(s)
  /\ UNCHANGED ordered

\* Any other error: a conflict with a run that inserted the same action or
\* evidence first. A route answers it, the reconciler notes it on the request
\* as it finds it then.
RunBreaks(s) ==
  /\ Holding(s, {"loaded"})
  /\ \/ UNCHANGED <<purchase, overtaken>>
     \/ /\ purchase' = [purchase EXCEPT !.status = "blocked"]
        /\ Overtakes
  /\ Leave(s)
  /\ UNCHANGED <<deeds, ordered>>

FulfillerDies(s) ==
  /\ ~Holding(s, {"idle"})
  /\ Leave(s)
  /\ UNCHANGED <<purchase, deeds, ordered, overtaken>>

-----------------------------------------------------------------------------
\* The browser operation of action n. It may have ordered whatever it reports,
\* but it is verified only by a page that shows the order.
OrderRuns(n) ==
  /\ n \in DOMAIN deeds /\ deeds[n].portal = "queued"
  /\ ordered' \in {ordered, ordered \cup {n}}
  /\ \E result \in {"verified", "creation_uncertain", "failed", "needs_user_auth"} :
       /\ result = "verified" => n \in ordered'
       /\ deeds' = [deeds EXCEPT ![n].portal = result]
  /\ UNCHANGED <<purchase, fulfiller, overtaken>>

\* The owner resumes the operation; one that failed after its side effect is refused.
OrderResumed(n) ==
  /\ n \in DOMAIN deeds
  /\ \/ deeds[n].portal \in {"needs_user_auth", "creation_uncertain"}
     \/ deeds[n].portal = "failed" /\ n \notin ordered
  /\ deeds' = [deeds EXCEPT ![n].portal = "queued"]
  /\ UNCHANGED <<purchase, ordered, fulfiller, overtaken>>

\* approve_material_operation marks the operation and starts nothing.
ApproveOrder(n) ==
  /\ n \in DOMAIN deeds /\ deeds[n].portal # "none" /\ ~deeds[n].approved
  /\ deeds' = [deeds EXCEPT ![n].approved = TRUE]
  /\ UNCHANGED <<purchase, ordered, fulfiller, overtaken>>

PurchaseNext ==
  \/ \E s \in Fulfillers :
       \/ LoadPurchase(s) \/ AuthorizePurchase(s) \/ EnsureAction(s)
       \/ ObserveAction(s) \/ EnqueueOrder(s) \/ DispatchFails(s) \/ RunBreaks(s)
       \/ FulfillerDies(s)
       \/ \E allowed \in PolicyAnswers : DispatchAction(s, allowed)
  \/ CancelPurchase
  \/ \E n \in 1..ActionLimit : OrderRuns(n) \/ OrderResumed(n) \/ ApproveOrder(n)

PurchaseSpec == PurchaseInit /\ [][PurchaseNext]_purchaseVars

-----------------------------------------------------------------------------
Requests == [status : RequestStates, authorized : BOOLEAN]
Deeds == [status : RequestStates, portal : PortalStates, approved : BOOLEAN]

PurchaseTypeOK ==
  /\ purchase \in Requests
  /\ deeds \in UNION {[1..n -> Deeds] : n \in 0..ActionLimit}
  /\ ordered \subseteq DOMAIN deeds
  /\ fulfiller \in [Fulfillers -> [pc : {"idle", "loaded", "planned", "enqueueing"},
                                   row : Requests, at : 0..ActionLimit]]
  /\ overtaken \in BOOLEAN

\* A purchase is ordered once, through every failure, doubt, challenge, resumption
\* and crash. It is ordered again only when a run acted on a request that another
\* run or the owner had settled in the meantime: a run decides on the row that it
\* loaded, and a conflict over the evidence reopens a completed request. Money is
\* committed only in an operation that was approved, by the owner or by the standing
\* policy, before it could run.
PurchaseIsOnce ==
  /\ Cardinality(ordered) <= 1 \/ overtaken
  /\ \A n \in ordered : deeds[n].approved
=============================================================================
