---------------------------- MODULE FulfilmentCases ----------------------------
(***************************************************************************)
(* A delivery that is tracked and a customer-service case that is owned:   *)
(* the requests that fulfillment_service.py makes of the ledgers of orders *)
(* and cases, which e-mails keep (operations_service.py). The reconciler   *)
(* and the owner's routes run a request: it is complete when its ledger    *)
(* says so, or when the carrier's page or the provider's answer did; a     *)
(* record that is no order is dismissed. Purchases are in Purchase.        *)
(*                                                                         *)
(* Simplifications                                                         *)
(*  - One order, or one case, whose provider is called. An order's         *)
(*    evidence is its tracking data, or the words of its last e-mail.      *)
(*  - A run reads its action and commits what it makes of it in one step,  *)
(*    on the row of the request as it was loaded; runs that cross there    *)
(*    conflict over unique keys (CaseRunBreaks).                           *)
(*  - The browser's operation is queued as it is linked, and the call      *)
(*    dialed: PortalOperation and OutboundCall have their protocols.       *)
(*  - blocked_system and blocked_capability are one status, blocked; the   *)
(*    time of the next check, which only delays it, is left out.           *)
(***************************************************************************)
EXTENDS Naturals, Sequences

CONSTANTS
  Agents,      \* sessions that run the request
  CaseKinds,   \* "order", "case"
  CheckLimit,  \* actions of the request
  NewsLimit    \* e-mails, decisions of the owner and changes of his settings

CaseAssumption == CaseKinds \subseteq {"order", "case"} /\ {CheckLimit, NewsLimit} \subseteq Nat

VARIABLES
  ledger,     \* order_records or support_cases: kind, status, evidence of a delivery
  request,    \* fulfillment_requests: status, provider_id set
  objective,  \* va_objectives.status
  checks,     \* fulfillment_actions by sequence, each with its operation or call
  agent,      \* what each session does, and the status it loaded
  able,       \* a provider is configured and enabled, and its service is switched on
  news,       \* counts towards NewsLimit
  told,       \* history: an e-mail said that the order or the case is over
  refused,    \* history: the owner has dismissed the request and not restored the order
  overtaken   \* history: a run wrote to a request that had changed since it was loaded

caseVars == <<ledger, request, objective, checks, agent, able, news, told, refused, overtaken>>

Settled == {"completed", "cancelled", "dismissed", "failed"}
CaseStates == Settled \cup {"none", "planned", "waiting", "needs_user", "blocked"}
Closed == {"completed", "failed", "cancelled"}
Ledgers == {"open", "moving", "noted", "over", "not_order", "confirmed"}
\* Where the carrier says that the parcel is; on its way is one state.
ParcelStates == {"in_transit", "available_for_pickup", "returned", "delivered"}
\* What its page can show: also nothing that the recipe knows
Pages == ParcelStates \cup {"unknown"}
Resting == [pc |-> "idle", row |-> "none", at |-> 0]

CaseInit ==
  /\ \E kind \in CaseKinds, evident \in BOOLEAN :
       ledger = [kind |-> kind, status |-> "open", evident |-> (evident /\ kind = "order")]
  /\ request = [status |-> "none", provider |-> FALSE] /\ objective = "none"
  /\ checks = <<>> /\ agent = [s \in Agents |-> Resting]
  /\ able \in BOOLEAN /\ news = 0
  /\ told = FALSE /\ refused = FALSE /\ overtaken = FALSE

Pc(s, pc) == agent[s].pc = pc
Rest(s) == agent' = [agent EXCEPT ![s] = Resting]
Mapped(status) == IF status = "dismissed" THEN "cancelled" ELSE status

\* A run writes the status if it differs from the one it loaded, and the objective,
\* which it reads anew, in any case.
SaveRequest(s, status) ==
  /\ request' = IF status # agent[s].row THEN [request EXCEPT !.status = status] ELSE request
  /\ objective' = Mapped(status)
  /\ overtaken' = (overtaken \/ request.status # agent[s].row)

World == <<able, news, told, refused>>

-----------------------------------------------------------------------------
(***************************************************************************)
(* ingest_existing_operations                                              *)
(***************************************************************************)
Over == ledger.status = "over"

\* A provider fits the merchant or the requester.
ProviderFound == able
Executable == request.provider /\ able

\* order_is_fulfillment_candidate
Candidate ==
  ledger.kind = "order" =>
    /\ ledger.status # "not_order"
    /\ ledger.status \in {"confirmed", "moving"} \/ ledger.evident

\* dismiss_order_record: the order, its requests, their objectives and open actions
Dismiss ==
  /\ ledger' = [ledger EXCEPT !.status = "not_order"]
  /\ IF request.status = "none" THEN UNCHANGED <<request, objective, checks>>
     ELSE /\ request' = [request EXCEPT !.status = "dismissed"]
          /\ objective' = "cancelled"
          /\ checks' = [n \in DOMAIN checks |-> IF checks[n].status \in Closed THEN checks[n]
                                                ELSE [checks[n] EXCEPT !.status = "cancelled"]]

\* The objective of a new request; one that exists stays as it is.
EnsureObjective(status) == objective' = IF objective = "none" THEN status ELSE objective

\* The reconciler starts with it.
Ingest ==
  /\ \/ /\ ~Candidate /\ ledger.status # "not_order"
        /\ Dismiss
     \/ /\ Candidate /\ request.status = "none"
        /\ request' = [status |-> IF Over THEN "completed" ELSE "planned", provider |-> ProviderFound]
        /\ EnsureObjective(request'.status)
        /\ UNCHANGED <<ledger, checks>>
     \* The provider that was missing; the objective is not told.
     \/ /\ Candidate /\ request.status # "none" /\ ~request.provider /\ ProviderFound
        /\ request' = [status |-> IF request.status = "blocked" THEN "planned" ELSE request.status,
                       provider |-> TRUE]
        /\ UNCHANGED <<ledger, objective, checks>>
  /\ UNCHANGED <<agent, overtaken, World>>

-----------------------------------------------------------------------------
(***************************************************************************)
(* run_request                                                             *)
(***************************************************************************)
LoadCase(s) ==
  /\ Pc(s, "idle") /\ request.status \notin Settled \cup {"none"}
  /\ agent' = [agent EXCEPT ![s] = [Resting EXCEPT !.pc = "loaded", !.row = request.status]]
  /\ UNCHANGED <<ledger, request, objective, checks, overtaken, World>>

Last == Len(checks)
Open == Last > 0 /\ checks[Last].status \notin Closed

\* The ledger says that it is over.
CompleteByLedger(s) ==
  /\ Pc(s, "loaded") /\ Over
  /\ SaveRequest(s, "completed") /\ Rest(s)
  /\ UNCHANGED <<ledger, checks, World>>

\* Mutant: what the carrier reports goes into the ledger as it is.
NotedAsSeen(seen) ==
  CASE seen \in {"delivered", "returned"} -> "over" [] seen = "unknown" -> ledger.status
    [] seen = "available_for_pickup" -> "noted" [] OTHER -> "moving"

\* A parcel that comes back is an exception in the ledger, for "returned" would end it.
NotedAs(seen) ==
  CASE seen = "delivered" -> "over" [] seen = "unknown" -> ledger.status
    [] seen \in {"returned", "available_for_pickup"} -> "noted" [] OTHER -> "moving"

\* The observation of a page, kept with its action
Recorded(check, seen) == [check EXCEPT !.status = "completed", !.shows = seen]

\* _reconcile_tracking_browser_action: the carrier's page was read. A provider that is
\* gone blocks the request; a service that is merely switched off does not.
ObservePage(s, seen) ==
  \/ /\ ~able /\ SaveRequest(s, "blocked")
     /\ checks' = [checks EXCEPT ![Last].status = "blocked"]
     /\ UNCHANGED ledger
  \/ /\ SaveRequest(s, CASE seen = "delivered" -> "completed"
                          [] seen = "available_for_pickup" -> "needs_user"
                          [] OTHER -> "waiting")
     /\ checks' = [checks EXCEPT ![Last] = Recorded(@, seen)]
     /\ ledger' = [ledger EXCEPT !.status = NotedAs(seen)]

\* _tracking_browser_failure: the page is looked at again by a new action, later.
ObserveFailure(s) ==
  /\ SaveRequest(s, "waiting")
  /\ checks' = [checks EXCEPT ![Last].status = "failed"]
  /\ UNCHANGED ledger

\* A call that ended without an outcome keeps its action.
ObserveOther(s, job) ==
  LET to == CASE job = "verified" -> "completed" [] job = "uncertain" -> "blocked"
              [] job = "needs_user" -> "needs_user" [] OTHER -> "waiting"
  IN /\ SaveRequest(s, to)
     /\ checks' = [checks EXCEPT ![Last].status = to]
     /\ UNCHANGED ledger

\* An action without an operation or a call is left as it is.
ObserveCheck(s) ==
  LET job == checks[Last].job IN
  /\ Pc(s, "loaded") /\ ~Over /\ Open
  /\ \/ job = "none" /\ UNCHANGED <<ledger, request, objective, checks, overtaken>>
     \/ ledger.kind = "order" /\ job = "verified" /\ \E seen \in Pages : ObservePage(s, seen)
     \/ ledger.kind = "order" /\ job = "failed" /\ ObserveFailure(s)
     \/ /\ job \in IF ledger.kind = "order" THEN {"running", "needs_user", "uncertain"}
                   ELSE {"running", "needs_user", "failed", "verified"}
        /\ ObserveOther(s, job)
  /\ Rest(s)
  /\ UNCHANGED World

\* No provider, no recipe, no number, or a service that is switched off
BlockCase(s) ==
  /\ Pc(s, "loaded") /\ ~Over /\ ~Open /\ ~Executable
  /\ SaveRequest(s, "blocked") /\ Rest(s)
  /\ UNCHANGED <<ledger, checks, World>>

EnsureCheck(s) ==
  /\ Pc(s, "loaded") /\ ~Over /\ ~Open /\ Executable /\ Last < CheckLimit
  /\ checks' = Append(checks, [status |-> "planned", job |-> "none", shows |-> "unknown"])
  /\ agent' = [agent EXCEPT ![s].pc = "planned", ![s].at = Last + 1]
  /\ UNCHANGED <<ledger, request, objective, overtaken, World>>

DispatchCheck(s) ==
  /\ Pc(s, "planned")
  /\ checks' = [checks EXCEPT ![agent[s].at].status = "waiting", ![agent[s].at].job = "running"]
  /\ SaveRequest(s, "waiting") /\ Rest(s)
  /\ UNCHANGED <<ledger, World>>

DispatchCheckFails(s) ==
  /\ Pc(s, "planned")
  /\ checks' = [checks EXCEPT ![agent[s].at].status = "blocked"]
  /\ SaveRequest(s, "blocked") /\ Rest(s)
  /\ UNCHANGED <<ledger, World>>

\* Two runs inserted the same action or observation: the reconciler blocks the request
\* as it finds it.
CaseRunBreaks(s) ==
  /\ Pc(s, "loaded") /\ \E o \in Agents \ {s} : agent[o].pc # "idle"
  /\ request' = [request EXCEPT !.status = "blocked"] /\ objective' = "blocked"
  /\ overtaken' = (overtaken \/ request.status # agent[s].row)
  /\ Rest(s)
  /\ UNCHANGED <<ledger, checks, World>>

AgentDies(s) ==
  /\ ~Pc(s, "idle") /\ Rest(s)
  /\ UNCHANGED <<ledger, request, objective, checks, overtaken, World>>

-----------------------------------------------------------------------------
(***************************************************************************)
(* The browser, the phone, the mail and the owner              *)
(***************************************************************************)
JobRuns(n) ==
  /\ checks[n].job \in {"running", "needs_user"}
  /\ \E job \in {"verified", "failed", "needs_user", "uncertain"} :
       /\ job = "uncertain" => ledger.kind = "order"
       /\ checks' = [checks EXCEPT ![n].job = job]
  /\ UNCHANGED <<ledger, request, objective, agent, overtaken, World>>

Happens == news < NewsLimit /\ news' = news + 1

\* upsert_order: the e-mail's status and evidence, whatever was there before
OrderMail ==
  /\ Happens /\ ledger.kind = "order"
  /\ \E status \in {"open", "moving", "over"}, evident \in BOOLEAN :
       /\ ledger' = [ledger EXCEPT !.status = status, !.evident = evident]
       /\ told' = (told \/ status = "over")
  /\ UNCHANGED <<request, objective, checks, agent, able, refused, overtaken>>

\* upsert_support_case
CaseMail ==
  /\ Happens /\ ledger.kind = "case"
  /\ \E status \in {"open", "over"} :
       /\ ledger' = [ledger EXCEPT !.status = status]
       /\ told' = (told \/ status = "over")
  /\ UNCHANGED <<request, objective, checks, agent, able, refused, overtaken>>

OwnerDismisses ==
  /\ Happens /\ ledger.kind = "order"
  /\ Dismiss
  /\ refused' = (request.status # "none")
  /\ UNCHANGED <<agent, able, told, overtaken>>

\* restore_order_record
OwnerRestores ==
  /\ Happens /\ ledger.kind = "order"
  /\ ledger' = [ledger EXCEPT !.status = "confirmed"]
  /\ refused' = FALSE
  /\ IF request.status = "dismissed" THEN request' = [request EXCEPT !.status = "planned"]
                                          /\ objective' = "planned"
     ELSE UNCHANGED <<request, objective>>
  /\ UNCHANGED <<checks, agent, able, told, overtaken>>

CancelCase ==
  /\ Happens /\ request.status \notin {"none", "completed"}
  /\ request' = [request EXCEPT !.status = "cancelled"] /\ objective' = "cancelled"
  /\ UNCHANGED <<ledger, checks, agent, able, told, refused, overtaken>>

\* upsert_provider, and the settings
ProviderChanges ==
  /\ Happens /\ able' = ~able
  /\ UNCHANGED <<ledger, request, objective, checks, agent, told, refused, overtaken>>

CaseNext ==
  \/ \E s \in Agents :
       \/ LoadCase(s) \/ CompleteByLedger(s) \/ ObserveCheck(s) \/ BlockCase(s) \/ EnsureCheck(s)
       \/ DispatchCheck(s) \/ DispatchCheckFails(s) \/ CaseRunBreaks(s) \/ AgentDies(s)
  \/ Ingest \/ OrderMail \/ CaseMail \/ OwnerDismisses \/ OwnerRestores \/ CancelCase
  \/ ProviderChanges
  \/ \E n \in DOMAIN checks : JobRuns(n)

CaseSpec == CaseInit /\ [][CaseNext]_caseVars

-----------------------------------------------------------------------------
CaseTypeOK ==
  /\ ledger.status \in Ledgers /\ ledger.evident \in BOOLEAN
  /\ request.status \in CaseStates /\ request.provider \in BOOLEAN
  /\ objective \in CaseStates \ {"dismissed"}
  /\ \A n \in DOMAIN checks :
       /\ checks[n].status \in Closed \cup {"planned", "waiting", "needs_user", "blocked"}
       /\ checks[n].job \in {"none", "running", "verified", "failed", "needs_user", "uncertain"}
       /\ checks[n].shows \in Pages
  /\ agent \in [Agents -> [pc : {"idle", "loaded", "planned"}, row : CaseStates, at : 0..CheckLimit]]
  /\ able \in BOOLEAN /\ news \in 0..NewsLimit

\* A delivery or a case counts as completed only when the carrier showed the delivery,
\* the call brought the outcome, or an e-mail said that it is over: not when the parcel
\* went back. A request that the owner dismissed is not taken up again (an order that had
\* none yet is, by its next e-mail). The objective
\* says what the request says, but for a request that has just got its provider. The
\* last two fail only when a run writes to a request that has changed since it was loaded.
CasesEndByEvidence ==
  /\ request.status = "completed" =>
       \/ told
       \/ \E n \in DOMAIN checks :
            checks[n].job = "verified" /\ (ledger.kind = "order" => checks[n].shows = "delivered")
  /\ refused /\ ~overtaken => request.status \in {"none", "dismissed", "cancelled"}
  /\ ~overtaken =>
       \/ objective = Mapped(request.status)
       \/ objective = "blocked" /\ request.status = "planned" /\ request.provider
=============================================================================
