----------------------------- MODULE MCServices ------------------------------
(***************************************************************************)
(* Small instances of the services around the engine, for TLC. Each of     *)
(* them keeps its own tables and its own protocol with the world; they     *)
(* share no variable, so that one run holds all of them side by side: the  *)
(* initial state chooses the service that runs, the others rest.           *)
(*                                                                         *)
(* Every variable costs TLC time in every state, also that of a service    *)
(* that rests: the services are instantiated over one set of cells, v1,    *)
(* v2..., which hold the variables of the one that runs.                   *)
(***************************************************************************)
EXTENDS Naturals, TLC

CONSTANTS s1, s2, paid, got, paidRow, gotRow, paidAgain

CONSTANTS
  MutatingRules, ReadingRules, RuleSessions, RuleInterval, RuleHorizon, BudgetMoves,
  ForecastMoves, Movers, NoMove, NoMover, DayCap,
  Mails, MailSessions, NoMail, MaxPosts, MailLimit, SyncSessions, ScanLimit, Phones,
  NoPhone, DeviceTries, RequestLimit, ArchivedFiles, ArchiveFolder, Ingestions, MaxCreates,
  PlanLength, EffectSteps, BrowserRuns, RunTries, ResumeLimit, RunLimit, Turns,
  ChaseLimit, StepTries, ReplyLimit, Fulfillers, ActionLimit, Proposals, Deciders,
  DailyUses, DraftLimit, Contributions, Investors, NoContribution, MonthlyTarget,
  BuyLimit, Creditors, NoBill, NoDecision, Readers, NoReader, BillLimit,
  MutationTries, EditLimit, Profiles, Sufficient, NoProfile, Clerks, ProfileLimit,
  Movements, Statements, MovementOf, Likeness, Twins, Keepers, Identities, Contacts,
  ProfileIds, NoProfileYet, Scribes, Papers, NoPaper, Fetchers, PaperLimit, Sync, Planner, Syncs,
  Plans, RecoveryLimit, Cycles, MaxPeriods, Hands, WishLists, TaskLimit, Sources,
  Wallets, Revolut, GivenRoles, Funders, Opening, Floor, MaxSingle, MinTransfer,
  Target, Month, Horizon, Baseline, Trusts, Rent, Salary, Invoice, ForecastLimit,
  CycleLimit, TurnLimit, Agents, CaseKinds, CheckLimit, NewsLimit, Texts, NoText,
  PostLimit, OutboxLimit, KeyFaults, News, DayLength, Hours, Fallback, Lookback,
  ListLimit, LastTick

\* Statements of the two accounts of a movement, and a second export of one of them, whose
\* row resembles the bank's record less.
StatementFiles == {{paidRow}, {gotRow}, {paidAgain}}
RowMovement == [r \in UNION StatementFiles |-> IF r = gotRow THEN got ELSE paid]
LikenessOf ==
  [r \in UNION StatementFiles |->
     [m \in {paid, got} |->
        IF m # RowMovement[r] THEN 0 ELSE IF r = paidAgain THEN 2 ELSE 3]]
TwoSides == {{paidRow, gotRow}}

VARIABLES service, v1, v2, v3, v4, v5, v6, v7, v8, v9, v10, v11, v12

cells == <<v1, v2, v3, v4, v5, v6, v7, v8, v9, v10, v11, v12>>

Rule == INSTANCE ConnectorMutation
     WITH ruleClock <- v1, lastRun <- v2, mutation <- v3, ruleSession <- v4,
          mutated <- v5, calls <- v6
Moving == INSTANCE OwnTransfer
     WITH moved <- v1, known <- v2, sca <- v3, allotment <- v4, linked <- v5,
          booked <- v6, atBank <- v7, orders <- v8, misread <- v9, mover <- v10,
          sourceLock <- v11
Mail == INSTANCE GmailDelivery
     WITH outbound <- v1, mailbox <- v2, mailer <- v3, posts <- v4, early <- v5
Inbox == INSTANCE GmailCursor
     WITH arrived <- v1, inInbox <- v2, forgotten <- v3, mail <- v4, cursor <- v5,
          watching <- v6, passedOver <- v7, sync <- v8
Device == INSTANCE DeviceDispatch
     WITH multipart <- v1, action <- v2, claimant <- v3, proof <- v4, uplink <- v5,
          step <- v6, phone <- v7, reply <- v8, handed <- v9, causes <- v10
Drive == INSTANCE DriveArchive
     WITH intent <- v1, bound <- v2, onDrive <- v3, searchable <- v4, creates <- v5,
          record <- v6, owned <- v7, ingestion <- v8
Operation == INSTANCE PortalOperation
     WITH operation <- v1, sequence <- v2, runnable <- v3, browser <- v4,
          clicked <- v5, overlapped <- v6
Calling == INSTANCE OutboundCall
     WITH call <- v1, mayRetry <- v2, errand <- v3, dialer <- v4, turn <- v5,
          reader <- v6, line <- v7, dialed <- v8, redialed <- v9, confirmed <- v10
Objective == INSTANCE Objectives
     WITH objective <- v1, plan <- v2, chaser <- v3, thread <- v4, events <- v5,
          answers <- v6, stage <- v7, batch <- v8
Buying == INSTANCE Purchase
     WITH purchase <- v1, deeds <- v2, ordered <- v3, fulfiller <- v4, overtaken <- v5
Deciding == INSTANCE Authorization
     WITH case <- v1, draft <- v2, replyPlan <- v3, uses <- v4, decider <- v5,
          granted <- v6, declined <- v7, crossed <- v8, crowded <- v9
Investing == INSTANCE Investment
     WITH contribution <- v1, debitOf <- v2, transit <- v3, buys <- v4,
          investor <- v5, jostled <- v6
Triage == INSTANCE MailTriage
     WITH message <- v1, fingerprint <- v2, bills <- v3, chores <- v4, triager <- v5,
          messageLock <- v6, torn <- v7
Calendar == INSTANCE CalendarBooking
     WITH kind <- v1, event <- v2, booking <- v3, bookStep <- v4, courier <- v5,
          requests <- v6, mirror <- v7, fetched <- v8, recorded <- v9, inserts <- v10,
          held <- v11, blind <- v12
Form == INSTANCE FormObligations
     WITH profile <- v1, hosted <- v2, reading <- v3, duty <- v4, filings <- v5,
          formOp <- v6, clerk <- v7, delivered <- v8, retaken <- v9
Ledger == INSTANCE LedgerEvidence
     WITH connected <- v1, live <- v2, imported <- v3, attached <- v4, noted <- v5,
          marked <- v6, matched <- v7, keeper <- v8, disturbed <- v9
Relation == INSTANCE Relationships
     WITH people <- v1, owner <- v2, facts <- v3, scribe <- v4, wishes <- v5,
          together <- v6
Portals == INSTANCE PortalDocuments
     WITH source <- v1, papers <- v2, fetcher <- v3, archive <- v4, arrived <- v5
Recovering == INSTANCE SystemRecovery
     WITH work <- v1, run <- v2, step <- v3, manual <- v4, repaired <- v5, early <- v6
Prompting == INSTANCE OwnerPrompts
     WITH row <- v1, event <- v2, prompt <- v3, cycle <- v4, shown <- v5,
          current <- v6
Acting == INSTANCE ActionQueue
     WITH letter <- v1, queue <- v2, proof <- v3, plan <- v4, hand <- v5, sent <- v6,
          crossed <- v7, dropped <- v8, settled <- v9
Funding == INSTANCE Allocations
     WITH cash <- v1, purse <- v2, policy <- v3, ahead <- v4, runs <- v5,
          actions <- v6, funder <- v7, turns <- v8, begun <- v9, shared <- v10,
          strained <- v11, chosen <- v12
Tracking == INSTANCE FulfilmentCases
     WITH ledger <- v1, request <- v2, objective <- v3, checks <- v4, agent <- v5,
          able <- v6, news <- v7, told <- v8, refused <- v9, overtaken <- v10
Taking == INSTANCE MessageIntake
     WITH received <- v1, outbox <- v2, request <- v3, flush <- v4, rows <- v5,
          legacy <- v6, posts <- v7, discarded <- v8, swallowed <- v9
Telling == INSTANCE Briefings
     WITH now <- v1, switched <- v2, news <- v3, deliveries <- v4, phone <- v5,
          told <- v6, noted <- v7

ASSUME RuleAssumed == Rule!RuleAssumption
ASSUME MoveAssumed == Moving!MoveAssumption
ASSUME MailAssumed == Mail!MailAssumption
ASSUME InboxAssumed == Inbox!CursorAssumption
ASSUME DeviceAssumed == Device!DeviceAssumption
ASSUME DriveAssumed == Drive!DriveAssumption
ASSUME OperationAssumed == Operation!OperationAssumption
ASSUME ObjectiveAssumed == Objective!ObjectiveAssumption
ASSUME BuyingAssumed == Buying!PurchaseAssumption
ASSUME DecidingAssumed == Deciding!AuthorizationAssumption
ASSUME InvestingAssumed == Investing!InvestmentAssumption
ASSUME TriageAssumed == Triage!TriageAssumption
ASSUME CalendarAssumed == Calendar!BookingAssumption
ASSUME FormAssumed == Form!FormAssumption
ASSUME LedgerAssumed == Ledger!LedgerAssumption
ASSUME RelationAssumed == Relation!RelationAssumption
ASSUME PortalsAssumed == Portals!PaperAssumption
ASSUME RecoveringAssumed == Recovering!RecoveryAssumption
ASSUME PromptingAssumed == Prompting!PromptAssumption
ASSUME ActingAssumed == Acting!ActionAssumption
ASSUME FundingAssumed == Funding!AllocationAssumption
ASSUME TrackingAssumed == Tracking!CaseAssumption
ASSUME TakingAssumed == Taking!IntakeAssumption
ASSUME TellingAssumed == Telling!BriefingAssumption

Init ==
  \/ /\ service = "connector" /\ Rule!ConnectorInit
     /\ v7 = 0 /\ v8 = 0 /\ v9 = 0 /\ v10 = 0 /\ v11 = 0 /\ v12 = 0
  \/ /\ service = "move" /\ Moving!MoveInit
     /\ v12 = 0
  \/ /\ service = "mail" /\ Mail!MailInit
     /\ v6 = 0 /\ v7 = 0 /\ v8 = 0 /\ v9 = 0 /\ v10 = 0 /\ v11 = 0 /\ v12 = 0
  \/ /\ service = "cursor" /\ Inbox!CursorInit
     /\ v9 = 0 /\ v10 = 0 /\ v11 = 0 /\ v12 = 0
  \/ /\ service = "device" /\ Device!DeviceInit
     /\ v11 = 0 /\ v12 = 0
  \/ /\ service = "drive" /\ Drive!DriveInit
     /\ v9 = 0 /\ v10 = 0 /\ v11 = 0 /\ v12 = 0
  \/ /\ service = "portal" /\ Operation!OperationInit
     /\ v7 = 0 /\ v8 = 0 /\ v9 = 0 /\ v10 = 0 /\ v11 = 0 /\ v12 = 0
  \/ /\ service = "call" /\ Calling!CallInit
     /\ v11 = 0 /\ v12 = 0
  \/ /\ service = "objective" /\ Objective!ObjectiveInit
     /\ v9 = 0 /\ v10 = 0 /\ v11 = 0 /\ v12 = 0
  \/ /\ service = "purchase" /\ Buying!PurchaseInit
     /\ v6 = 0 /\ v7 = 0 /\ v8 = 0 /\ v9 = 0 /\ v10 = 0 /\ v11 = 0 /\ v12 = 0
  \/ /\ service = "authorization" /\ Deciding!AuthorizationInit
     /\ v10 = 0 /\ v11 = 0 /\ v12 = 0
  \/ /\ service = "investment" /\ Investing!InvestmentInit
     /\ v7 = 0 /\ v8 = 0 /\ v9 = 0 /\ v10 = 0 /\ v11 = 0 /\ v12 = 0
  \/ /\ service = "triage" /\ Triage!TriageInit
     /\ v8 = 0 /\ v9 = 0 /\ v10 = 0 /\ v11 = 0 /\ v12 = 0
  \/ /\ service = "calendar" /\ Calendar!BookingInit
  \/ /\ service = "form" /\ Form!FormInit
     /\ v10 = 0 /\ v11 = 0 /\ v12 = 0
  \/ /\ service = "ledger" /\ Ledger!LedgerInit
     /\ v10 = 0 /\ v11 = 0 /\ v12 = 0
  \/ /\ service = "relation" /\ Relation!RelationInit
     /\ v7 = 0 /\ v8 = 0 /\ v9 = 0 /\ v10 = 0 /\ v11 = 0 /\ v12 = 0
  \/ /\ service = "papers" /\ Portals!PaperInit
     /\ v6 = 0 /\ v7 = 0 /\ v8 = 0 /\ v9 = 0 /\ v10 = 0 /\ v11 = 0 /\ v12 = 0
  \/ /\ service = "recovery" /\ Recovering!RecoveryInit
     /\ v7 = 0 /\ v8 = 0 /\ v9 = 0 /\ v10 = 0 /\ v11 = 0 /\ v12 = 0
  \/ /\ service = "prompts" /\ Prompting!PromptInit
     /\ v7 = 0 /\ v8 = 0 /\ v9 = 0 /\ v10 = 0 /\ v11 = 0 /\ v12 = 0
  \/ /\ service = "actions" /\ Acting!ActionInit
     /\ v10 = 0 /\ v11 = 0 /\ v12 = 0
  \/ /\ service = "funds" /\ Funding!AllocationInit
  \/ /\ service = "cases" /\ Tracking!CaseInit
     /\ v11 = 0 /\ v12 = 0
  \/ /\ service = "intake" /\ Taking!IntakeInit
     /\ v10 = 0 /\ v11 = 0 /\ v12 = 0
  \/ /\ service = "briefing" /\ Telling!BriefingInit
     /\ v8 = 0 /\ v9 = 0 /\ v10 = 0 /\ v11 = 0 /\ v12 = 0

Only(name) == service = name /\ UNCHANGED service

Next ==
  \/ /\ Only("connector") /\ Rule!ConnectorNext
     /\ UNCHANGED <<v7, v8, v9, v10, v11, v12>>
  \/ /\ Only("move") /\ Moving!MoveNext
     /\ UNCHANGED <<v12>>
  \/ /\ Only("mail") /\ Mail!MailNext
     /\ UNCHANGED <<v6, v7, v8, v9, v10, v11, v12>>
  \/ /\ Only("cursor") /\ Inbox!CursorNext
     /\ UNCHANGED <<v9, v10, v11, v12>>
  \/ /\ Only("device") /\ Device!DeviceNext
     /\ UNCHANGED <<v11, v12>>
  \/ /\ Only("drive") /\ Drive!DriveNext
     /\ UNCHANGED <<v9, v10, v11, v12>>
  \/ /\ Only("portal") /\ Operation!OperationNext
     /\ UNCHANGED <<v7, v8, v9, v10, v11, v12>>
  \/ /\ Only("call") /\ Calling!CallNext
     /\ UNCHANGED <<v11, v12>>
  \/ /\ Only("objective") /\ Objective!ObjectiveNext
     /\ UNCHANGED <<v9, v10, v11, v12>>
  \/ /\ Only("purchase") /\ Buying!PurchaseNext
     /\ UNCHANGED <<v6, v7, v8, v9, v10, v11, v12>>
  \/ /\ Only("authorization") /\ Deciding!AuthorizationNext
     /\ UNCHANGED <<v10, v11, v12>>
  \/ /\ Only("investment") /\ Investing!InvestmentNext
     /\ UNCHANGED <<v7, v8, v9, v10, v11, v12>>
  \/ /\ Only("triage") /\ Triage!TriageNext
     /\ UNCHANGED <<v8, v9, v10, v11, v12>>
  \/ /\ Only("calendar") /\ Calendar!BookingNext
  \/ /\ Only("form") /\ Form!FormNext
     /\ UNCHANGED <<v10, v11, v12>>
  \/ /\ Only("ledger") /\ Ledger!LedgerNext
     /\ UNCHANGED <<v10, v11, v12>>
  \/ /\ Only("relation") /\ Relation!RelationNext
     /\ UNCHANGED <<v7, v8, v9, v10, v11, v12>>
  \/ /\ Only("papers") /\ Portals!PaperNext
     /\ UNCHANGED <<v6, v7, v8, v9, v10, v11, v12>>
  \/ /\ Only("recovery") /\ Recovering!RecoveryNext
     /\ UNCHANGED <<v7, v8, v9, v10, v11, v12>>
  \/ /\ Only("prompts") /\ Prompting!PromptNext
     /\ UNCHANGED <<v7, v8, v9, v10, v11, v12>>
  \/ /\ Only("actions") /\ Acting!ActionNext
     /\ UNCHANGED <<v10, v11, v12>>
  \/ /\ Only("funds") /\ Funding!AllocationNext
  \/ /\ Only("cases") /\ Tracking!CaseNext
     /\ UNCHANGED <<v11, v12>>
  \/ /\ Only("intake") /\ Taking!IntakeNext
     /\ UNCHANGED <<v10, v11, v12>>
  \/ /\ Only("briefing") /\ Telling!BriefingNext
     /\ UNCHANGED <<v8, v9, v10, v11, v12>>

Spec == Init /\ [][Next]_<<service, cells>>

\* The types of all services: a status written by one table's rules into another
\* table, or a counter below zero, shows here.
TypesOK ==
  CASE service = "connector" -> Rule!ConnectorTypeOK
    [] service = "move" -> Moving!MoveTypeOK
    [] service = "mail" -> Mail!MailTypeOK
    [] service = "cursor" -> Inbox!CursorTypeOK
    [] service = "device" -> Device!DeviceTypeOK
    [] service = "drive" -> Drive!DriveTypeOK
    [] service = "portal" -> Operation!OperationTypeOK
    [] service = "call" -> Calling!CallTypeOK
    [] service = "objective" -> Objective!ObjectiveTypeOK
    [] service = "purchase" -> Buying!PurchaseTypeOK
    [] service = "authorization" -> Deciding!AuthorizationTypeOK
    [] service = "investment" -> Investing!InvestmentTypeOK
    [] service = "triage" -> Triage!TriageTypeOK
    [] service = "calendar" -> Calendar!BookingTypeOK
    [] service = "form" -> Form!FormTypeOK
    [] service = "ledger" -> Ledger!LedgerTypeOK
    [] service = "relation" -> Relation!RelationTypeOK
    [] service = "papers" -> Portals!PaperTypeOK
    [] service = "recovery" -> Recovering!RecoveryTypeOK
    [] service = "prompts" -> Prompting!PromptTypeOK
    [] service = "actions" -> Acting!ActionTypeOK
    [] service = "funds" -> Funding!AllocationTypeOK
    [] service = "cases" -> Tracking!CaseTypeOK
    [] service = "intake" -> Taking!IntakeTypeOK
    [] service = "briefing" -> Telling!BriefingTypeOK

\* The rules keep the promise of OneShotEffect.
MutationsAreOneShot ==
  /\ service = "connector" => Rule!ConnectorEffect!EffectInit
  /\ [][service = "connector" => Rule!ConnectorEffect!EffectStep]_<<service, cells>>

\* So do the transfers between the owner's accounts, which the day's limit and the
\* booked transactions account for.
MovesAreOneShot ==
  /\ service = "move" => Moving!MoveEffect!EffectInit
  /\ [][service = "move" => Moving!MoveEffect!EffectStep]_<<service, cells>>
  /\ [](service = "move" => Moving!AccountedFor)

\* No message is handed to Gmail before its row says so, none is reported as sent
\* that Gmail did not accept, and once a submission is on record only a session that
\* was at work on it at that moment can submit it again.
LateSessionsDoNotSend ==
  /\ [](service = "mail" => Mail!ReportsWereSent)
  /\ [][service = "mail" => Mail!ResubmittedEarly]_<<service, cells>>

\* A message that the stored cursor has passed was processed, has left the INBOX, or
\* was older than a recovery scan reaches.
CursorPassesNoUnreadMail == service = "cursor" => Inbox!CursorPassesNoUnreadMail

\* The carrier takes a message again, or what it took becomes retryable, only after a
\* dispatch or a failure without the claim, or a change from a row loaded before; the step
\* is completed only when all of it was taken.
SmsRepeatsAreCaused ==
  /\ [](service = "device" => Device!SentOnce)
  /\ [][service = "device" => Device!StaysSent]_<<service, cells>>

\* One copy of every folder and file and one bill of every document, and what the
\* rows say exists on Drive.
ArchivedOnce == service = "drive" => Drive!ArchivedOnce

\* A side effect on a portal happens once, unless two jobs worked on its operation
\* at once.
EffectsAreNotReplayed == service = "portal" => Operation!EffectsAreNotReplayed

\* An errand that is settled is not dialed again, no attempt is dialed twice, and it
\* is completed only if the counterparty confirmed the outcome.
NoRedialAfterOutcome == service = "call" => Calling!NoRedialAfterOutcome

\* A completed e-mail objective has no unverified message, one that waits is waited
\* for, whichever of answers, chases and retries came first, and each attempt is
\* chased once, within the limit.
ChasedUntilAnswered == service = "objective" => Objective!ChasedUntilAnswered

\* A request is ordered once and only in an approved operation, unless a run acted
\* on a request that another had settled meanwhile.
PurchaseIsOnce == service = "purchase" => Buying!PurchaseIsOnce

\* A declined reply is not planned, unless the decisions crossed, and what goes out
\* on the owner's word is the text that he was shown; a standing authority stays
\* within its uses a day, unless two cycles count at once.
RepliesAreAsDecided == service = "authorization" => Deciding!RepliesAreAsDecided

\* A contribution buys once and is invested only with an order, unless two passes
\* had it in hand.
InvestedOnce == service = "investment" => Investing!InvestedOnce

\* A message gives one bill and one task although it is processed again and again,
\* unless two sessions were at work past the lock.
BilledOnce == service = "triage" => Triage!BilledOnce

\* One event is created, changed only as it was last looked at, verified only if it
\* was in the calendar, and its attendees' answer is recorded.
BookedAsSeen == service = "calendar" => Calendar!BookedAsSeen

\* A portal receives a form once, unless its obligation was prepared twice, and what
\* is called completed was received.
FormFiledOnce == service = "form" => Form!FormFiledOnce

\* After a pass of reconciliation that ran alone every movement that its rows make clear
\* counts once in the evidence, and one between own accounts not at all, whatever
\* overlapping passes did before.
ClearMoneyCountsOnce == service = "ledger" => Ledger!ClearMoneyCountsOnce

\* What the owner asked for a person holds for each address that has not moved to
\* another profile, and a contact joined by a pass that ran alone stays one person.
PeopleStayThemselves == service = "relation" => Relation!PeopleStayThemselves

\* What a portal listed to a sync that took all of it and was clean has been ingested,
\* whatever other syncs do and whatever broke earlier ones off, and a row is called
\* ingested only when its document is.
PortalDocumentsArrive == service = "papers" => Portals!PortalDocumentsArrive

\* A completed manual run has had each of its jobs done, by itself or by the job
\* that replaced it, however dead letters were requeued, superseded and taken back
\* meanwhile, unless the run was cut short.
DoneMeansDone == service = "recovery" => Recovering!DoneMeansDone

\* A row that has asked the owner through a whole cycle, in its first need, has an
\* objective that asks; after a reconciliation that ran alone, what is completed is
\* so in its objective and what does not need the owner does not ask.
PromptsAreCurrent == service = "prompts" => Prompting!PromptsAreCurrent

\* The reply to an e-mail goes out once, unless two hands had it at once or one died
\* after sending; its flag is dropped only when each action is done, completed or
\* given up; after a reconciliation that ran alone a task is open for what is left.
ActionsEndOnce == service = "actions" => Acting!ActionsEndOnce

\* All that a plan ever moves stays within the surplus its forecast found, unless
\* another session took on one of its actions while its planner was at it; a plan that
\* runs alone keeps the cautious low point at its floor and fills no wallet beyond its
\* target; an owner's own policy is kept.
MovesStayWithinForecast == service = "funds" => Funding!MovesStayWithinForecast

\* A delivery or a case is completed only by the carrier, the call or an e-mail that
\* says so, and not when the parcel went back; unless runs crossed, a request that
\* the owner dismissed stays so, and its objective follows it.
CasesEndByEvidence == service = "cases" => Tracking!CasesEndByEvidence

\* An SMS that has reached the phone is with the backend or in the outbox, unless it could
\* not be encrypted or a write about something else dropped it; with the backend it is an
\* event of its own, for which the owner is asked if that was the verdict, unless it was
\* answered with a superseded event.
MessagesAreKept == service = "intake" => Taking!MessagesAreKept

\* What a proven briefing covers was told if it was stored in time and fitted in the
\* list; nothing before it is left out unless the phone proved none for longer than
\* a briefing looks back.
BriefingsLeaveNoGap == service = "briefing" => Telling!BriefingsLeaveNoGap

\* What happens to an SMS after something that may repeat it is not followed by TLC.
UntilCaused == service = "device" => v10 = {}

\* Sessions and phones change names freely.
SessionSymmetry == Permutations({s1, s2})
==============================================================================
