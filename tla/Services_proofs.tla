---------------------------- MODULE Services_proofs ----------------------------
(***************************************************************************)
(* What the run of MCServices checks of the services around the engine,    *)
(* for every value of its constants. Each service has been proved on its   *)
(* own, over its own variables; here these theorems are instantiated over  *)
(* the cells of MCServices and carried over to its specification.          *)
(*                                                                         *)
(* A service's module is reached along two ways, as an instance of         *)
(* MCServices and through the module of its proofs. The lemma XAlike says  *)
(* that both define the same, by expanding the definitions of both.        *)
(***************************************************************************)
EXTENDS MCServices, TLAPS

\* The service that runs is chosen once.
LEMMA ServiceIsKept == [Next]_<<service, cells>> => service' = service
<1> SUFFICES ASSUME Next, service' # service PROVE FALSE
  OBVIOUS
<1> QED BY DEF Next, Only

--------------------------------------------------------------------------------
(***************************************************************************)
(* What is sent to other people                                            *)
(***************************************************************************)

CommP == INSTANCE Communications_proofs
     WITH outbound <- v1, mailbox <- v2, mailer <- v3, posts <- v4, early <- v5,
          multipart <- v1, action <- v2, claimant <- v3, proof <- v4, uplink <- v5,
          step <- v6, phone <- v7, reply <- v8, handed <- v9, causes <- v10, call <- v1,
          mayRetry <- v2, errand <- v3, dialer <- v4, turn <- v5, reader <- v6, line <- v7,
          dialed <- v8, redialed <- v9, confirmed <- v10, kind <- v1, event <- v2,
          booking <- v3, bookStep <- v4, courier <- v5, requests <- v6, mirror <- v7,
          fetched <- v8, recorded <- v9, inserts <- v10, held <- v11, blind <- v12,
          ledger <- v1, request <- v2, objective <- v3, checks <- v4, agent <- v5,
          able <- v6, news <- v7, told <- v8, refused <- v9, overtaken <- v10

LEMMA MailAlike ==
  /\ (CommP!MailAssumption <=> Mail!MailAssumption)
  /\ (CommP!MailInit <=> Mail!MailInit)
  /\ (CommP!MailNext <=> Mail!MailNext)
  /\ (CommP!MailTypeOK <=> Mail!MailTypeOK)
  /\ (CommP!ReportsWereSent <=> Mail!ReportsWereSent)
  /\ (CommP!ResubmittedEarly <=> Mail!ResubmittedEarly)
<1>1. CommP!MailAssumption <=> Mail!MailAssumption
  BY DEF CommP!MailAssumption, Mail!MailAssumption
<1>2. CommP!MailInit <=> Mail!MailInit
  BY DEF CommP!MailInit, Mail!MailInit, CommP!AtRest, Mail!AtRest
<1>3. CommP!MailNext <=> Mail!MailNext
  BY DEF CommP!MailNext, Mail!MailNext, CommP!PrepareMail, Mail!PrepareMail,
       CommP!VerifyMail, Mail!VerifyMail, CommP!InsertMail, Mail!InsertMail,
       CommP!SearchSent, Mail!SearchSent, CommP!ConfirmMail, Mail!ConfirmMail,
       CommP!LeaveAmbiguous, Mail!LeaveAmbiguous, CommP!GiveUpMail, Mail!GiveUpMail,
       CommP!RecordSubmission, Mail!RecordSubmission, CommP!SubmitMail, Mail!SubmitMail,
       CommP!RecordSent, Mail!RecordSent, CommP!RecordRejected, Mail!RecordRejected,
       CommP!RecordAmbiguity, Mail!RecordAmbiguity, CommP!CrashMailer, Mail!CrashMailer,
       CommP!SentAppears, Mail!SentAppears, CommP!Hold, Mail!Hold, CommP!Quiet,
       Mail!Quiet, CommP!Write, Mail!Write, CommP!Finish, Mail!Finish, CommP!Move,
       Mail!Move, CommP!Ambiguous, Mail!Ambiguous, CommP!AtRest, Mail!AtRest
<1>4. CommP!MailTypeOK <=> Mail!MailTypeOK
  BY DEF CommP!MailTypeOK, Mail!MailTypeOK, CommP!MailStates, Mail!MailStates,
       CommP!MailPlaces, Mail!MailPlaces
<1>5. CommP!ReportsWereSent <=> Mail!ReportsWereSent
  BY DEF CommP!ReportsWereSent, Mail!ReportsWereSent
<1>6. CommP!ResubmittedEarly <=> Mail!ResubmittedEarly
  BY DEF CommP!ResubmittedEarly, Mail!ResubmittedEarly
<1> QED BY <1>1, <1>2, <1>3, <1>4, <1>5, <1>6

LEMMA MailRuns ==
  /\ Spec /\ service = "mail" => CommP!MailSpec /\ [](service = "mail")
  /\ Spec /\ ~(service = "mail") => []~(service = "mail")
<1>1. Init /\ service = "mail" => CommP!MailInit
  BY MailAlike DEF Init
<1>2. service = "mail" /\ [Next]_<<service, cells>>
        => [CommP!MailNext]_<<v1, v2, v3, v4, v5>>
  <2> SUFFICES ASSUME service = "mail", Next PROVE Mail!MailNext
    BY MailAlike DEF cells
  <2> QED BY DEF Next, Only
<1>3. [Next]_<<service, cells>> => ((service = "mail")' <=> service = "mail")
  BY ServiceIsKept
<1> QED BY <1>1, <1>2, <1>3, PTL DEF Spec, CommP!MailSpec, CommP!mailVars

LEMMA MailTyped == Spec /\ service = "mail" => []TypesOK
<1>1. CommP!MailSpec => []CommP!MailTypeOK
  BY CommP!MailTypes
<1>2. service = "mail" /\ CommP!MailTypeOK => TypesOK
  BY MailAlike DEF TypesOK
<1> QED BY <1>1, <1>2, MailRuns, PTL

\* No message is handed to Gmail before its row says so, none is reported as sent
\* that Gmail did not accept, and a submission on record is repeated only by a
\* session that was already at work on it: what the run checks of GmailDelivery, for
\* any messages and sessions.
THEOREM LateSessionsLeaveMailAlone == Spec => LateSessionsDoNotSend
<1>1. CommP!MailSpec => CommP!LateSessionsDoNotSend
  BY MailAssumed, MailAlike, CommP!LateSessionsNeverSend
<1>2. service = "mail" /\ CommP!ReportsWereSent => Mail!ReportsWereSent
  BY MailAlike
<1>3. service = "mail" /\ [Next]_<<service, cells>>
        /\ [CommP!ResubmittedEarly]_<<v1, v2, v3, v4, v5>>
        => [service = "mail" => Mail!ResubmittedEarly]_<<service, cells>>
  <2>1. ASSUME service = "mail", Next, UNCHANGED <<v1, v2, v3, v4, v5>>
        PROVE  UNCHANGED <<service, cells>>
    BY <2>1 DEF Next, Only, cells
  <2> QED BY <2>1, MailAlike
<1>4. ~(service = "mail") => [service = "mail" => Mail!ResubmittedEarly]_<<service, cells>>
  OBVIOUS
<1> QED BY <1>1, <1>2, <1>3, <1>4, MailRuns, PTL
          DEF Spec, CommP!MailSpec, CommP!mailVars,
              CommP!LateSessionsDoNotSend, LateSessionsDoNotSend

--------------------------------------------------------------------------------

LEMMA DeviceAlike ==
  /\ (CommP!DeviceAssumption <=> Device!DeviceAssumption)
  /\ (CommP!DeviceInit <=> Device!DeviceInit)
  /\ (CommP!DeviceNext <=> Device!DeviceNext)
  /\ (CommP!DeviceTypeOK <=> Device!DeviceTypeOK)
  /\ (CommP!SentOnce <=> Device!SentOnce)
  /\ (CommP!StaysSent <=> Device!StaysSent)
<1>1. CommP!DeviceAssumption <=> Device!DeviceAssumption
  BY DEF CommP!DeviceAssumption, Device!DeviceAssumption
<1>2. CommP!DeviceInit <=> Device!DeviceInit
  BY DEF CommP!DeviceInit, Device!DeviceInit, CommP!NewPhone, Device!NewPhone
<1>3. CommP!DeviceNext <=> Device!DeviceNext
  BY DEF CommP!DeviceNext, Device!DeviceNext, CommP!ExecuteStep, Device!ExecuteStep,
       CommP!FindFailed, Device!FindFailed, CommP!RetryFailedAction,
       Device!RetryFailedAction, CommP!CloseStep, Device!CloseStep, CommP!LoseAnswer,
       Device!LoseAnswer, CommP!DropRequest, Device!DropRequest, CommP!ApplyResult,
       Device!ApplyResult, CommP!ApplyClaim, Device!ApplyClaim, CommP!FetchAction,
       Device!FetchAction, CommP!ClaimAction, Device!ClaimAction, CommP!MarkExecuted,
       Device!MarkExecuted, CommP!SendSms, Device!SendSms, CommP!RepostSent,
       Device!RepostSent, CommP!RepostStored, Device!RepostStored,
       CommP!ReceiverReplies, Device!ReceiverReplies, CommP!ReceiverFails,
       Device!ReceiverFails, CommP!CarrierTakes, Device!CarrierTakes,
       CommP!CarrierRefuses, Device!CarrierRefuses, CommP!PhoneStops, Device!PhoneStops,
       CommP!backend, Device!backend, CommP!GivenUp, Device!GivenUp, CommP!Answered,
       Device!Answered, CommP!Underway, Device!Underway, CommP!Granted, Device!Granted,
       CommP!Post, Device!Post, CommP!Cardinality, Device!Cardinality, CommP!Request,
       Device!Request, CommP!InTheAir, Device!InTheAir, CommP!Listed, Device!Listed,
       CommP!Continued, Device!Continued
<1>4. CommP!DeviceTypeOK <=> Device!DeviceTypeOK
  BY DEF CommP!DeviceTypeOK, Device!DeviceTypeOK, CommP!ActionStates,
       Device!ActionStates, CommP!Uplinks, Device!Uplinks, CommP!Causes, Device!Causes,
       CommP!Asked, Device!Asked, CommP!Uses, Device!Uses
<1>5. CommP!SentOnce <=> Device!SentOnce
  BY DEF CommP!SentOnce, Device!SentOnce
<1>6. CommP!StaysSent <=> Device!StaysSent
  BY DEF CommP!StaysSent, Device!StaysSent
<1> QED BY <1>1, <1>2, <1>3, <1>4, <1>5, <1>6

LEMMA DeviceRuns ==
  /\ Spec /\ service = "device" => CommP!DeviceSpec /\ [](service = "device")
  /\ Spec /\ ~(service = "device") => []~(service = "device")
<1>1. Init /\ service = "device" => CommP!DeviceInit
  BY DeviceAlike DEF Init
<1>2. service = "device" /\ [Next]_<<service, cells>>
        => [CommP!DeviceNext]_<<v1, v2, v3, v4, v5, v6, v7, v8, v9, v10>>
  <2> SUFFICES ASSUME service = "device", Next PROVE Device!DeviceNext
    BY DeviceAlike DEF cells
  <2> QED BY DEF Next, Only
<1>3. [Next]_<<service, cells>> => ((service = "device")' <=> service = "device")
  BY ServiceIsKept
<1> QED BY <1>1, <1>2, <1>3, PTL DEF Spec, CommP!DeviceSpec, CommP!deviceVars

LEMMA DeviceTyped == Spec /\ service = "device" => []TypesOK
<1>1. CommP!DeviceSpec => []CommP!DeviceTypeOK
  BY DeviceAssumed, DeviceAlike, CommP!DeviceTypes
<1>2. service = "device" /\ CommP!DeviceTypeOK => TypesOK
  BY DeviceAlike DEF TypesOK
<1> QED BY <1>1, <1>2, DeviceRuns, PTL

\* The carrier takes an SMS again, or what it took becomes retryable, only after a
\* dispatch or a failure without the claim or a change from a row loaded before, and
\* the step is completed only when all of it was taken: for any phones, attempts and
\* requests at work at once.
THEOREM SmsRepeatsHaveCauses == Spec => SmsRepeatsAreCaused
<1>1. CommP!DeviceSpec => CommP!SmsRepeatsAreCaused
  BY DeviceAssumed, DeviceAlike, CommP!SmsRepeatsHaveACause
<1>2. service = "device" /\ CommP!SentOnce => Device!SentOnce
  BY DeviceAlike
<1>3. service = "device" /\ [Next]_<<service, cells>>
        /\ [CommP!StaysSent]_<<v1, v2, v3, v4, v5, v6, v7, v8, v9, v10>>
        => [service = "device" => Device!StaysSent]_<<service, cells>>
  <2>1. ASSUME service = "device", Next, UNCHANGED <<v1, v2, v3, v4, v5, v6, v7, v8, v9, v10>>
        PROVE  UNCHANGED <<service, cells>>
    BY <2>1 DEF Next, Only, cells
  <2> QED BY <2>1, DeviceAlike
<1>4. ~(service = "device") => [service = "device" => Device!StaysSent]_<<service, cells>>
  OBVIOUS
<1> QED BY <1>1, <1>2, <1>3, <1>4, DeviceRuns, PTL
          DEF Spec, CommP!DeviceSpec, CommP!deviceVars,
              CommP!SmsRepeatsAreCaused, SmsRepeatsAreCaused

--------------------------------------------------------------------------------

LEMMA CallAlike ==
  /\ (CommP!CallInit <=> Calling!CallInit)
  /\ (CommP!CallNext <=> Calling!CallNext)
  /\ (CommP!CallTypeOK <=> Calling!CallTypeOK)
  /\ (CommP!NoRedialAfterOutcome <=> Calling!NoRedialAfterOutcome)
<1>1. CommP!CallInit <=> Calling!CallInit
  BY DEF CommP!CallInit, Calling!CallInit, CommP!NoCall, Calling!NoCall
<1>2. CommP!CallNext <=> Calling!CallNext
  BY DEF CommP!CallNext, Calling!CallNext, CommP!Dispatch, Calling!Dispatch,
       CommP!PlaceCall, Calling!PlaceCall, CommP!EndDispatch, Calling!EndDispatch,
       CommP!DialerDies, Calling!DialerDies, CommP!LineMoves, Calling!LineMoves,
       CommP!StatusCallback, Calling!StatusCallback, CommP!VoiceWebhook,
       Calling!VoiceWebhook, CommP!TakeTurn, Calling!TakeTurn, CommP!DecideTurn,
       Calling!DecideTurn, CommP!TurnDies, Calling!TurnDies, CommP!MarkInterrupted,
       Calling!MarkInterrupted, CommP!ReadCall, Calling!ReadCall, CommP!ReconcileCall,
       Calling!ReconcileCall, CommP!RetryCall, Calling!RetryCall, CommP!Reports,
       Calling!Reports, CommP!Bound, Calling!Bound, CommP!Reported, Calling!Reported,
       CommP!ErrandAfter, Calling!ErrandAfter, CommP!NoCall, Calling!NoCall,
       CommP!SaveCall, Calling!SaveCall, CommP!RetryDue, Calling!RetryDue,
       CommP!Endings, Calling!Endings
<1>3. CommP!CallTypeOK <=> Calling!CallTypeOK
  BY DEF CommP!CallTypeOK, Calling!CallTypeOK, CommP!CallRows, Calling!CallRows,
       CommP!Errands, Calling!Errands, CommP!Endings, Calling!Endings
<1>4. CommP!NoRedialAfterOutcome <=> Calling!NoRedialAfterOutcome
  BY DEF CommP!NoRedialAfterOutcome, Calling!NoRedialAfterOutcome
<1> QED BY <1>1, <1>2, <1>3, <1>4

LEMMA CallRuns ==
  /\ Spec /\ service = "call" => CommP!CallSpec /\ [](service = "call")
  /\ Spec /\ ~(service = "call") => []~(service = "call")
<1>1. Init /\ service = "call" => CommP!CallInit
  BY CallAlike DEF Init
<1>2. service = "call" /\ [Next]_<<service, cells>>
        => [CommP!CallNext]_<<v1, v2, v3, v4, v5, v6, v7, v8, v9, v10>>
  <2> SUFFICES ASSUME service = "call", Next PROVE Calling!CallNext
    BY CallAlike DEF cells
  <2> QED BY DEF Next, Only
<1>3. [Next]_<<service, cells>> => ((service = "call")' <=> service = "call")
  BY ServiceIsKept
<1> QED BY <1>1, <1>2, <1>3, PTL DEF Spec, CommP!CallSpec, CommP!callVars

LEMMA CallTyped == Spec /\ service = "call" => []TypesOK
<1>1. CommP!CallSpec => []CommP!CallTypeOK
  BY CommP!CallTypes
<1>2. service = "call" /\ CommP!CallTypeOK => TypesOK
  BY CallAlike DEF TypesOK
<1> QED BY <1>1, <1>2, CallRuns, PTL

\* An errand that is settled is not dialed again, no attempt is dialed twice, and it
\* is completed only if the counterparty confirmed the outcome: for any turns and
\* attempts.
THEOREM SettledErrandIsNotDialed == Spec => []NoRedialAfterOutcome
<1>1. CommP!CallSpec => []CommP!NoRedialAfterOutcome
  BY CommP!CallIsNotRedialed
<1>2. service = "call" /\ CommP!NoRedialAfterOutcome => NoRedialAfterOutcome
  BY CallAlike DEF NoRedialAfterOutcome
<1>3. ~(service = "call") => NoRedialAfterOutcome
  BY DEF NoRedialAfterOutcome
<1> QED BY <1>1, <1>2, <1>3, CallRuns, PTL

--------------------------------------------------------------------------------

LEMMA BookingAlike ==
  /\ (CommP!BookingAssumption <=> Calendar!BookingAssumption)
  /\ (CommP!BookingInit <=> Calendar!BookingInit)
  /\ (CommP!BookingNext <=> Calendar!BookingNext)
  /\ (CommP!BookingTypeOK <=> Calendar!BookingTypeOK)
  /\ (CommP!BookedAsSeen <=> Calendar!BookedAsSeen)
<1>1. CommP!BookingAssumption <=> Calendar!BookingAssumption
  BY DEF CommP!BookingAssumption, Calendar!BookingAssumption
<1>2. CommP!BookingInit <=> Calendar!BookingInit
  BY DEF CommP!BookingInit, Calendar!BookingInit, CommP!Operations, Calendar!Operations,
       CommP!Absent, Calendar!Absent, CommP!CourierAtRest, Calendar!CourierAtRest
<1>3. CommP!BookingNext <=> Calendar!BookingNext
  BY DEF CommP!BookingNext, Calendar!BookingNext, CommP!LookAtEvent,
       Calendar!LookAtEvent, CommP!FindBooked, Calendar!FindBooked, CommP!FindUnbooked,
       Calendar!FindUnbooked, CommP!LookAgain, Calendar!LookAgain, CommP!EndLookAgain,
       Calendar!EndLookAgain, CommP!FailToLook, Calendar!FailToLook, CommP!FindConflict,
       Calendar!FindConflict, CommP!Submit, Calendar!Submit, CommP!Serve,
       Calendar!Serve, CommP!Reject, Calendar!Reject, CommP!EndCall, Calendar!EndCall,
       CommP!CourierDies, Calendar!CourierDies, CommP!OthersChange,
       Calendar!OthersChange, CommP!FetchEvents, Calendar!FetchEvents,
       CommP!MirrorEvents, Calendar!MirrorEvents, CommP!AsWanted, Calendar!AsWanted,
       CommP!Absent, Calendar!Absent, CommP!Upsert, Calendar!Upsert, CommP!EndStepAs,
       Calendar!EndStepAs, CommP!CourierAtRest, Calendar!CourierAtRest, CommP!ToOwner,
       Calendar!ToOwner, CommP!GiveUp, Calendar!GiveUp, CommP!IfMatch, Calendar!IfMatch
<1>4. CommP!BookingTypeOK <=> Calendar!BookingTypeOK
  BY DEF CommP!BookingTypeOK, Calendar!BookingTypeOK, CommP!Operations,
       Calendar!Operations, CommP!EventStates, Calendar!EventStates, CommP!Bookings,
       Calendar!Bookings, CommP!Versions, Calendar!Versions, CommP!Mirrors,
       Calendar!Mirrors
<1>5. CommP!BookedAsSeen <=> Calendar!BookedAsSeen
  BY DEF CommP!BookedAsSeen, Calendar!BookedAsSeen
<1> QED BY <1>1, <1>2, <1>3, <1>4, <1>5

LEMMA BookingRuns ==
  /\ Spec /\ service = "calendar" => CommP!BookingSpec /\ [](service = "calendar")
  /\ Spec /\ ~(service = "calendar") => []~(service = "calendar")
<1>1. Init /\ service = "calendar" => CommP!BookingInit
  BY BookingAlike DEF Init
<1>2. service = "calendar" /\ [Next]_<<service, cells>>
        => [CommP!BookingNext]_<<v1, v2, v3, v4, v5, v6, v7, v8, v9, v10, v11, v12>>
  <2> SUFFICES ASSUME service = "calendar", Next PROVE Calendar!BookingNext
    BY BookingAlike DEF cells
  <2> QED BY DEF Next, Only
<1>3. [Next]_<<service, cells>> => ((service = "calendar")' <=> service = "calendar")
  BY ServiceIsKept
<1> QED BY <1>1, <1>2, <1>3, PTL DEF Spec, CommP!BookingSpec, CommP!bookingVars

LEMMA BookingTyped == Spec /\ service = "calendar" => []TypesOK
<1>1. CommP!BookingSpec => []CommP!BookingTypeOK
  BY CalendarAssumed, BookingAlike, CommP!BookingTypes
<1>2. service = "calendar" /\ CommP!BookingTypeOK => TypesOK
  BY BookingAlike DEF TypesOK
<1> QED BY <1>1, <1>2, BookingRuns, PTL

\* One event is created, changed only as it was last looked at, and verified only if
\* it was in the calendar: for any number of attempts and of edits by others.
THEOREM EventIsBookedAsSeen == Spec => []BookedAsSeen
<1>1. CommP!BookingSpec => []CommP!BookedAsSeen
  BY CalendarAssumed, BookingAlike, CommP!BookingIsAsSeen
<1>2. service = "calendar" /\ CommP!BookedAsSeen => BookedAsSeen
  BY BookingAlike DEF BookedAsSeen
<1>3. ~(service = "calendar") => BookedAsSeen
  BY DEF BookedAsSeen
<1> QED BY <1>1, <1>2, <1>3, BookingRuns, PTL

--------------------------------------------------------------------------------

LEMMA CaseAlike ==
  /\ (CommP!CaseAssumption <=> Tracking!CaseAssumption)
  /\ (CommP!CaseInit <=> Tracking!CaseInit)
  /\ (CommP!CaseNext <=> Tracking!CaseNext)
  /\ (CommP!CaseTypeOK <=> Tracking!CaseTypeOK)
  /\ (CommP!CasesEndByEvidence <=> Tracking!CasesEndByEvidence)
<1>1. CommP!CaseAssumption <=> Tracking!CaseAssumption
  BY DEF CommP!CaseAssumption, Tracking!CaseAssumption
<1>2. CommP!CaseInit <=> Tracking!CaseInit
  BY DEF CommP!CaseInit, Tracking!CaseInit, CommP!Resting, Tracking!Resting
<1>3. CommP!CaseNext <=> Tracking!CaseNext
  BY DEF CommP!CaseNext, Tracking!CaseNext, CommP!LoadCase, Tracking!LoadCase,
       CommP!CompleteByLedger, Tracking!CompleteByLedger, CommP!ObserveCheck,
       Tracking!ObserveCheck, CommP!BlockCase, Tracking!BlockCase, CommP!EnsureCheck,
       Tracking!EnsureCheck, CommP!DispatchCheck, Tracking!DispatchCheck,
       CommP!DispatchCheckFails, Tracking!DispatchCheckFails, CommP!CaseRunBreaks,
       Tracking!CaseRunBreaks, CommP!AgentDies, Tracking!AgentDies, CommP!Ingest,
       Tracking!Ingest, CommP!OrderMail, Tracking!OrderMail, CommP!CaseMail,
       Tracking!CaseMail, CommP!OwnerDismisses, Tracking!OwnerDismisses,
       CommP!OwnerRestores, Tracking!OwnerRestores, CommP!CancelCase,
       Tracking!CancelCase, CommP!ProviderChanges, Tracking!ProviderChanges,
       CommP!JobRuns, Tracking!JobRuns, CommP!Pc, Tracking!Pc, CommP!Settled,
       Tracking!Settled, CommP!Resting, Tracking!Resting, CommP!World, Tracking!World,
       CommP!Over, Tracking!Over, CommP!SaveRequest, Tracking!SaveRequest, CommP!Rest,
       Tracking!Rest, CommP!Last, Tracking!Last, CommP!Open, Tracking!Open, CommP!Pages,
       Tracking!Pages, CommP!ObservePage, Tracking!ObservePage, CommP!ObserveFailure,
       Tracking!ObserveFailure, CommP!ObserveOther, Tracking!ObserveOther,
       CommP!Executable, Tracking!Executable, CommP!Candidate, Tracking!Candidate,
       CommP!Dismiss, Tracking!Dismiss, CommP!ProviderFound, Tracking!ProviderFound,
       CommP!EnsureObjective, Tracking!EnsureObjective, CommP!Happens, Tracking!Happens,
       CommP!Mapped, Tracking!Mapped, CommP!Closed, Tracking!Closed, CommP!ParcelStates,
       Tracking!ParcelStates, CommP!Recorded, Tracking!Recorded, CommP!NotedAs,
       Tracking!NotedAs
<1>4. CommP!CaseTypeOK <=> Tracking!CaseTypeOK
  BY DEF CommP!CaseTypeOK, Tracking!CaseTypeOK, CommP!Ledgers, Tracking!Ledgers,
       CommP!CaseStates, Tracking!CaseStates, CommP!Closed, Tracking!Closed,
       CommP!Pages, Tracking!Pages, CommP!Settled, Tracking!Settled, CommP!ParcelStates,
       Tracking!ParcelStates
<1>5. CommP!CasesEndByEvidence <=> Tracking!CasesEndByEvidence
  BY DEF CommP!CasesEndByEvidence, Tracking!CasesEndByEvidence, CommP!Mapped,
       Tracking!Mapped
<1> QED BY <1>1, <1>2, <1>3, <1>4, <1>5

LEMMA CaseRuns ==
  /\ Spec /\ service = "cases" => CommP!CaseSpec /\ [](service = "cases")
  /\ Spec /\ ~(service = "cases") => []~(service = "cases")
<1>1. Init /\ service = "cases" => CommP!CaseInit
  BY CaseAlike DEF Init
<1>2. service = "cases" /\ [Next]_<<service, cells>>
        => [CommP!CaseNext]_<<v1, v2, v3, v4, v5, v6, v7, v8, v9, v10>>
  <2> SUFFICES ASSUME service = "cases", Next PROVE Tracking!CaseNext
    BY CaseAlike DEF cells
  <2> QED BY DEF Next, Only
<1>3. [Next]_<<service, cells>> => ((service = "cases")' <=> service = "cases")
  BY ServiceIsKept
<1> QED BY <1>1, <1>2, <1>3, PTL DEF Spec, CommP!CaseSpec, CommP!caseVars

LEMMA CaseTyped == Spec /\ service = "cases" => []TypesOK
<1>1. CommP!CaseSpec => []CommP!CaseTypeOK
  BY TrackingAssumed, CaseAlike, CommP!CaseTypesHold
<1>2. service = "cases" /\ CommP!CaseTypeOK => TypesOK
  BY CaseAlike DEF TypesOK
<1> QED BY <1>1, <1>2, CaseRuns, PTL

\* A case ends only by what a check proved, the mail said or the owner decided, and
\* a refusal holds: for any agents, checks and news.
THEOREM CaseIsProven == Spec => []CasesEndByEvidence
<1>1. CommP!CaseSpec => []CommP!CasesEndByEvidence
  BY TrackingAssumed, CaseAlike, CommP!CasesEnd
<1>2. service = "cases" /\ CommP!CasesEndByEvidence => CasesEndByEvidence
  BY CaseAlike DEF CasesEndByEvidence
<1>3. ~(service = "cases") => CasesEndByEvidence
  BY DEF CasesEndByEvidence
<1> QED BY <1>1, <1>2, <1>3, CaseRuns, PTL

--------------------------------------------------------------------------------
(***************************************************************************)
(* What comes in, and what the owner is told of it                         *)
(***************************************************************************)

InboxP == INSTANCE Inbox_proofs
     WITH arrived <- v1, inInbox <- v2, forgotten <- v3, mail <- v4, cursor <- v5,
          watching <- v6, passedOver <- v7, sync <- v8, message <- v1, fingerprint <- v2,
          bills <- v3, chores <- v4, triager <- v5, messageLock <- v6, torn <- v7,
          people <- v1, owner <- v2, facts <- v3, scribe <- v4, wishes <- v5,
          together <- v6, letter <- v1, queue <- v2, proof <- v3, plan <- v4, hand <- v5,
          sent <- v6, crossed <- v7, dropped <- v8, settled <- v9, received <- v1,
          outbox <- v2, request <- v3, flush <- v4, rows <- v5, legacy <- v6, posts <- v7,
          discarded <- v8, swallowed <- v9, now <- v1, switched <- v2, news <- v3,
          deliveries <- v4, phone <- v5, told <- v6, noted <- v7

LEMMA CursorAlike ==
  /\ (InboxP!CursorAssumption <=> Inbox!CursorAssumption)
  /\ (InboxP!CursorInit <=> Inbox!CursorInit)
  /\ (InboxP!CursorNext <=> Inbox!CursorNext)
  /\ (InboxP!CursorTypeOK <=> Inbox!CursorTypeOK)
  /\ (InboxP!CursorPassesNoUnreadMail <=> Inbox!CursorPassesNoUnreadMail)
<1>1. InboxP!CursorAssumption <=> Inbox!CursorAssumption
  BY DEF InboxP!CursorAssumption, Inbox!CursorAssumption
<1>2. InboxP!CursorInit <=> Inbox!CursorInit
  BY DEF InboxP!CursorInit, Inbox!CursorInit, InboxP!Messages, Inbox!Messages,
       InboxP!Unset, Inbox!Unset, InboxP!NoSync, Inbox!NoSync
<1>3. InboxP!CursorNext <=> Inbox!CursorNext
  BY DEF InboxP!CursorNext, Inbox!CursorNext, InboxP!OpenMailbox, Inbox!OpenMailbox,
       InboxP!ListHistory, Inbox!ListHistory, InboxP!CapturePosition,
       Inbox!CapturePosition, InboxP!ListScan, Inbox!ListScan, InboxP!LookAtMail,
       Inbox!LookAtMail, InboxP!TakeMail, Inbox!TakeMail, InboxP!ReadMail,
       Inbox!ReadMail, InboxP!Checkpoint, Inbox!Checkpoint, InboxP!AdvanceCursor,
       Inbox!AdvanceCursor, InboxP!EndLook, Inbox!EndLook, InboxP!AbandonSync,
       Inbox!AbandonSync, InboxP!RenewWatch, Inbox!RenewWatch, InboxP!ExpireWatch,
       Inbox!ExpireWatch, InboxP!Arrive, Inbox!Arrive, InboxP!LeaveInbox,
       Inbox!LeaveInbox, InboxP!ForgetHistory, Inbox!ForgetHistory, InboxP!Proceed,
       Inbox!Proceed, InboxP!NoSync, Inbox!NoSync, InboxP!Unset, Inbox!Unset,
       InboxP!mailboxVars, Inbox!mailboxVars, InboxP!Newest, Inbox!Newest,
       InboxP!AtMail, Inbox!AtMail
<1>4. InboxP!CursorTypeOK <=> Inbox!CursorTypeOK
  BY DEF InboxP!CursorTypeOK, Inbox!CursorTypeOK, InboxP!Messages, Inbox!Messages,
       InboxP!MailStatuses, Inbox!MailStatuses, InboxP!Unset, Inbox!Unset,
       InboxP!SyncPlaces, Inbox!SyncPlaces
<1>5. InboxP!CursorPassesNoUnreadMail <=> Inbox!CursorPassesNoUnreadMail
  BY DEF InboxP!CursorPassesNoUnreadMail, Inbox!CursorPassesNoUnreadMail, InboxP!Unset,
       Inbox!Unset
<1> QED BY <1>1, <1>2, <1>3, <1>4, <1>5

LEMMA CursorRuns ==
  /\ Spec /\ service = "cursor" => InboxP!CursorSpec /\ [](service = "cursor")
  /\ Spec /\ ~(service = "cursor") => []~(service = "cursor")
<1>1. Init /\ service = "cursor" => InboxP!CursorInit
  BY CursorAlike DEF Init
<1>2. service = "cursor" /\ [Next]_<<service, cells>>
        => [InboxP!CursorNext]_<<v1, v2, v3, v4, v5, v6, v7, v8>>
  <2> SUFFICES ASSUME service = "cursor", Next PROVE Inbox!CursorNext
    BY CursorAlike DEF cells
  <2> QED BY DEF Next, Only
<1>3. [Next]_<<service, cells>> => ((service = "cursor")' <=> service = "cursor")
  BY ServiceIsKept
<1> QED BY <1>1, <1>2, <1>3, PTL DEF Spec, InboxP!CursorSpec, InboxP!cursorVars

LEMMA CursorTyped == Spec /\ service = "cursor" => []TypesOK
<1>1. InboxP!CursorSpec => []InboxP!CursorTypeOK
  BY InboxAssumed, CursorAlike, InboxP!CursorTypes
<1>2. service = "cursor" /\ InboxP!CursorTypeOK => TypesOK
  BY CursorAlike DEF TypesOK
<1> QED BY <1>1, <1>2, CursorRuns, PTL

\* The stored cursor passes no message that is in the INBOX, unprocessed and within
\* the reach of a recovery scan: for any sessions, any mailbox size and any length
\* of scan.
THEOREM CursorPassesOnlySettled == Spec => []CursorPassesNoUnreadMail
<1>1. InboxP!CursorSpec => []InboxP!CursorPassesNoUnreadMail
  BY InboxAssumed, CursorAlike, InboxP!CursorIsCovered
<1>2. service = "cursor" /\ InboxP!CursorPassesNoUnreadMail => CursorPassesNoUnreadMail
  BY CursorAlike DEF CursorPassesNoUnreadMail
<1>3. ~(service = "cursor") => CursorPassesNoUnreadMail
  BY DEF CursorPassesNoUnreadMail
<1> QED BY <1>1, <1>2, <1>3, CursorRuns, PTL

--------------------------------------------------------------------------------

LEMMA TriageAlike ==
  /\ (InboxP!TriageAssumption <=> Triage!TriageAssumption)
  /\ (InboxP!TriageInit <=> Triage!TriageInit)
  /\ (InboxP!TriageNext <=> Triage!TriageNext)
  /\ (InboxP!TriageTypeOK <=> Triage!TriageTypeOK)
  /\ (InboxP!BilledOnce <=> Triage!BilledOnce)
<1>1. InboxP!TriageAssumption <=> Triage!TriageAssumption
  BY DEF InboxP!TriageAssumption, Triage!TriageAssumption
<1>2. InboxP!TriageInit <=> Triage!TriageInit
  BY DEF InboxP!TriageInit, Triage!TriageInit, InboxP!Unread, Triage!Unread
<1>3. InboxP!TriageNext <=> Triage!TriageNext
  BY DEF InboxP!TriageNext, Triage!TriageNext, InboxP!LoadMessage, Triage!LoadMessage,
       InboxP!BeginMessage, Triage!BeginMessage, InboxP!DecideWithoutAI,
       Triage!DecideWithoutAI, InboxP!DecideByAI, Triage!DecideByAI, InboxP!FileMessage,
       Triage!FileMessage, InboxP!ArchiveFiles, Triage!ArchiveFiles, InboxP!BillMessage,
       Triage!BillMessage, InboxP!CloseMessage, Triage!CloseMessage, InboxP!CrashReader,
       Triage!CrashReader, InboxP!Reads, Triage!Reads, InboxP!ReadOn, Triage!ReadOn,
       InboxP!Unread, Triage!Unread, InboxP!OthersWork, Triage!OthersWork,
       InboxP!Decide, Triage!Decide, InboxP!Decisions, Triage!Decisions,
       InboxP!CommitHalf, Triage!CommitHalf, InboxP!Add, Triage!Add, InboxP!Billed,
       Triage!Billed, InboxP!FreeLock, Triage!FreeLock
<1>4. InboxP!TriageTypeOK <=> Triage!TriageTypeOK
  BY DEF InboxP!TriageTypeOK, Triage!TriageTypeOK, InboxP!MessageStates,
       Triage!MessageStates, InboxP!Decisions, Triage!Decisions
<1>5. InboxP!BilledOnce <=> Triage!BilledOnce
  BY DEF InboxP!BilledOnce, Triage!BilledOnce
<1> QED BY <1>1, <1>2, <1>3, <1>4, <1>5

LEMMA TriageRuns ==
  /\ Spec /\ service = "triage" => InboxP!TriageSpec /\ [](service = "triage")
  /\ Spec /\ ~(service = "triage") => []~(service = "triage")
<1>1. Init /\ service = "triage" => InboxP!TriageInit
  BY TriageAlike DEF Init
<1>2. service = "triage" /\ [Next]_<<service, cells>>
        => [InboxP!TriageNext]_<<v1, v2, v3, v4, v5, v6, v7>>
  <2> SUFFICES ASSUME service = "triage", Next PROVE Triage!TriageNext
    BY TriageAlike DEF cells
  <2> QED BY DEF Next, Only
<1>3. [Next]_<<service, cells>> => ((service = "triage")' <=> service = "triage")
  BY ServiceIsKept
<1> QED BY <1>1, <1>2, <1>3, PTL DEF Spec, InboxP!TriageSpec, InboxP!triageVars

LEMMA TriageTyped == Spec /\ service = "triage" => []TypesOK
<1>1. InboxP!TriageSpec => []InboxP!TriageTypeOK
  BY TriageAssumed, TriageAlike, InboxP!TriageTypes
<1>2. service = "triage" /\ InboxP!TriageTypeOK => TypesOK
  BY TriageAlike DEF TypesOK
<1> QED BY <1>1, <1>2, TriageRuns, PTL

\* A message gives one bill and one task although it is processed again and again,
\* unless two sessions were at work past the lock: for any readers and creditors.
THEOREM MessageGivesOneBill == Spec => []BilledOnce
<1>1. InboxP!TriageSpec => []InboxP!BilledOnce
  BY TriageAssumed, TriageAlike, InboxP!MessageIsBilledOnce
<1>2. service = "triage" /\ InboxP!BilledOnce => BilledOnce
  BY TriageAlike DEF BilledOnce
<1>3. ~(service = "triage") => BilledOnce
  BY DEF BilledOnce
<1> QED BY <1>1, <1>2, <1>3, TriageRuns, PTL

--------------------------------------------------------------------------------

LEMMA RelationAlike ==
  /\ (InboxP!RelationAssumption <=> Relation!RelationAssumption)
  /\ (InboxP!RelationInit <=> Relation!RelationInit)
  /\ (InboxP!RelationNext <=> Relation!RelationNext)
  /\ (InboxP!RelationTypeOK <=> Relation!RelationTypeOK)
  /\ (InboxP!PeopleStayThemselves <=> Relation!PeopleStayThemselves)
<1>1. InboxP!RelationAssumption <=> Relation!RelationAssumption
  BY DEF InboxP!RelationAssumption, Relation!RelationAssumption
<1>2. InboxP!RelationInit <=> Relation!RelationInit
  BY DEF InboxP!RelationInit, Relation!RelationInit, InboxP!AtRest, Relation!AtRest
<1>3. InboxP!RelationNext <=> Relation!RelationNext
  BY DEF InboxP!RelationNext, Relation!RelationNext, InboxP!ScanContact,
       Relation!ScanContact, InboxP!SyncContact, Relation!SyncContact, InboxP!ScanParty,
       Relation!ScanParty, InboxP!Apply, Relation!Apply, InboxP!PassDies,
       Relation!PassDies, InboxP!SetPreference, Relation!SetPreference, InboxP!Match,
       Relation!Match, InboxP!Busy, Relation!Busy, InboxP!Found, Relation!Found,
       InboxP!Living, Relation!Living, InboxP!Least, Relation!Least, InboxP!Fail,
       Relation!Fail, InboxP!Save, Relation!Save, InboxP!Fresh, Relation!Fresh,
       InboxP!Wishes, Relation!Wishes, InboxP!Rest, Relation!Rest, InboxP!Inherited,
       Relation!Inherited, InboxP!AtRest, Relation!AtRest
<1>4. InboxP!RelationTypeOK <=> Relation!RelationTypeOK
  BY DEF InboxP!RelationTypeOK, Relation!RelationTypeOK, InboxP!ProfileRows,
       Relation!ProfileRows, InboxP!Owners, Relation!Owners, InboxP!FactRows,
       Relation!FactRows, InboxP!Wishes, Relation!Wishes, InboxP!Living, Relation!Living
<1>5. InboxP!PeopleStayThemselves <=> Relation!PeopleStayThemselves
  BY DEF InboxP!PeopleStayThemselves, Relation!PeopleStayThemselves, InboxP!Effective,
       Relation!Effective
<1> QED BY <1>1, <1>2, <1>3, <1>4, <1>5

LEMMA RelationRuns ==
  /\ Spec /\ service = "relation" => InboxP!RelationSpec /\ [](service = "relation")
  /\ Spec /\ ~(service = "relation") => []~(service = "relation")
<1>1. Init /\ service = "relation" => InboxP!RelationInit
  BY RelationAlike DEF Init
<1>2. service = "relation" /\ [Next]_<<service, cells>>
        => [InboxP!RelationNext]_<<v1, v2, v3, v4, v5, v6>>
  <2> SUFFICES ASSUME service = "relation", Next PROVE Relation!RelationNext
    BY RelationAlike DEF cells
  <2> QED BY DEF Next, Only
<1>3. [Next]_<<service, cells>> => ((service = "relation")' <=> service = "relation")
  BY ServiceIsKept
<1> QED BY <1>1, <1>2, <1>3, PTL DEF Spec, InboxP!RelationSpec, InboxP!relationVars

LEMMA RelationTyped == Spec /\ service = "relation" => []TypesOK
<1>1. InboxP!RelationSpec => []InboxP!RelationTypeOK
  BY RelationAssumed, RelationAlike, InboxP!RelationTypes
<1>2. service = "relation" /\ InboxP!RelationTypeOK => TypesOK
  BY RelationAlike DEF TypesOK
<1> QED BY <1>1, <1>2, RelationRuns, PTL

\* What the owner asked for a person holds for each address that has not moved to
\* another profile, and a contact joined by a pass that ran alone stays one person:
\* for any addresses, contacts and profiles.
THEOREM PersonKeepsHisWishes == Spec => []PeopleStayThemselves
<1>1. InboxP!RelationSpec => []InboxP!PeopleStayThemselves
  BY RelationAssumed, RelationAlike, InboxP!PeopleAreKept
<1>2. service = "relation" /\ InboxP!PeopleStayThemselves => PeopleStayThemselves
  BY RelationAlike DEF PeopleStayThemselves
<1>3. ~(service = "relation") => PeopleStayThemselves
  BY DEF PeopleStayThemselves
<1> QED BY <1>1, <1>2, <1>3, RelationRuns, PTL

--------------------------------------------------------------------------------

LEMMA ActionsAlike ==
  /\ (InboxP!ActionAssumption <=> Acting!ActionAssumption)
  /\ (InboxP!ActionInit <=> Acting!ActionInit)
  /\ (InboxP!ActionNext <=> Acting!ActionNext)
  /\ (InboxP!ActionTypeOK <=> Acting!ActionTypeOK)
  /\ (InboxP!ActionsEndOnce <=> Acting!ActionsEndOnce)
<1>1. InboxP!ActionAssumption <=> Acting!ActionAssumption
  BY DEF InboxP!ActionAssumption, Acting!ActionAssumption, InboxP!Kinds, Acting!Kinds
<1>2. InboxP!ActionInit <=> Acting!ActionInit
  BY DEF InboxP!ActionInit, Acting!ActionInit, InboxP!Kinds, Acting!Kinds, InboxP!Slots,
       Acting!Slots, InboxP!Free, Acting!Free
<1>3. InboxP!ActionNext <=> Acting!ActionNext
  BY DEF InboxP!ActionNext, Acting!ActionNext, InboxP!ReviewBill, Acting!ReviewBill,
       InboxP!SendPlanned, Acting!SendPlanned, InboxP!VerifyPlanned,
       Acting!VerifyPlanned, InboxP!Repair, Acting!Repair, InboxP!Kinds, Acting!Kinds,
       InboxP!Slots, Acting!Slots, InboxP!SetStatus, Acting!SetStatus, InboxP!PlanReply,
       Acting!PlanReply, InboxP!Reconcile, Acting!Reconcile, InboxP!Settle,
       Acting!Settle, InboxP!Send, Acting!Send, InboxP!RecordSent, Acting!RecordSent,
       InboxP!HandDies, Acting!HandDies, InboxP!Execute, Acting!Execute, InboxP!Disturb,
       Acting!Disturb, InboxP!IsOpen, Acting!IsOpen, InboxP!OpenSlots, Acting!OpenSlots,
       InboxP!Superfluous, Acting!Superfluous, InboxP!Pending, Acting!Pending,
       InboxP!ReplyAlreadySent, Acting!ReplyAlreadySent, InboxP!Sending, Acting!Sending,
       InboxP!Lacking, Acting!Lacking, InboxP!Stale, Acting!Stale, InboxP!NewTask,
       Acting!NewTask, InboxP!Vacant, Acting!Vacant, InboxP!Hand, Acting!Hand,
       InboxP!Free, Acting!Free, InboxP!AlreadySent, Acting!AlreadySent,
       InboxP!OnRecord, Acting!OnRecord, InboxP!IsCompleted, Acting!IsCompleted,
       InboxP!First, Acting!First
<1>4. InboxP!ActionTypeOK <=> Acting!ActionTypeOK
  BY DEF InboxP!ActionTypeOK, Acting!ActionTypeOK, InboxP!Kinds, Acting!Kinds,
       InboxP!Slots, Acting!Slots
<1>5. InboxP!ActionsEndOnce <=> Acting!ActionsEndOnce
  BY DEF InboxP!ActionsEndOnce, Acting!ActionsEndOnce, InboxP!IsCompleted,
       Acting!IsCompleted, InboxP!IsOpen, Acting!IsOpen, InboxP!Slots, Acting!Slots,
       InboxP!OpenSlots, Acting!OpenSlots, InboxP!Pending, Acting!Pending
<1> QED BY <1>1, <1>2, <1>3, <1>4, <1>5

LEMMA ActionsRuns ==
  /\ Spec /\ service = "actions" => InboxP!ActionSpec /\ [](service = "actions")
  /\ Spec /\ ~(service = "actions") => []~(service = "actions")
<1>1. Init /\ service = "actions" => InboxP!ActionInit
  BY ActionsAlike DEF Init
<1>2. service = "actions" /\ [Next]_<<service, cells>>
        => [InboxP!ActionNext]_<<v1, v2, v3, v4, v5, v6, v7, v8, v9>>
  <2> SUFFICES ASSUME service = "actions", Next PROVE Acting!ActionNext
    BY ActionsAlike DEF cells
  <2> QED BY DEF Next, Only
<1>3. [Next]_<<service, cells>> => ((service = "actions")' <=> service = "actions")
  BY ServiceIsKept
<1> QED BY <1>1, <1>2, <1>3, PTL DEF Spec, InboxP!ActionSpec, InboxP!actionVars

LEMMA ActionsTyped == Spec /\ service = "actions" => []TypesOK
<1>1. InboxP!ActionSpec => []InboxP!ActionTypeOK
  BY ActingAssumed, ActionsAlike, InboxP!ActionTypes
<1>2. service = "actions" /\ InboxP!ActionTypeOK => TypesOK
  BY ActionsAlike DEF TypesOK
<1> QED BY <1>1, <1>2, ActionsRuns, PTL

\* A reply that an action stands for goes out once unless two hands took it up at
\* once, and an action is closed only when what it asked for is settled: for any
\* hands and number of tasks.
THEOREM ActionIsTakenOnce == Spec => []ActionsEndOnce
<1>1. InboxP!ActionSpec => []InboxP!ActionsEndOnce
  BY ActingAssumed, ActionsAlike, InboxP!ActionsEnd
<1>2. service = "actions" /\ InboxP!ActionsEndOnce => ActionsEndOnce
  BY ActionsAlike DEF ActionsEndOnce
<1>3. ~(service = "actions") => ActionsEndOnce
  BY DEF ActionsEndOnce
<1> QED BY <1>1, <1>2, <1>3, ActionsRuns, PTL

--------------------------------------------------------------------------------

LEMMA IntakeAlike ==
  /\ (InboxP!IntakeAssumption <=> Taking!IntakeAssumption)
  /\ (InboxP!IntakeInit <=> Taking!IntakeInit)
  /\ (InboxP!IntakeNext <=> Taking!IntakeNext)
  /\ (InboxP!IntakeTypeOK <=> Taking!IntakeTypeOK)
  /\ (InboxP!MessagesAreKept <=> Taking!MessagesAreKept)
<1>1. InboxP!IntakeAssumption <=> Taking!IntakeAssumption
  BY DEF InboxP!IntakeAssumption, Taking!IntakeAssumption
<1>2. InboxP!IntakeInit <=> Taking!IntakeInit
  BY DEF InboxP!IntakeInit, Taking!IntakeInit, InboxP!Posters, Taking!Posters,
       InboxP!Silent, Taking!Silent, InboxP!Asleep, Taking!Asleep, InboxP!Captures,
       Taking!Captures, InboxP!Worker, Taking!Worker
<1>3. InboxP!IntakeNext <=> Taking!IntakeNext
  BY DEF InboxP!IntakeNext, Taking!IntakeNext, InboxP!SmsArrives, Taking!SmsArrives,
       InboxP!KeepSms, Taking!KeepSms, InboxP!MissSms, Taking!MissSms,
       InboxP!NotificationPosted, Taking!NotificationPosted, InboxP!Posters,
       Taking!Posters, InboxP!LoadOutbox, Taking!LoadOutbox, InboxP!StoreOutbox,
       Taking!StoreOutbox, InboxP!FlushBegins, Taking!FlushBegins, InboxP!Range,
       Taking!Range, InboxP!FlushPosts, Taking!FlushPosts, InboxP!FlushEnds,
       Taking!FlushEnds, InboxP!RepairCorrelation, Taking!RepairCorrelation,
       InboxP!ProcessEvents, Taking!ProcessEvents, InboxP!AnswerDuplicate,
       Taking!AnswerDuplicate, InboxP!StartEvent, Taking!StartEvent, InboxP!RecordEvent,
       Taking!RecordEvent, InboxP!BreakOff, Taking!BreakOff, InboxP!CanPost,
       Taking!CanPost, InboxP!Loads, Taking!Loads, InboxP!Queued, Taking!Queued,
       InboxP!Backend, Taking!Backend, InboxP!Dropped, Taking!Dropped, InboxP!Proceeds,
       Taking!Proceeds, InboxP!Silent, Taking!Silent, InboxP!Posting, Taking!Posting,
       InboxP!Captures, Taking!Captures, InboxP!Worker, Taking!Worker, InboxP!Changed,
       Taking!Changed, InboxP!Asleep, Taking!Asleep, InboxP!Replaced, Taking!Replaced,
       InboxP!Superseded, Taking!Superseded, InboxP!Phone, Taking!Phone, InboxP!Asked,
       Taking!Asked, InboxP!Known, Taking!Known, InboxP!Duplicates, Taking!Duplicates,
       InboxP!Promoted, Taking!Promoted, InboxP!Native, Taking!Native,
       InboxP!AnswerComes, Taking!AnswerComes, InboxP!Answered, Taking!Answered,
       InboxP!Verdicts, Taking!Verdicts, InboxP!MayReply, Taking!MayReply,
       InboxP!ExternalId, Taking!ExternalId, InboxP!Asks, Taking!Asks, InboxP!Copies,
       Taking!Copies, InboxP!Without, Taking!Without, InboxP!CrossTransport,
       Taking!CrossTransport, InboxP!Onward, Taking!Onward
<1>4. InboxP!IntakeTypeOK <=> Taking!IntakeTypeOK
  BY DEF InboxP!IntakeTypeOK, Taking!IntakeTypeOK, InboxP!Range, Taking!Range,
       InboxP!Captures, Taking!Captures, InboxP!Posters, Taking!Posters,
       InboxP!RequestPlaces, Taking!RequestPlaces, InboxP!EventRows, Taking!EventRows,
       InboxP!Worker, Taking!Worker, InboxP!ExternalId, Taking!ExternalId,
       InboxP!Verdicts, Taking!Verdicts
<1>5. InboxP!MessagesAreKept <=> Taking!MessagesAreKept
  BY DEF InboxP!MessagesAreKept, Taking!MessagesAreKept, InboxP!Range, Taking!Range,
       InboxP!Of, Taking!Of
<1> QED BY <1>1, <1>2, <1>3, <1>4, <1>5

LEMMA IntakeRuns ==
  /\ Spec /\ service = "intake" => InboxP!IntakeSpec /\ [](service = "intake")
  /\ Spec /\ ~(service = "intake") => []~(service = "intake")
<1>1. Init /\ service = "intake" => InboxP!IntakeInit
  BY IntakeAlike DEF Init
<1>2. service = "intake" /\ [Next]_<<service, cells>>
        => [InboxP!IntakeNext]_<<v1, v2, v3, v4, v5, v6, v7, v8, v9>>
  <2> SUFFICES ASSUME service = "intake", Next PROVE Taking!IntakeNext
    BY IntakeAlike DEF cells
  <2> QED BY DEF Next, Only
<1>3. [Next]_<<service, cells>> => ((service = "intake")' <=> service = "intake")
  BY ServiceIsKept
<1> QED BY <1>1, <1>2, <1>3, PTL DEF Spec, InboxP!IntakeSpec, InboxP!intakeVars

LEMMA IntakeTyped == Spec /\ service = "intake" => []TypesOK
<1>1. InboxP!IntakeSpec => []InboxP!IntakeTypeOK
  BY TakingAssumed, IntakeAlike, InboxP!IntakeTypes
<1>2. service = "intake" /\ InboxP!IntakeTypeOK => TypesOK
  BY IntakeAlike DEF TypesOK
<1> QED BY <1>1, <1>2, IntakeRuns, PTL

\* An SMS that has reached the phone is with the backend or still in the outbox,
\* unless it could not be encrypted or a write about something else dropped it, and
\* with the backend it is an event of its own: for any messages, posts, length of
\* the outbox and faults of the keystore.
THEOREM TextsReachTheOwner == Spec => []MessagesAreKept
<1>1. InboxP!IntakeSpec => []InboxP!MessagesAreKept
  BY TakingAssumed, IntakeAlike, InboxP!TextsAreKept
<1>2. service = "intake" /\ InboxP!MessagesAreKept => MessagesAreKept
  BY IntakeAlike DEF MessagesAreKept
<1>3. ~(service = "intake") => MessagesAreKept
  BY DEF MessagesAreKept
<1> QED BY <1>1, <1>2, <1>3, IntakeRuns, PTL

--------------------------------------------------------------------------------

LEMMA BriefingAlike ==
  /\ (InboxP!BriefingAssumption <=> Telling!BriefingAssumption)
  /\ (InboxP!BriefingInit <=> Telling!BriefingInit)
  /\ (InboxP!BriefingNext <=> Telling!BriefingNext)
  /\ (InboxP!BriefingTypeOK <=> Telling!BriefingTypeOK)
  /\ (InboxP!BriefingsLeaveNoGap <=> Telling!BriefingsLeaveNoGap)
<1>1. InboxP!BriefingAssumption <=> Telling!BriefingAssumption
  BY DEF InboxP!BriefingAssumption, Telling!BriefingAssumption, InboxP!IsFiniteSet,
       Telling!IsFiniteSet
<1>2. InboxP!BriefingInit <=> Telling!BriefingInit
  BY DEF InboxP!BriefingInit, Telling!BriefingInit, InboxP!Ticks, Telling!Ticks,
       InboxP!Never, Telling!Never, InboxP!NoKey, Telling!NoKey, InboxP!NoProof,
       Telling!NoProof, InboxP!NoAnswer, Telling!NoAnswer, InboxP!Proof, Telling!Proof
<1>3. InboxP!BriefingNext <=> Telling!BriefingNext
  BY DEF InboxP!BriefingNext, Telling!BriefingNext, InboxP!BeginCheck,
       Telling!BeginCheck, InboxP!SendProof, Telling!SendProof, InboxP!AskBriefing,
       Telling!AskBriefing, InboxP!ShowBriefing, Telling!ShowBriefing,
       InboxP!NothingDue, Telling!NothingDue, InboxP!Remember, Telling!Remember,
       InboxP!CheckStops, Telling!CheckStops, InboxP!TimePasses, Telling!TimePasses,
       InboxP!At, Telling!At, InboxP!Awaited, Telling!Awaited, InboxP!world,
       Telling!world, InboxP!record, Telling!record, InboxP!Stop, Telling!Stop,
       InboxP!Refused, Telling!Refused, InboxP!Acknowledge, Telling!Acknowledge,
       InboxP!NoKey, Telling!NoKey, InboxP!NoProof, Telling!NoProof, InboxP!Listings,
       Telling!Listings, InboxP!Cardinality, Telling!Cardinality, InboxP!Min,
       Telling!Min, InboxP!Within, Telling!Within, InboxP!Since, Telling!Since,
       InboxP!Max, Telling!Max, InboxP!Ready, Telling!Ready, InboxP!Due, Telling!Due,
       InboxP!Proof, Telling!Proof, InboxP!NoAnswer, Telling!NoAnswer
<1>4. InboxP!BriefingTypeOK <=> Telling!BriefingTypeOK
  BY DEF InboxP!BriefingTypeOK, Telling!BriefingTypeOK, InboxP!Ticks, Telling!Ticks,
       InboxP!Never, Telling!Never, InboxP!Proofs, Telling!Proofs, InboxP!Places,
       Telling!Places, InboxP!Keys, Telling!Keys, InboxP!NoKey, Telling!NoKey
<1>5. InboxP!BriefingsLeaveNoGap <=> Telling!BriefingsLeaveNoGap
  BY DEF InboxP!BriefingsLeaveNoGap, Telling!BriefingsLeaveNoGap, InboxP!Cardinality,
       Telling!Cardinality, InboxP!Covers, Telling!Covers, InboxP!Newer, Telling!Newer,
       InboxP!At, Telling!At
<1> QED BY <1>1, <1>2, <1>3, <1>4, <1>5

LEMMA BriefingRuns ==
  /\ Spec /\ service = "briefing" => InboxP!BriefingSpec /\ [](service = "briefing")
  /\ Spec /\ ~(service = "briefing") => []~(service = "briefing")
<1>1. Init /\ service = "briefing" => InboxP!BriefingInit
  BY BriefingAlike DEF Init
<1>2. service = "briefing" /\ [Next]_<<service, cells>>
        => [InboxP!BriefingNext]_<<v1, v2, v3, v4, v5, v6, v7>>
  <2> SUFFICES ASSUME service = "briefing", Next PROVE Telling!BriefingNext
    BY BriefingAlike DEF cells
  <2> QED BY DEF Next, Only
<1>3. [Next]_<<service, cells>> => ((service = "briefing")' <=> service = "briefing")
  BY ServiceIsKept
<1> QED BY <1>1, <1>2, <1>3, PTL DEF Spec, InboxP!BriefingSpec, InboxP!briefingVars

LEMMA BriefingTyped == Spec /\ service = "briefing" => []TypesOK
<1>1. InboxP!BriefingSpec => []InboxP!BriefingTypeOK
  BY TellingAssumed, BriefingAlike, InboxP!BriefingTypes
<1>2. service = "briefing" /\ InboxP!BriefingTypeOK => TypesOK
  BY BriefingAlike DEF TypesOK
<1> QED BY <1>1, <1>2, BriefingRuns, PTL

\* News that was not shown stays within reach of the next briefing: for any news,
\* hours and switches of the phone.
THEOREM NewsIsWithinReach == Spec => []BriefingsLeaveNoGap
<1>1. InboxP!BriefingSpec => []InboxP!BriefingsLeaveNoGap
  BY TellingAssumed, BriefingAlike, InboxP!NoGapIsLeft
<1>2. service = "briefing" /\ InboxP!BriefingsLeaveNoGap => BriefingsLeaveNoGap
  BY BriefingAlike DEF BriefingsLeaveNoGap
<1>3. ~(service = "briefing") => BriefingsLeaveNoGap
  BY DEF BriefingsLeaveNoGap
<1> QED BY <1>1, <1>2, <1>3, BriefingRuns, PTL

--------------------------------------------------------------------------------
(***************************************************************************)
(* Portals, documents, orders and the ledger                               *)
(***************************************************************************)

WorkP == INSTANCE Operations_proofs
     WITH operation <- v1, sequence <- v2, runnable <- v3, browser <- v4, clicked <- v5,
          overlapped <- v6, intent <- v1, bound <- v2, onDrive <- v3, searchable <- v4,
          creates <- v5, record <- v6, owned <- v7, ingestion <- v8, purchase <- v1,
          deeds <- v2, ordered <- v3, fulfiller <- v4, overtaken <- v5, connected <- v1,
          live <- v2, imported <- v3, attached <- v4, noted <- v5, marked <- v6,
          matched <- v7, keeper <- v8, disturbed <- v9

LEMMA OperationAlike ==
  /\ (WorkP!OperationAssumption <=> Operation!OperationAssumption)
  /\ (WorkP!OperationInit <=> Operation!OperationInit)
  /\ (WorkP!OperationNext <=> Operation!OperationNext)
  /\ (WorkP!OperationTypeOK <=> Operation!OperationTypeOK)
  /\ (WorkP!EffectsAreNotReplayed <=> Operation!EffectsAreNotReplayed)
<1>1. WorkP!OperationAssumption <=> Operation!OperationAssumption
  BY DEF WorkP!OperationAssumption, Operation!OperationAssumption
<1>2. WorkP!OperationInit <=> Operation!OperationInit
  BY DEF WorkP!OperationInit, Operation!OperationInit, WorkP!NewOperation,
       Operation!NewOperation, WorkP!Closed, Operation!Closed, WorkP!NoMarker,
       Operation!NoMarker
<1>3. WorkP!OperationNext <=> Operation!OperationNext
  BY DEF WorkP!OperationNext, Operation!OperationNext, WorkP!StartRun,
       Operation!StartRun, WorkP!NextPlanStep, Operation!NextPlanStep,
       WorkP!PerformEffect, Operation!PerformEffect, WorkP!RecordUncertainty,
       Operation!RecordUncertainty, WorkP!RecordPlanStep, Operation!RecordPlanStep,
       WorkP!Challenged, Operation!Challenged, WorkP!CheckPostcondition,
       Operation!CheckPostcondition, WorkP!RunFails, Operation!RunFails, WorkP!RunDies,
       Operation!RunDies, WorkP!ResumeOperation, Operation!ResumeOperation,
       WorkP!Doubtful, Operation!Doubtful, WorkP!Commit, Operation!Commit, WorkP!Settle,
       Operation!Settle, WorkP!Shown, Operation!Shown, WorkP!NoMarker,
       Operation!NoMarker, WorkP!Closed, Operation!Closed, WorkP!NewOperation,
       Operation!NewOperation
<1>4. WorkP!OperationTypeOK <=> Operation!OperationTypeOK
  BY DEF WorkP!OperationTypeOK, Operation!OperationTypeOK, WorkP!OperationRows,
       Operation!OperationRows, WorkP!BrowserPlaces, Operation!BrowserPlaces,
       WorkP!OperationStates, Operation!OperationStates
<1>5. WorkP!EffectsAreNotReplayed <=> Operation!EffectsAreNotReplayed
  BY DEF WorkP!EffectsAreNotReplayed, Operation!EffectsAreNotReplayed
<1> QED BY <1>1, <1>2, <1>3, <1>4, <1>5

LEMMA OperationRuns ==
  /\ Spec /\ service = "portal" => WorkP!OperationSpec /\ [](service = "portal")
  /\ Spec /\ ~(service = "portal") => []~(service = "portal")
<1>1. Init /\ service = "portal" => WorkP!OperationInit
  BY OperationAlike DEF Init
<1>2. service = "portal" /\ [Next]_<<service, cells>>
        => [WorkP!OperationNext]_<<v1, v2, v3, v4, v5, v6>>
  <2> SUFFICES ASSUME service = "portal", Next PROVE Operation!OperationNext
    BY OperationAlike DEF cells
  <2> QED BY DEF Next, Only
<1>3. [Next]_<<service, cells>> => ((service = "portal")' <=> service = "portal")
  BY ServiceIsKept
<1> QED BY <1>1, <1>2, <1>3, PTL DEF Spec, WorkP!OperationSpec, WorkP!operationVars

LEMMA OperationTyped == Spec /\ service = "portal" => []TypesOK
<1>1. WorkP!OperationSpec => []WorkP!OperationTypeOK
  BY OperationAssumed, OperationAlike, WorkP!OperationTypes
<1>2. service = "portal" /\ WorkP!OperationTypeOK => TypesOK
  BY OperationAlike DEF TypesOK
<1> QED BY <1>1, <1>2, OperationRuns, PTL

\* A side effect on a portal happens once unless two jobs worked on its operation at
\* once: for any plan, runs and resumptions.
THEOREM PortalActsOnce == Spec => []EffectsAreNotReplayed
<1>1. WorkP!OperationSpec => []WorkP!EffectsAreNotReplayed
  BY OperationAssumed, OperationAlike, WorkP!EffectsHappenOnce
<1>2. service = "portal" /\ WorkP!EffectsAreNotReplayed => EffectsAreNotReplayed
  BY OperationAlike DEF EffectsAreNotReplayed
<1>3. ~(service = "portal") => EffectsAreNotReplayed
  BY DEF EffectsAreNotReplayed
<1> QED BY <1>1, <1>2, <1>3, OperationRuns, PTL

--------------------------------------------------------------------------------

LEMMA DriveAlike ==
  /\ (WorkP!DriveAssumption <=> Drive!DriveAssumption)
  /\ (WorkP!DriveInit <=> Drive!DriveInit)
  /\ (WorkP!DriveNext <=> Drive!DriveNext)
  /\ (WorkP!DriveTypeOK <=> Drive!DriveTypeOK)
  /\ (WorkP!ArchivedOnce <=> Drive!ArchivedOnce)
<1>1. WorkP!DriveAssumption <=> Drive!DriveAssumption
  BY DEF WorkP!DriveAssumption, Drive!DriveAssumption
<1>2. WorkP!DriveInit <=> Drive!DriveInit
  BY DEF WorkP!DriveInit, Drive!DriveInit, WorkP!Items, Drive!Items, WorkP!NoIngestion,
       Drive!NoIngestion
<1>3. WorkP!DriveNext <=> Drive!DriveNext
  BY DEF WorkP!DriveNext, Drive!DriveNext, WorkP!Ingest, Drive!Ingest,
       WorkP!PrepareIntent, Drive!PrepareIntent, WorkP!Reconcile, Drive!Reconcile,
       WorkP!ClaimIntent, Drive!ClaimIntent, WorkP!CreateItem, Drive!CreateItem,
       WorkP!BindCreated, Drive!BindCreated, WorkP!AllowAnotherCreate,
       Drive!AllowAnotherCreate, WorkP!RecordDoubt, Drive!RecordDoubt,
       WorkP!RecordDocument, Drive!RecordDocument, WorkP!TakeFinancialOwnership,
       Drive!TakeFinancialOwnership, WorkP!AbandonIngestion, Drive!AbandonIngestion,
       WorkP!IndexItem, Drive!IndexItem, WorkP!Turn, Drive!Turn, WorkP!NoIngestion,
       Drive!NoIngestion, WorkP!providerVars, Drive!providerVars, WorkP!documentVars,
       Drive!documentVars, WorkP!Resolved, Drive!Resolved, WorkP!Bind, Drive!Bind,
       WorkP!Items, Drive!Items
<1>4. WorkP!DriveTypeOK <=> Drive!DriveTypeOK
  BY DEF WorkP!DriveTypeOK, Drive!DriveTypeOK, WorkP!Items, Drive!Items,
       WorkP!IntentStates, Drive!IntentStates, WorkP!IngestPlaces, Drive!IngestPlaces
<1>5. WorkP!ArchivedOnce <=> Drive!ArchivedOnce
  BY DEF WorkP!ArchivedOnce, Drive!ArchivedOnce, WorkP!Items, Drive!Items
<1> QED BY <1>1, <1>2, <1>3, <1>4, <1>5

LEMMA DriveRuns ==
  /\ Spec /\ service = "drive" => WorkP!DriveSpec /\ [](service = "drive")
  /\ Spec /\ ~(service = "drive") => []~(service = "drive")
<1>1. Init /\ service = "drive" => WorkP!DriveInit
  BY DriveAlike DEF Init
<1>2. service = "drive" /\ [Next]_<<service, cells>>
        => [WorkP!DriveNext]_<<v1, v2, v3, v4, v5, v6, v7, v8>>
  <2> SUFFICES ASSUME service = "drive", Next PROVE Drive!DriveNext
    BY DriveAlike DEF cells
  <2> QED BY DEF Next, Only
<1>3. [Next]_<<service, cells>> => ((service = "drive")' <=> service = "drive")
  BY ServiceIsKept
<1> QED BY <1>1, <1>2, <1>3, PTL DEF Spec, WorkP!DriveSpec, WorkP!driveVars

LEMMA DriveTyped == Spec /\ service = "drive" => []TypesOK
<1>1. WorkP!DriveSpec => []WorkP!DriveTypeOK
  BY DriveAssumed, DriveAlike, WorkP!DriveTypes
<1>2. service = "drive" /\ WorkP!DriveTypeOK => TypesOK
  BY DriveAlike DEF TypesOK
<1> QED BY <1>1, <1>2, DriveRuns, PTL

\* One copy of every folder and file and one bill of every document, and what the
\* rows say exists on Drive: for any files and ingestions.
THEOREM DriveHoldsOneCopy == Spec => []ArchivedOnce
<1>1. WorkP!DriveSpec => []WorkP!ArchivedOnce
  BY DriveAssumed, DriveAlike, WorkP!DocumentsAreArchivedOnce
<1>2. service = "drive" /\ WorkP!ArchivedOnce => ArchivedOnce
  BY DriveAlike DEF ArchivedOnce
<1>3. ~(service = "drive") => ArchivedOnce
  BY DEF ArchivedOnce
<1> QED BY <1>1, <1>2, <1>3, DriveRuns, PTL

--------------------------------------------------------------------------------

LEMMA PurchaseAlike ==
  /\ (WorkP!PurchaseAssumption <=> Buying!PurchaseAssumption)
  /\ (WorkP!PurchaseInit <=> Buying!PurchaseInit)
  /\ (WorkP!PurchaseNext <=> Buying!PurchaseNext)
  /\ (WorkP!PurchaseTypeOK <=> Buying!PurchaseTypeOK)
  /\ (WorkP!PurchaseIsOnce <=> Buying!PurchaseIsOnce)
<1>1. WorkP!PurchaseAssumption <=> Buying!PurchaseAssumption
  BY DEF WorkP!PurchaseAssumption, Buying!PurchaseAssumption
<1>2. WorkP!PurchaseInit <=> Buying!PurchaseInit
  BY DEF WorkP!PurchaseInit, Buying!PurchaseInit, WorkP!NewRequest, Buying!NewRequest,
       WorkP!AtEase, Buying!AtEase
<1>3. WorkP!PurchaseNext <=> Buying!PurchaseNext
  BY DEF WorkP!PurchaseNext, Buying!PurchaseNext, WorkP!LoadPurchase,
       Buying!LoadPurchase, WorkP!AuthorizePurchase, Buying!AuthorizePurchase,
       WorkP!EnsureAction, Buying!EnsureAction, WorkP!ObserveAction,
       Buying!ObserveAction, WorkP!EnqueueOrder, Buying!EnqueueOrder,
       WorkP!DispatchFails, Buying!DispatchFails, WorkP!RunBreaks, Buying!RunBreaks,
       WorkP!FulfillerDies, Buying!FulfillerDies, WorkP!PolicyAnswers,
       Buying!PolicyAnswers, WorkP!DispatchAction, Buying!DispatchAction,
       WorkP!CancelPurchase, Buying!CancelPurchase, WorkP!OrderRuns, Buying!OrderRuns,
       WorkP!OrderResumed, Buying!OrderResumed, WorkP!ApproveOrder, Buying!ApproveOrder,
       WorkP!Holding, Buying!Holding, WorkP!TerminalRequestStates,
       Buying!TerminalRequestStates, WorkP!AtEase, Buying!AtEase, WorkP!OpenAction,
       Buying!OpenAction, WorkP!NewDeed, Buying!NewDeed, WorkP!Overtakes,
       Buying!Overtakes, WorkP!SaveBoth, Buying!SaveBoth, WorkP!Leave, Buying!Leave,
       WorkP!Prepared, Buying!Prepared, WorkP!NewRequest, Buying!NewRequest,
       WorkP!ClosedActions, Buying!ClosedActions
<1>4. WorkP!PurchaseTypeOK <=> Buying!PurchaseTypeOK
  BY DEF WorkP!PurchaseTypeOK, Buying!PurchaseTypeOK, WorkP!Requests, Buying!Requests,
       WorkP!Deeds, Buying!Deeds, WorkP!RequestStates, Buying!RequestStates,
       WorkP!PortalStates, Buying!PortalStates, WorkP!TerminalRequestStates,
       Buying!TerminalRequestStates
<1>5. WorkP!PurchaseIsOnce <=> Buying!PurchaseIsOnce
  BY DEF WorkP!PurchaseIsOnce, Buying!PurchaseIsOnce, WorkP!Cardinality,
       Buying!Cardinality
<1> QED BY <1>1, <1>2, <1>3, <1>4, <1>5

LEMMA PurchaseRuns ==
  /\ Spec /\ service = "purchase" => WorkP!PurchaseSpec /\ [](service = "purchase")
  /\ Spec /\ ~(service = "purchase") => []~(service = "purchase")
<1>1. Init /\ service = "purchase" => WorkP!PurchaseInit
  BY PurchaseAlike DEF Init
<1>2. service = "purchase" /\ [Next]_<<service, cells>>
        => [WorkP!PurchaseNext]_<<v1, v2, v3, v4, v5>>
  <2> SUFFICES ASSUME service = "purchase", Next PROVE Buying!PurchaseNext
    BY PurchaseAlike DEF cells
  <2> QED BY DEF Next, Only
<1>3. [Next]_<<service, cells>> => ((service = "purchase")' <=> service = "purchase")
  BY ServiceIsKept
<1> QED BY <1>1, <1>2, <1>3, PTL DEF Spec, WorkP!PurchaseSpec, WorkP!purchaseVars

LEMMA PurchaseTyped == Spec /\ service = "purchase" => []TypesOK
<1>1. WorkP!PurchaseSpec => []WorkP!PurchaseTypeOK
  BY BuyingAssumed, PurchaseAlike, WorkP!PurchaseTypes
<1>2. service = "purchase" /\ WorkP!PurchaseTypeOK => TypesOK
  BY PurchaseAlike DEF TypesOK
<1> QED BY <1>1, <1>2, PurchaseRuns, PTL

\* A request is ordered once and only in an approved operation, unless a run acted
\* on a request that another had settled meanwhile: for any turns, runs and actions.
THEOREM RequestIsOrderedOnce == Spec => []PurchaseIsOnce
<1>1. WorkP!PurchaseSpec => []WorkP!PurchaseIsOnce
  BY BuyingAssumed, PurchaseAlike, WorkP!PurchaseOrderedOnce
<1>2. service = "purchase" /\ WorkP!PurchaseIsOnce => PurchaseIsOnce
  BY PurchaseAlike DEF PurchaseIsOnce
<1>3. ~(service = "purchase") => PurchaseIsOnce
  BY DEF PurchaseIsOnce
<1> QED BY <1>1, <1>2, <1>3, PurchaseRuns, PTL

--------------------------------------------------------------------------------

LEMMA LedgerAlike ==
  /\ (WorkP!LedgerAssumption <=> Ledger!LedgerAssumption)
  /\ (WorkP!LedgerInit <=> Ledger!LedgerInit)
  /\ (WorkP!LedgerNext <=> Ledger!LedgerNext)
  /\ (WorkP!LedgerTypeOK <=> Ledger!LedgerTypeOK)
  /\ (WorkP!ClearMoneyCountsOnce <=> Ledger!ClearMoneyCountsOnce)
<1>1. WorkP!LedgerAssumption <=> Ledger!LedgerAssumption
  BY DEF WorkP!LedgerAssumption, Ledger!LedgerAssumption, WorkP!Cardinality,
       Ledger!Cardinality, WorkP!IsFiniteSet, Ledger!IsFiniteSet, WorkP!Rows,
       Ledger!Rows
<1>2. WorkP!LedgerInit <=> Ledger!LedgerInit
  BY DEF WorkP!LedgerInit, Ledger!LedgerInit, WorkP!Unoccupied, Ledger!Unoccupied
<1>3. WorkP!LedgerNext <=> Ledger!LedgerNext
  BY DEF WorkP!LedgerNext, Ledger!LedgerNext, WorkP!ConnectBank, Ledger!ConnectBank,
       WorkP!ImportStatement, Ledger!ImportStatement, WorkP!MergeStatement,
       Ledger!MergeStatement, WorkP!EnrichRows, Ledger!EnrichRows,
       WorkP!FetchTransactions, Ledger!FetchTransactions, WorkP!StoreTransactions,
       Ledger!StoreTransactions, WorkP!ReadTransactions, Ledger!ReadTransactions,
       WorkP!ResortTransactions, Ledger!ResortTransactions, WorkP!AttachStatements,
       Ledger!AttachStatements, WorkP!ReadRows, Ledger!ReadRows, WorkP!SortRows,
       Ledger!SortRows, WorkP!FindPairs, Ledger!FindPairs, WorkP!MarkPairs,
       Ledger!MarkPairs, WorkP!ReadMatches, Ledger!ReadMatches, WorkP!SpreadInternal,
       Ledger!SpreadInternal, WorkP!MatchRows, Ledger!MatchRows, WorkP!MatchRow,
       Ledger!MatchRow, WorkP!StoreMatches, Ledger!StoreMatches, WorkP!PassFails,
       Ledger!PassFails, WorkP!rowVars, Ledger!rowVars, WorkP!Start, Ledger!Start,
       WorkP!Listed, Ledger!Listed, WorkP!Planned, Ledger!Planned, WorkP!MoveOn,
       Ledger!MoveOn, WorkP!BreakOff, Ledger!BreakOff, WorkP!Proceed, Ledger!Proceed,
       WorkP!Pairings, Ledger!Pairings, WorkP!Rows, Ledger!Rows, WorkP!Records,
       Ledger!Records, WorkP!AsInHistory, Ledger!AsInHistory, WorkP!BestOf,
       Ledger!BestOf, WorkP!Taken, Ledger!Taken, WorkP!Unoccupied, Ledger!Unoccupied,
       WorkP!Idle, Ledger!Idle, WorkP!Working, Ledger!Working, WorkP!Pairs, Ledger!Pairs
<1>4. WorkP!LedgerTypeOK <=> Ledger!LedgerTypeOK
  BY DEF WorkP!LedgerTypeOK, Ledger!LedgerTypeOK, WorkP!LiveRows, Ledger!LiveRows,
       WorkP!Listed, Ledger!Listed, WorkP!KeeperPlaces, Ledger!KeeperPlaces
<1>5. WorkP!ClearMoneyCountsOnce <=> Ledger!ClearMoneyCountsOnce
  BY DEF WorkP!ClearMoneyCountsOnce, Ledger!ClearMoneyCountsOnce, WorkP!IsKnown,
       Ledger!IsKnown, WorkP!ToldApart, Ledger!ToldApart, WorkP!IsPaired,
       Ledger!IsPaired, WorkP!Evidence, Ledger!Evidence, WorkP!Cardinality,
       Ledger!Cardinality, WorkP!Working, Ledger!Working, WorkP!IsClear, Ledger!IsClear,
       WorkP!Showing, Ledger!Showing, WorkP!Rows, Ledger!Rows, WorkP!Pairs,
       Ledger!Pairs, WorkP!Records, Ledger!Records, WorkP!Idle, Ledger!Idle,
       WorkP!Listed, Ledger!Listed
<1> QED BY <1>1, <1>2, <1>3, <1>4, <1>5

LEMMA LedgerRuns ==
  /\ Spec /\ service = "ledger" => WorkP!LedgerSpec /\ [](service = "ledger")
  /\ Spec /\ ~(service = "ledger") => []~(service = "ledger")
<1>1. Init /\ service = "ledger" => WorkP!LedgerInit
  BY LedgerAlike DEF Init
<1>2. service = "ledger" /\ [Next]_<<service, cells>>
        => [WorkP!LedgerNext]_<<v1, v2, v3, v4, v5, v6, v7, v8, v9>>
  <2> SUFFICES ASSUME service = "ledger", Next PROVE Ledger!LedgerNext
    BY LedgerAlike DEF cells
  <2> QED BY DEF Next, Only
<1>3. [Next]_<<service, cells>> => ((service = "ledger")' <=> service = "ledger")
  BY ServiceIsKept
<1> QED BY <1>1, <1>2, <1>3, PTL DEF Spec, WorkP!LedgerSpec, WorkP!ledgerVars

LEMMA LedgerTyped == Spec /\ service = "ledger" => []TypesOK
<1>1. WorkP!LedgerSpec => []WorkP!LedgerTypeOK
  BY LedgerAssumed, LedgerAlike, WorkP!LedgerTypes
<1>2. service = "ledger" /\ WorkP!LedgerTypeOK => TypesOK
  BY LedgerAlike DEF TypesOK
<1> QED BY <1>1, <1>2, LedgerRuns, PTL

\* After a pass that ran alone every movement that its rows make clear counts once,
\* and one between own accounts not at all: for any movements, statements, rows,
\* likeness and sessions.
THEOREM LedgerCountsClearMoneyOnce == Spec => []ClearMoneyCountsOnce
<1>1. WorkP!LedgerSpec => []WorkP!ClearMoneyCountsOnce
  BY LedgerAssumed, LedgerAlike, WorkP!ClearMoneyIsCountedOnce
<1>2. service = "ledger" /\ WorkP!ClearMoneyCountsOnce => ClearMoneyCountsOnce
  BY LedgerAlike DEF ClearMoneyCountsOnce
<1>3. ~(service = "ledger") => ClearMoneyCountsOnce
  BY DEF ClearMoneyCountsOnce
<1> QED BY <1>1, <1>2, <1>3, LedgerRuns, PTL

--------------------------------------------------------------------------------
(***************************************************************************)
(* What is done in the name of the owner                                   *)
(***************************************************************************)

OwnerP == INSTANCE Owner_proofs
     WITH profile <- v1, hosted <- v2, reading <- v3, duty <- v4, filings <- v5,
          formOp <- v6, clerk <- v7, delivered <- v8, retaken <- v9, contribution <- v1,
          debitOf <- v2, transit <- v3, buys <- v4, investor <- v5, jostled <- v6,
          case <- v1, draft <- v2, replyPlan <- v3, uses <- v4, decider <- v5,
          granted <- v6, declined <- v7, crossed <- v8, crowded <- v9, objective <- v1,
          plan <- v2, chaser <- v3, thread <- v4, events <- v5, answers <- v6, stage <- v7,
          batch <- v8, source <- v1, papers <- v2, fetcher <- v3, archive <- v4,
          arrived <- v5, work <- v1, run <- v2, step <- v3, manual <- v4, repaired <- v5,
          early <- v6, row <- v1, event <- v2, prompt <- v3, cycle <- v4, shown <- v5,
          current <- v6

LEMMA FormAlike ==
  /\ (OwnerP!FormAssumption <=> Form!FormAssumption)
  /\ (OwnerP!FormInit <=> Form!FormInit)
  /\ (OwnerP!FormNext <=> Form!FormNext)
  /\ (OwnerP!FormTypeOK <=> Form!FormTypeOK)
  /\ (OwnerP!FormFiledOnce <=> Form!FormFiledOnce)
<1>1. OwnerP!FormAssumption <=> Form!FormAssumption
  BY DEF OwnerP!FormAssumption, Form!FormAssumption
<1>2. OwnerP!FormInit <=> Form!FormInit
  BY DEF OwnerP!FormInit, Form!FormInit, OwnerP!Away, Form!Away
<1>3. OwnerP!FormNext <=> Form!FormNext
  BY DEF OwnerP!FormNext, Form!FormNext, OwnerP!TakeDocument, Form!TakeDocument,
       OwnerP!ReadDocument, Form!ReadDocument, OwnerP!FillForm, Form!FillForm,
       OwnerP!FileForm, Form!FileForm, OwnerP!GiveFormUp, Form!GiveFormUp,
       OwnerP!LoadDuty, Form!LoadDuty, OwnerP!SyncFiled, Form!SyncFiled,
       OwnerP!RunFiling, Form!RunFiling, OwnerP!ResumeFiling, Form!ResumeFiling,
       OwnerP!ChangeProfile, Form!ChangeProfile, OwnerP!AddPortal, Form!AddPortal,
       OwnerP!Clerk, Form!Clerk, OwnerP!Away, Form!Away, OwnerP!Stamp, Form!Stamp,
       OwnerP!LacksData, Form!LacksData, OwnerP!Outcome, Form!Outcome
<1>4. OwnerP!FormTypeOK <=> Form!FormTypeOK
  BY DEF OwnerP!FormTypeOK, Form!FormTypeOK, OwnerP!ProfileRows, Form!ProfileRows,
       OwnerP!Readings, Form!Readings, OwnerP!Duties, Form!Duties, OwnerP!FormOpStates,
       Form!FormOpStates, OwnerP!ClerkPlaces, Form!ClerkPlaces, OwnerP!DutyStates,
       Form!DutyStates
<1>5. OwnerP!FormFiledOnce <=> Form!FormFiledOnce
  BY DEF OwnerP!FormFiledOnce, Form!FormFiledOnce, OwnerP!Cardinality, Form!Cardinality
<1> QED BY <1>1, <1>2, <1>3, <1>4, <1>5

LEMMA FormRuns ==
  /\ Spec /\ service = "form" => OwnerP!FormSpec /\ [](service = "form")
  /\ Spec /\ ~(service = "form") => []~(service = "form")
<1>1. Init /\ service = "form" => OwnerP!FormInit
  BY FormAlike DEF Init
<1>2. service = "form" /\ [Next]_<<service, cells>>
        => [OwnerP!FormNext]_<<v1, v2, v3, v4, v5, v6, v7, v8, v9>>
  <2> SUFFICES ASSUME service = "form", Next PROVE Form!FormNext
    BY FormAlike DEF cells
  <2> QED BY DEF Next, Only
<1>3. [Next]_<<service, cells>> => ((service = "form")' <=> service = "form")
  BY ServiceIsKept
<1> QED BY <1>1, <1>2, <1>3, PTL DEF Spec, OwnerP!FormSpec, OwnerP!formVars

LEMMA FormTyped == Spec /\ service = "form" => []TypesOK
<1>1. OwnerP!FormSpec => []OwnerP!FormTypeOK
  BY FormAssumed, FormAlike, OwnerP!FormTypes
<1>2. service = "form" /\ OwnerP!FormTypeOK => TypesOK
  BY FormAlike DEF TypesOK
<1> QED BY <1>1, <1>2, FormRuns, PTL

\* A portal receives a form once unless its obligation was prepared twice, and what
\* is called completed was received: for any profiles and clerks.
THEOREM PortalReceivesFormOnce == Spec => []FormFiledOnce
<1>1. OwnerP!FormSpec => []OwnerP!FormFiledOnce
  BY FormAssumed, FormAlike, OwnerP!FormIsFiledOnce
<1>2. service = "form" /\ OwnerP!FormFiledOnce => FormFiledOnce
  BY FormAlike DEF FormFiledOnce
<1>3. ~(service = "form") => FormFiledOnce
  BY DEF FormFiledOnce
<1> QED BY <1>1, <1>2, <1>3, FormRuns, PTL

--------------------------------------------------------------------------------

LEMMA InvestmentAlike ==
  /\ (OwnerP!InvestmentAssumption <=> Investing!InvestmentAssumption)
  /\ (OwnerP!InvestmentInit <=> Investing!InvestmentInit)
  /\ (OwnerP!InvestmentNext <=> Investing!InvestmentNext)
  /\ (OwnerP!InvestmentTypeOK <=> Investing!InvestmentTypeOK)
  /\ (OwnerP!InvestedOnce <=> Investing!InvestedOnce)
<1>1. OwnerP!InvestmentAssumption <=> Investing!InvestmentAssumption
  BY DEF OwnerP!InvestmentAssumption, Investing!InvestmentAssumption
<1>2. OwnerP!InvestmentInit <=> Investing!InvestmentInit
  BY DEF OwnerP!InvestmentInit, Investing!InvestmentInit, OwnerP!NoRow, Investing!NoRow,
       OwnerP!Uninvested, Investing!Uninvested
<1>3. OwnerP!InvestmentNext <=> Investing!InvestmentNext
  BY DEF OwnerP!InvestmentNext, Investing!InvestmentNext, OwnerP!PlanContribution,
       Investing!PlanContribution, OwnerP!Cardinality, Investing!Cardinality,
       OwnerP!InsertContribution, Investing!InsertContribution, OwnerP!PostContribution,
       Investing!PostContribution, OwnerP!AnswerContribution,
       Investing!AnswerContribution, OwnerP!ReviewContribution,
       Investing!ReviewContribution, OwnerP!AuthorizationDone,
       Investing!AuthorizationDone, OwnerP!PollPayment, Investing!PollPayment,
       OwnerP!WritePaymentStatus, Investing!WritePaymentStatus, OwnerP!MatchDebit,
       Investing!MatchDebit, OwnerP!BindDebit, Investing!BindDebit, OwnerP!CheckDeposit,
       Investing!CheckDeposit, OwnerP!KeepCash, Investing!KeepCash, OwnerP!PrepareTrade,
       Investing!PrepareTrade, OwnerP!SubmitTrade, Investing!SubmitTrade,
       OwnerP!DeferBuy, Investing!DeferBuy, OwnerP!PlaceOrder, Investing!PlaceOrder,
       OwnerP!NoteOrder, Investing!NoteOrder, OwnerP!TraceOrder, Investing!TraceOrder,
       OwnerP!WriteTrace, Investing!WriteTrace, OwnerP!CrashInvestor,
       Investing!CrashInvestor, OwnerP!AuthorizationDenied,
       Investing!AuthorizationDenied, OwnerP!MoneyMoves, Investing!MoneyMoves,
       OwnerP!Stands, Investing!Stands, OwnerP!ActiveContributions,
       Investing!ActiveContributions, OwnerP!Committed, Investing!Committed,
       OwnerP!SetInvestor, Investing!SetInvestor, OwnerP!Uninvested,
       Investing!Uninvested, OwnerP!NoRow, Investing!NoRow, OwnerP!SetStatus,
       Investing!SetStatus, OwnerP!Rest, Investing!Rest, OwnerP!TakeUp,
       Investing!TakeUp, OwnerP!FirstStep, Investing!FirstStep, OwnerP!FreeDebits,
       Investing!FreeDebits, OwnerP!SetTrade, Investing!SetTrade,
       OwnerP!SettledContributions, Investing!SettledContributions
<1>4. OwnerP!InvestmentTypeOK <=> Investing!InvestmentTypeOK
  BY DEF OwnerP!InvestmentTypeOK, Investing!InvestmentTypeOK, OwnerP!ContributionStates,
       Investing!ContributionStates, OwnerP!TradeStates, Investing!TradeStates,
       OwnerP!TransitStates, Investing!TransitStates, OwnerP!InvestorPlaces,
       Investing!InvestorPlaces, OwnerP!SettledContributions,
       Investing!SettledContributions, OwnerP!ActiveContributions,
       Investing!ActiveContributions
<1>5. OwnerP!InvestedOnce <=> Investing!InvestedOnce
  BY DEF OwnerP!InvestedOnce, Investing!InvestedOnce
<1> QED BY <1>1, <1>2, <1>3, <1>4, <1>5

LEMMA InvestmentRuns ==
  /\ Spec /\ service = "investment" => OwnerP!InvestmentSpec /\ [](service = "investment")
  /\ Spec /\ ~(service = "investment") => []~(service = "investment")
<1>1. Init /\ service = "investment" => OwnerP!InvestmentInit
  BY InvestmentAlike DEF Init
<1>2. service = "investment" /\ [Next]_<<service, cells>>
        => [OwnerP!InvestmentNext]_<<v1, v2, v3, v4, v5, v6>>
  <2> SUFFICES ASSUME service = "investment", Next PROVE Investing!InvestmentNext
    BY InvestmentAlike DEF cells
  <2> QED BY DEF Next, Only
<1>3. [Next]_<<service, cells>> => ((service = "investment")' <=> service = "investment")
  BY ServiceIsKept
<1> QED BY <1>1, <1>2, <1>3, PTL DEF Spec, OwnerP!InvestmentSpec, OwnerP!investmentVars

LEMMA InvestmentTyped == Spec /\ service = "investment" => []TypesOK
<1>1. OwnerP!InvestmentSpec => []OwnerP!InvestmentTypeOK
  BY InvestingAssumed, InvestmentAlike, OwnerP!InvestmentTypes
<1>2. service = "investment" /\ OwnerP!InvestmentTypeOK => TypesOK
  BY InvestmentAlike DEF TypesOK
<1> QED BY <1>1, <1>2, InvestmentRuns, PTL

\* A contribution buys once and is invested only with an order, unless two passes
\* had it in hand: for any contributions, passes and target.
THEOREM ContributionBuysOnce == Spec => []InvestedOnce
<1>1. OwnerP!InvestmentSpec => []OwnerP!InvestedOnce
  BY InvestingAssumed, InvestmentAlike, OwnerP!ContributionInvestedOnce
<1>2. service = "investment" /\ OwnerP!InvestedOnce => InvestedOnce
  BY InvestmentAlike DEF InvestedOnce
<1>3. ~(service = "investment") => InvestedOnce
  BY DEF InvestedOnce
<1> QED BY <1>1, <1>2, <1>3, InvestmentRuns, PTL

--------------------------------------------------------------------------------

LEMMA AuthorizationAlike ==
  /\ (OwnerP!AuthorizationAssumption <=> Deciding!AuthorizationAssumption)
  /\ (OwnerP!AuthorizationInit <=> Deciding!AuthorizationInit)
  /\ (OwnerP!AuthorizationNext <=> Deciding!AuthorizationNext)
  /\ (OwnerP!AuthorizationTypeOK <=> Deciding!AuthorizationTypeOK)
  /\ (OwnerP!RepliesAreAsDecided <=> Deciding!RepliesAreAsDecided)
<1>1. OwnerP!AuthorizationAssumption <=> Deciding!AuthorizationAssumption
  BY DEF OwnerP!AuthorizationAssumption, Deciding!AuthorizationAssumption,
       OwnerP!IsFiniteSet, Deciding!IsFiniteSet
<1>2. OwnerP!AuthorizationInit <=> Deciding!AuthorizationInit
  BY DEF OwnerP!AuthorizationInit, Deciding!AuthorizationInit, OwnerP!Undecided,
       Deciding!Undecided, OwnerP!NoPlan, Deciding!NoPlan, OwnerP!Off, Deciding!Off,
       OwnerP!NoPicks, Deciding!NoPicks
<1>3. OwnerP!AuthorizationNext <=> Deciding!AuthorizationNext
  BY DEF OwnerP!AuthorizationNext, Deciding!AuthorizationNext, OwnerP!Authorize,
       Deciding!Authorize, OwnerP!Decline, Deciding!Decline, OwnerP!EndAuthorize,
       Deciding!EndAuthorize, OwnerP!EndDecline, Deciding!EndDecline, OwnerP!StartSweep,
       Deciding!StartSweep, OwnerP!Consider, Deciding!Consider, OwnerP!QueueFails,
       Deciding!QueueFails, OwnerP!CommitSweep, Deciding!CommitSweep,
       OwnerP!DeciderDies, Deciding!DeciderDies, OwnerP!Redraft, Deciding!Redraft,
       OwnerP!CurrentView, Deciding!CurrentView, OwnerP!Pick, Deciding!Pick,
       OwnerP!CommitPicks, Deciding!CommitPicks, OwnerP!Cardinality,
       Deciding!Cardinality, OwnerP!Off, Deciding!Off, OwnerP!NoPicks, Deciding!NoPicks,
       OwnerP!Awaits, Deciding!Awaits, OwnerP!BelowCap, Deciding!BelowCap, OwnerP!After,
       Deciding!After, OwnerP!NoPlan, Deciding!NoPlan, OwnerP!Undecided,
       Deciding!Undecided, OwnerP!OpenTasks, Deciding!OpenTasks, OwnerP!Usage,
       Deciding!Usage
<1>4. OwnerP!AuthorizationTypeOK <=> Deciding!AuthorizationTypeOK
  BY DEF OwnerP!AuthorizationTypeOK, Deciding!AuthorizationTypeOK, OwnerP!ProposalCases,
       Deciding!ProposalCases, OwnerP!NoPlan, Deciding!NoPlan, OwnerP!OpenTasks,
       Deciding!OpenTasks
<1>5. OwnerP!RepliesAreAsDecided <=> Deciding!RepliesAreAsDecided
  BY DEF OwnerP!RepliesAreAsDecided, Deciding!RepliesAreAsDecided, OwnerP!NoPlan,
       Deciding!NoPlan
<1> QED BY <1>1, <1>2, <1>3, <1>4, <1>5

LEMMA AuthorizationRuns ==
  /\ Spec /\ service = "authorization" => OwnerP!AuthorizationSpec /\ [](service = "authorization")
  /\ Spec /\ ~(service = "authorization") => []~(service = "authorization")
<1>1. Init /\ service = "authorization" => OwnerP!AuthorizationInit
  BY AuthorizationAlike DEF Init
<1>2. service = "authorization" /\ [Next]_<<service, cells>>
        => [OwnerP!AuthorizationNext]_<<v1, v2, v3, v4, v5, v6, v7, v8, v9>>
  <2> SUFFICES ASSUME service = "authorization", Next PROVE Deciding!AuthorizationNext
    BY AuthorizationAlike DEF cells
  <2> QED BY DEF Next, Only
<1>3. [Next]_<<service, cells>> => ((service = "authorization")' <=> service = "authorization")
  BY ServiceIsKept
<1> QED BY <1>1, <1>2, <1>3, PTL DEF Spec, OwnerP!AuthorizationSpec, OwnerP!authorizationVars

LEMMA AuthorizationTyped == Spec /\ service = "authorization" => []TypesOK
<1>1. OwnerP!AuthorizationSpec => []OwnerP!AuthorizationTypeOK
  BY DecidingAssumed, AuthorizationAlike, OwnerP!AuthorizationTypes
<1>2. service = "authorization" /\ OwnerP!AuthorizationTypeOK => TypesOK
  BY AuthorizationAlike DEF TypesOK
<1> QED BY <1>1, <1>2, AuthorizationRuns, PTL

\* A declined reply is not planned unless the decisions crossed, what goes out on
\* the owner's word is the text that he was shown, and a standing authority stays
\* within its uses a day unless two cycles count at once: for any proposals, drafts
\* and limit.
THEOREM OwnerIsObeyed == Spec => []RepliesAreAsDecided
<1>1. OwnerP!AuthorizationSpec => []OwnerP!RepliesAreAsDecided
  BY DecidingAssumed, AuthorizationAlike, OwnerP!DecisionsAreKept
<1>2. service = "authorization" /\ OwnerP!RepliesAreAsDecided => RepliesAreAsDecided
  BY AuthorizationAlike DEF RepliesAreAsDecided
<1>3. ~(service = "authorization") => RepliesAreAsDecided
  BY DEF RepliesAreAsDecided
<1> QED BY <1>1, <1>2, <1>3, AuthorizationRuns, PTL

--------------------------------------------------------------------------------

LEMMA ObjectiveAlike ==
  /\ (OwnerP!ObjectiveAssumption <=> Objective!ObjectiveAssumption)
  /\ (OwnerP!ObjectiveInit <=> Objective!ObjectiveInit)
  /\ (OwnerP!ObjectiveNext <=> Objective!ObjectiveNext)
  /\ (OwnerP!ObjectiveTypeOK <=> Objective!ObjectiveTypeOK)
  /\ (OwnerP!ChasedUntilAnswered <=> Objective!ChasedUntilAnswered)
<1>1. OwnerP!ObjectiveAssumption <=> Objective!ObjectiveAssumption
  BY DEF OwnerP!ObjectiveAssumption, Objective!ObjectiveAssumption
<1>2. OwnerP!ObjectiveInit <=> Objective!ObjectiveInit
  BY DEF OwnerP!ObjectiveInit, Objective!ObjectiveInit, OwnerP!NewStep,
       Objective!NewStep
<1>3. OwnerP!ObjectiveNext <=> Objective!ObjectiveNext
  BY DEF OwnerP!ObjectiveNext, Objective!ObjectiveNext, OwnerP!EnterStage,
       Objective!EnterStage, OwnerP!CoreDies, Objective!CoreDies, OwnerP!HandleAnswer,
       Objective!HandleAnswer, OwnerP!HandleChase, Objective!HandleChase,
       OwnerP!ReadDue, Objective!ReadDue, OwnerP!RecordDue, Objective!RecordDue,
       OwnerP!StartStep, Objective!StartStep, OwnerP!EndStep, Objective!EndStep,
       OwnerP!VerifyMessage, Objective!VerifyMessage, OwnerP!AnswerArrives,
       Objective!AnswerArrives, OwnerP!Handled, Objective!Handled, OwnerP!Cancelled,
       Objective!Cancelled, OwnerP!WaitsOver, Objective!WaitsOver, OwnerP!AfterAnswer,
       Objective!AfterAnswer, OwnerP!NewStep, Objective!NewStep, OwnerP!Ready,
       Objective!Ready, OwnerP!ChaseNext, Objective!ChaseNext, OwnerP!Rescheduled,
       Objective!Rescheduled, OwnerP!Ongoing, Objective!Ongoing
<1>4. OwnerP!ObjectiveTypeOK <=> Objective!ObjectiveTypeOK
  BY DEF OwnerP!ObjectiveTypeOK, Objective!ObjectiveTypeOK, OwnerP!ObjectiveStates,
       Objective!ObjectiveStates, OwnerP!PlanSteps, Objective!PlanSteps, OwnerP!Chasers,
       Objective!Chasers, OwnerP!CoreEvents, Objective!CoreEvents, OwnerP!Stages,
       Objective!Stages, OwnerP!Ongoing, Objective!Ongoing, OwnerP!StepStates,
       Objective!StepStates
<1>5. OwnerP!ChasedUntilAnswered <=> Objective!ChasedUntilAnswered
  BY DEF OwnerP!ChasedUntilAnswered, Objective!ChasedUntilAnswered, OwnerP!Sends,
       Objective!Sends
<1> QED BY <1>1, <1>2, <1>3, <1>4, <1>5

LEMMA ObjectiveRuns ==
  /\ Spec /\ service = "objective" => OwnerP!ObjectiveSpec /\ [](service = "objective")
  /\ Spec /\ ~(service = "objective") => []~(service = "objective")
<1>1. Init /\ service = "objective" => OwnerP!ObjectiveInit
  BY ObjectiveAlike DEF Init
<1>2. service = "objective" /\ [Next]_<<service, cells>>
        => [OwnerP!ObjectiveNext]_<<v1, v2, v3, v4, v5, v6, v7, v8>>
  <2> SUFFICES ASSUME service = "objective", Next PROVE Objective!ObjectiveNext
    BY ObjectiveAlike DEF cells
  <2> QED BY DEF Next, Only
<1>3. [Next]_<<service, cells>> => ((service = "objective")' <=> service = "objective")
  BY ServiceIsKept
<1> QED BY <1>1, <1>2, <1>3, PTL DEF Spec, OwnerP!ObjectiveSpec, OwnerP!objectiveVars

LEMMA ObjectiveTyped == Spec /\ service = "objective" => []TypesOK
<1>1. OwnerP!ObjectiveSpec => []OwnerP!ObjectiveTypeOK
  BY ObjectiveAssumed, ObjectiveAlike, OwnerP!ObjectiveTypes
<1>2. service = "objective" /\ OwnerP!ObjectiveTypeOK => TypesOK
  BY ObjectiveAlike DEF TypesOK
<1> QED BY <1>1, <1>2, ObjectiveRuns, PTL

\* A completed e-mail objective has no unverified message, one that waits is waited
\* for, and each attempt is chased once, within the limit: for any limits of chases,
\* tries and answers.
THEOREM AnswersAreChased == Spec => []ChasedUntilAnswered
<1>1. OwnerP!ObjectiveSpec => []OwnerP!ChasedUntilAnswered
  BY ObjectiveAssumed, ObjectiveAlike, OwnerP!ConversationsAreChased
<1>2. service = "objective" /\ OwnerP!ChasedUntilAnswered => ChasedUntilAnswered
  BY ObjectiveAlike DEF ChasedUntilAnswered
<1>3. ~(service = "objective") => ChasedUntilAnswered
  BY DEF ChasedUntilAnswered
<1> QED BY <1>1, <1>2, <1>3, ObjectiveRuns, PTL

--------------------------------------------------------------------------------

LEMMA PapersAlike ==
  /\ (OwnerP!PaperAssumption <=> Portals!PaperAssumption)
  /\ (OwnerP!PaperInit <=> Portals!PaperInit)
  /\ (OwnerP!PaperNext <=> Portals!PaperNext)
  /\ (OwnerP!PaperTypeOK <=> Portals!PaperTypeOK)
  /\ (OwnerP!PortalDocumentsArrive <=> Portals!PortalDocumentsArrive)
<1>1. OwnerP!PaperAssumption <=> Portals!PaperAssumption
  BY DEF OwnerP!PaperAssumption, Portals!PaperAssumption
<1>2. OwnerP!PaperInit <=> Portals!PaperInit
  BY DEF OwnerP!PaperInit, Portals!PaperInit, OwnerP!Gone, Portals!Gone,
       OwnerP!Configured, Portals!Configured
<1>3. OwnerP!PaperNext <=> Portals!PaperNext
  BY DEF OwnerP!PaperNext, Portals!PaperNext, OwnerP!UpsertSource, Portals!UpsertSource,
       OwnerP!DeleteSource, Portals!DeleteSource, OwnerP!SetAuthCode,
       Portals!SetAuthCode, OwnerP!TestSource, Portals!TestSource, OwnerP!StartSync,
       Portals!StartSync, OwnerP!Challenged, Portals!Challenged, OwnerP!DiscoveryFails,
       Portals!DiscoveryFails, OwnerP!ListDocuments, Portals!ListDocuments,
       OwnerP!Cardinality, Portals!Cardinality, OwnerP!BeginDownload,
       Portals!BeginDownload, OwnerP!Downloaded, Portals!Downloaded, OwnerP!Ingest,
       Portals!Ingest, OwnerP!Ingested, Portals!Ingested, OwnerP!ItemFails,
       Portals!ItemFails, OwnerP!ItemChallenged, Portals!ItemChallenged,
       OwnerP!FinishSync, Portals!FinishSync, OwnerP!SessionDies, Portals!SessionDies,
       OwnerP!Configured, Portals!Configured, OwnerP!Gone, Portals!Gone,
       OwnerP!Challenges, Portals!Challenges, OwnerP!Fetching, Portals!Fetching,
       OwnerP!Fetcher, Portals!Fetcher, OwnerP!Row, Portals!Row, OwnerP!Changed,
       Portals!Changed, OwnerP!Leave, Portals!Leave, OwnerP!Listings, Portals!Listings,
       OwnerP!Resumable, Portals!Resumable, OwnerP!Columns, Portals!Columns
<1>4. OwnerP!PaperTypeOK <=> Portals!PaperTypeOK
  BY DEF OwnerP!PaperTypeOK, Portals!PaperTypeOK, OwnerP!SourceStates,
       Portals!SourceStates, OwnerP!Challenges, Portals!Challenges, OwnerP!PaperStates,
       Portals!PaperStates
<1>5. OwnerP!PortalDocumentsArrive <=> Portals!PortalDocumentsArrive
  BY DEF OwnerP!PortalDocumentsArrive, Portals!PortalDocumentsArrive
<1> QED BY <1>1, <1>2, <1>3, <1>4, <1>5

LEMMA PapersRuns ==
  /\ Spec /\ service = "papers" => OwnerP!PaperSpec /\ [](service = "papers")
  /\ Spec /\ ~(service = "papers") => []~(service = "papers")
<1>1. Init /\ service = "papers" => OwnerP!PaperInit
  BY PapersAlike DEF Init
<1>2. service = "papers" /\ [Next]_<<service, cells>>
        => [OwnerP!PaperNext]_<<v1, v2, v3, v4, v5>>
  <2> SUFFICES ASSUME service = "papers", Next PROVE Portals!PaperNext
    BY PapersAlike DEF cells
  <2> QED BY DEF Next, Only
<1>3. [Next]_<<service, cells>> => ((service = "papers")' <=> service = "papers")
  BY ServiceIsKept
<1> QED BY <1>1, <1>2, <1>3, PTL DEF Spec, OwnerP!PaperSpec, OwnerP!paperVars

LEMMA PapersTyped == Spec /\ service = "papers" => []TypesOK
<1>1. OwnerP!PaperSpec => []OwnerP!PaperTypeOK
  BY PortalsAssumed, PapersAlike, OwnerP!PaperTypes
<1>2. service = "papers" /\ OwnerP!PaperTypeOK => TypesOK
  BY PapersAlike DEF TypesOK
<1> QED BY <1>1, <1>2, PapersRuns, PTL

\* What a portal listed to a sync that took all of it and was clean is in the
\* archive, whatever other syncs do and wherever earlier ones broke off: for any
\* documents and sessions.
THEOREM PapersReachTheArchive == Spec => []PortalDocumentsArrive
<1>1. OwnerP!PaperSpec => []OwnerP!PortalDocumentsArrive
  BY PortalsAssumed, PapersAlike, OwnerP!ListedPapersArrive
<1>2. service = "papers" /\ OwnerP!PortalDocumentsArrive => PortalDocumentsArrive
  BY PapersAlike DEF PortalDocumentsArrive
<1>3. ~(service = "papers") => PortalDocumentsArrive
  BY DEF PortalDocumentsArrive
<1> QED BY <1>1, <1>2, <1>3, PapersRuns, PTL

--------------------------------------------------------------------------------

LEMMA RecoveryAlike ==
  /\ (OwnerP!RecoveryAssumption <=> Recovering!RecoveryAssumption)
  /\ (OwnerP!RecoveryInit <=> Recovering!RecoveryInit)
  /\ (OwnerP!RecoveryNext <=> Recovering!RecoveryNext)
  /\ (OwnerP!RecoveryTypeOK <=> Recovering!RecoveryTypeOK)
  /\ (OwnerP!DoneMeansDone <=> Recovering!DoneMeansDone)
<1>1. OwnerP!RecoveryAssumption <=> Recovering!RecoveryAssumption
  BY DEF OwnerP!RecoveryAssumption, Recovering!RecoveryAssumption, OwnerP!Parts,
       Recovering!Parts, OwnerP!Cadence, Recovering!Cadence
<1>2. OwnerP!RecoveryInit <=> Recovering!RecoveryInit
  BY DEF OwnerP!RecoveryInit, Recovering!RecoveryInit, OwnerP!Work, Recovering!Work,
       OwnerP!Cadence, Recovering!Cadence, OwnerP!Queued, Recovering!Queued,
       OwnerP!Parts, Recovering!Parts
<1>3. OwnerP!RecoveryNext <=> Recovering!RecoveryNext
  BY DEF OwnerP!RecoveryNext, Recovering!RecoveryNext, OwnerP!RequestRun,
       Recovering!RequestRun, OwnerP!StartRun, Recovering!StartRun, OwnerP!Dispatched,
       Recovering!Dispatched, OwnerP!DispatchFails, Recovering!DispatchFails,
       OwnerP!VerifyRun, Recovering!VerifyRun, OwnerP!ResumeRun, Recovering!ResumeRun,
       OwnerP!Compact, Recovering!Compact, OwnerP!Cardinality, Recovering!Cardinality,
       OwnerP!RecoverAll, Recovering!RecoverAll, OwnerP!Migrate, Recovering!Migrate,
       OwnerP!Work, Recovering!Work, OwnerP!JobEnds, Recovering!JobEnds, OwnerP!Enqueue,
       Recovering!Enqueue, OwnerP!RequeueLetter, Recovering!RequeueLetter,
       OwnerP!AutoRecover, Recovering!AutoRecover, OwnerP!DeadLetters,
       Recovering!DeadLetters, OwnerP!Parts, Recovering!Parts, OwnerP!RunJobs,
       Recovering!RunJobs, OwnerP!DoneElsewhere, Recovering!DoneElsewhere,
       OwnerP!UserLetters, Recovering!UserLetters, OwnerP!Requeue, Recovering!Requeue,
       OwnerP!Alike, Recovering!Alike, OwnerP!RefreshFor, Recovering!RefreshFor,
       OwnerP!NoDuplicates, Recovering!NoDuplicates, OwnerP!ConflictBacklog,
       Recovering!ConflictBacklog, OwnerP!ConnectorBacklog, Recovering!ConnectorBacklog,
       OwnerP!Type, Recovering!Type, OwnerP!Cadence, Recovering!Cadence, OwnerP!Classes,
       Recovering!Classes, OwnerP!Queued, Recovering!Queued, OwnerP!Again,
       Recovering!Again, OwnerP!Signature, Recovering!Signature, OwnerP!Refreshed,
       Recovering!Refreshed
<1>4. OwnerP!RecoveryTypeOK <=> Recovering!RecoveryTypeOK
  BY DEF OwnerP!RecoveryTypeOK, Recovering!RecoveryTypeOK, OwnerP!Work, Recovering!Work,
       OwnerP!Classes, Recovering!Classes, OwnerP!Parts, Recovering!Parts,
       OwnerP!Cadence, Recovering!Cadence
<1>5. OwnerP!DoneMeansDone <=> Recovering!DoneMeansDone
  BY DEF OwnerP!DoneMeansDone, Recovering!DoneMeansDone, OwnerP!RunJobs,
       Recovering!RunJobs, OwnerP!Parts, Recovering!Parts
<1> QED BY <1>1, <1>2, <1>3, <1>4, <1>5

LEMMA RecoveryRuns ==
  /\ Spec /\ service = "recovery" => OwnerP!RecoverySpec /\ [](service = "recovery")
  /\ Spec /\ ~(service = "recovery") => []~(service = "recovery")
<1>1. Init /\ service = "recovery" => OwnerP!RecoveryInit
  BY RecoveryAlike DEF Init
<1>2. service = "recovery" /\ [Next]_<<service, cells>>
        => [OwnerP!RecoveryNext]_<<v1, v2, v3, v4, v5, v6>>
  <2> SUFFICES ASSUME service = "recovery", Next PROVE Recovering!RecoveryNext
    BY RecoveryAlike DEF cells
  <2> QED BY DEF Next, Only
<1>3. [Next]_<<service, cells>> => ((service = "recovery")' <=> service = "recovery")
  BY ServiceIsKept
<1> QED BY <1>1, <1>2, <1>3, PTL DEF Spec, OwnerP!RecoverySpec, OwnerP!recoveryVars

LEMMA RecoveryTyped == Spec /\ service = "recovery" => []TypesOK
<1>1. OwnerP!RecoverySpec => []OwnerP!RecoveryTypeOK
  BY RecoveringAssumed, RecoveryAlike, OwnerP!RecoveryTypes
<1>2. service = "recovery" /\ OwnerP!RecoveryTypeOK => TypesOK
  BY RecoveryAlike DEF TypesOK
<1> QED BY <1>1, <1>2, RecoveryRuns, PTL

\* What recovery calls completed has all its jobs done, by themselves or by the ones
\* that replaced them: for any work and number of recoveries.
THEOREM RecoveredWorkIsDone == Spec => []DoneMeansDone
<1>1. OwnerP!RecoverySpec => []OwnerP!DoneMeansDone
  BY RecoveringAssumed, RecoveryAlike, OwnerP!DoneIsDone
<1>2. service = "recovery" /\ OwnerP!DoneMeansDone => DoneMeansDone
  BY RecoveryAlike DEF DoneMeansDone
<1>3. ~(service = "recovery") => DoneMeansDone
  BY DEF DoneMeansDone
<1> QED BY <1>1, <1>2, <1>3, RecoveryRuns, PTL

--------------------------------------------------------------------------------

LEMMA PromptsAlike ==
  /\ (OwnerP!PromptAssumption <=> Prompting!PromptAssumption)
  /\ (OwnerP!PromptInit <=> Prompting!PromptInit)
  /\ (OwnerP!PromptNext <=> Prompting!PromptNext)
  /\ (OwnerP!PromptTypeOK <=> Prompting!PromptTypeOK)
  /\ (OwnerP!PromptsAreCurrent <=> Prompting!PromptsAreCurrent)
<1>1. OwnerP!PromptAssumption <=> Prompting!PromptAssumption
  BY DEF OwnerP!PromptAssumption, Prompting!PromptAssumption
<1>2. OwnerP!PromptInit <=> Prompting!PromptInit
  BY DEF OwnerP!PromptInit, Prompting!PromptInit, OwnerP!Guarded, Prompting!Guarded,
       OwnerP!Periods, Prompting!Periods, OwnerP!Idle, Prompting!Idle
<1>3. OwnerP!PromptNext <=> Prompting!PromptNext
  BY DEF OwnerP!PromptNext, Prompting!PromptNext, OwnerP!PaymentMoves,
       Prompting!PaymentMoves, OwnerP!AuthorizePayment, Prompting!AuthorizePayment,
       OwnerP!TaskMoves, Prompting!TaskMoves, OwnerP!LetterMoves, Prompting!LetterMoves,
       OwnerP!RunsOut, Prompting!RunsOut, OwnerP!ReconnectBank, Prompting!ReconnectBank,
       OwnerP!ReconnectGoogle, Prompting!ReconnectGoogle, OwnerP!RunGuardian,
       Prompting!RunGuardian, OwnerP!Seed, Prompting!Seed, OwnerP!Process,
       Prompting!Process, OwnerP!ReconcileReads, Prompting!ReconcileReads,
       OwnerP!ReconcileWrites, Prompting!ReconcileWrites, OwnerP!RecoverLetter,
       Prompting!RecoverLetter, OwnerP!LetterResumes, Prompting!LetterResumes,
       OwnerP!SecondPass, Prompting!SecondPass, OwnerP!CycleDies, Prompting!CycleDies,
       OwnerP!Becomes, Prompting!Becomes, OwnerP!Needs, Prompting!Needs, OwnerP!Guarded,
       Prompting!Guarded, OwnerP!NextPeriod, Prompting!NextPeriod, OwnerP!Periods,
       Prompting!Periods, OwnerP!Ensured, Prompting!Ensured, OwnerP!Settled,
       Prompting!Settled, OwnerP!Verified, Prompting!Verified, OwnerP!Sourced,
       Prompting!Sourced, OwnerP!At, Prompting!At, OwnerP!Actionable,
       Prompting!Actionable, OwnerP!LeadsTo, Prompting!LeadsTo, OwnerP!Idle,
       Prompting!Idle, OwnerP!Disturbed, Prompting!Disturbed, OwnerP!Reconciled,
       Prompting!Reconciled, OwnerP!Crossed, Prompting!Crossed, OwnerP!Changes,
       Prompting!Changes, OwnerP!Closed, Prompting!Closed, OwnerP!Waits, Prompting!Waits
<1>4. OwnerP!PromptTypeOK <=> Prompting!PromptTypeOK
  BY DEF OwnerP!PromptTypeOK, Prompting!PromptTypeOK, OwnerP!Sourced, Prompting!Sourced,
       OwnerP!Guarded, Prompting!Guarded, OwnerP!Periods, Prompting!Periods,
       OwnerP!Closed, Prompting!Closed, OwnerP!CycleStages, Prompting!CycleStages
<1>5. OwnerP!PromptsAreCurrent <=> Prompting!PromptsAreCurrent
  BY DEF OwnerP!PromptsAreCurrent, Prompting!PromptsAreCurrent, OwnerP!Actionable,
       Prompting!Actionable, OwnerP!Guarded, Prompting!Guarded, OwnerP!Closed,
       Prompting!Closed, OwnerP!Periods, Prompting!Periods, OwnerP!MayAsk,
       Prompting!MayAsk, OwnerP!Needs, Prompting!Needs
<1> QED BY <1>1, <1>2, <1>3, <1>4, <1>5

LEMMA PromptsRuns ==
  /\ Spec /\ service = "prompts" => OwnerP!PromptSpec /\ [](service = "prompts")
  /\ Spec /\ ~(service = "prompts") => []~(service = "prompts")
<1>1. Init /\ service = "prompts" => OwnerP!PromptInit
  BY PromptsAlike DEF Init
<1>2. service = "prompts" /\ [Next]_<<service, cells>>
        => [OwnerP!PromptNext]_<<v1, v2, v3, v4, v5, v6>>
  <2> SUFFICES ASSUME service = "prompts", Next PROVE Prompting!PromptNext
    BY PromptsAlike DEF cells
  <2> QED BY DEF Next, Only
<1>3. [Next]_<<service, cells>> => ((service = "prompts")' <=> service = "prompts")
  BY ServiceIsKept
<1> QED BY <1>1, <1>2, <1>3, PTL DEF Spec, OwnerP!PromptSpec, OwnerP!promptVars

LEMMA PromptsTyped == Spec /\ service = "prompts" => []TypesOK
<1>1. OwnerP!PromptSpec => []OwnerP!PromptTypeOK
  BY PromptingAssumed, PromptsAlike, OwnerP!PromptTypesHold
<1>2. service = "prompts" /\ OwnerP!PromptTypeOK => TypesOK
  BY PromptsAlike DEF TypesOK
<1> QED BY <1>1, <1>2, PromptsRuns, PTL

\* The owner is asked in time and not longer than needed: for any sessions that run
\* the cycle of the core and any number of periods of an authorization.
THEOREM PromptsReachTheOwner == Spec => []PromptsAreCurrent
<1>1. OwnerP!PromptSpec => []OwnerP!PromptsAreCurrent
  BY PromptingAssumed, PromptsAlike, OwnerP!OwnerIsAskedInTime
<1>2. service = "prompts" /\ OwnerP!PromptsAreCurrent => PromptsAreCurrent
  BY PromptsAlike DEF PromptsAreCurrent
<1>3. ~(service = "prompts") => PromptsAreCurrent
  BY DEF PromptsAreCurrent
<1> QED BY <1>1, <1>2, <1>3, PromptsRuns, PTL

--------------------------------------------------------------------------------
(***************************************************************************)
(* Mutations and moves of money                                            *)
(***************************************************************************)

ShotP == INSTANCE OneShotEffect_proofs
     WITH ruleClock <- v1, lastRun <- v2, mutation <- v3, ruleSession <- v4,
          mutated <- v5, calls <- v6, moved <- v1, known <- v2, sca <- v3, allotment <- v4,
          linked <- v5, booked <- v6, atBank <- v7, orders <- v8, misread <- v9,
          mover <- v10, sourceLock <- v11, cash <- v1, purse <- v2, policy <- v3,
          ahead <- v4, runs <- v5, actions <- v6, funder <- v7, turns <- v8, begun <- v9,
          shared <- v10, strained <- v11, chosen <- v12

LEMMA ConnectorAlike ==
  /\ (ShotP!RuleAssumption <=> Rule!RuleAssumption)
  /\ (ShotP!ConnectorInit <=> Rule!ConnectorInit)
  /\ (ShotP!ConnectorNext <=> Rule!ConnectorNext)
  /\ (ShotP!ConnectorTypeOK <=> Rule!ConnectorTypeOK)
<1>1. ShotP!RuleAssumption <=> Rule!RuleAssumption
  BY DEF ShotP!RuleAssumption, Rule!RuleAssumption
<1>2. ShotP!ConnectorInit <=> Rule!ConnectorInit
  BY DEF ShotP!ConnectorInit, Rule!ConnectorInit, ShotP!Rules, Rule!Rules, ShotP!Never,
       Rule!Never, ShotP!Occurrences, Rule!Occurrences, ShotP!RestingRun,
       Rule!RestingRun, ShotP!Buckets, Rule!Buckets
<1>3. ShotP!ConnectorNext <=> Rule!ConnectorNext
  BY DEF ShotP!ConnectorNext, Rule!ConnectorNext, ShotP!RunStep, Rule!RunStep,
       ShotP!CrashRun, Rule!CrashRun, ShotP!RuleTick, Rule!RuleTick, ShotP!LoadRules,
       Rule!LoadRules, ShotP!LookUpOccurrence, Rule!LookUpOccurrence,
       ShotP!InsertOccurrence, Rule!InsertOccurrence, ShotP!ClaimOccurrence,
       Rule!ClaimOccurrence, ShotP!CallProvider, Rule!CallProvider,
       ShotP!SettleOccurrence, Rule!SettleOccurrence, ShotP!ReadRule, Rule!ReadRule,
       ShotP!EndRun, Rule!EndRun, ShotP!Go, Rule!Go, ShotP!RestingRun, Rule!RestingRun,
       ShotP!Rules, Rule!Rules, ShotP!Due, Rule!Due, ShotP!Never, Rule!Never,
       ShotP!Suppress, Rule!Suppress, ShotP!Flushed, Rule!Flushed
<1>4. ShotP!ConnectorTypeOK <=> Rule!ConnectorTypeOK
  BY DEF ShotP!ConnectorTypeOK, Rule!ConnectorTypeOK, ShotP!Rules, Rule!Rules,
       ShotP!Occurrences, Rule!Occurrences, ShotP!MutationStates, Rule!MutationStates,
       ShotP!RulePlaces, Rule!RulePlaces, ShotP!Buckets, Rule!Buckets
<1> QED BY <1>1, <1>2, <1>3, <1>4

LEMMA ConnectorRuns ==
  /\ Spec /\ service = "connector" => ShotP!ConnectorSpec /\ [](service = "connector")
  /\ Spec /\ ~(service = "connector") => []~(service = "connector")
<1>1. Init /\ service = "connector" => ShotP!ConnectorInit
  BY ConnectorAlike DEF Init
<1>2. service = "connector" /\ [Next]_<<service, cells>>
        => [ShotP!ConnectorNext]_<<v1, v2, v3, v4, v5, v6>>
  <2> SUFFICES ASSUME service = "connector", Next PROVE Rule!ConnectorNext
    BY ConnectorAlike DEF cells
  <2> QED BY DEF Next, Only
<1>3. [Next]_<<service, cells>> => ((service = "connector")' <=> service = "connector")
  BY ServiceIsKept
<1> QED BY <1>1, <1>2, <1>3, PTL DEF Spec, ShotP!ConnectorSpec, ShotP!connectorVars

LEMMA ConnectorTyped == Spec /\ service = "connector" => []TypesOK
<1>1. ShotP!ConnectorSpec => []ShotP!ConnectorTypeOK
  BY RuleAssumed, ConnectorAlike, ShotP!ConnectorTypes
<1>2. service = "connector" /\ ShotP!ConnectorTypeOK => TypesOK
  BY ConnectorAlike DEF TypesOK
<1> QED BY <1>1, <1>2, ConnectorRuns, PTL

\* An occurrence of a mutating rule is claimed once, sent once, and reported only
\* when the provider carried it out: for any rules, sessions, interval and clock.
THEOREM RulesMutateOnce == Spec => MutationsAreOneShot
<1>1. ShotP!ConnectorSpec => ShotP!MutationsAreOneShot
  BY RuleAssumed, ConnectorAlike, ShotP!ConnectorImplementsOneShot
<1>2. ShotP!ConnectorEffect!EffectInit <=> Rule!ConnectorEffect!EffectInit
  BY DEF ShotP!ConnectorEffect!EffectInit, Rule!ConnectorEffect!EffectInit,
       ShotP!Occurrences, ShotP!Rules, ShotP!Buckets, Rule!Occurrences, Rule!Rules,
       Rule!Buckets
<1>3. service = "connector" /\ [Next]_<<service, cells>>
        /\ [ShotP!ConnectorEffect!EffectNext]_ShotP!ConnectorEffect!effectVars
        => [service = "connector" => Rule!ConnectorEffect!EffectStep]_<<service, cells>>
  <2>1. ShotP!ConnectorEffect!EffectNext <=> Rule!ConnectorEffect!EffectNext
    BY DEF ShotP!ConnectorEffect!EffectNext, Rule!ConnectorEffect!EffectNext,
         ShotP!ConnectorEffect!Claim, Rule!ConnectorEffect!Claim,
         ShotP!ConnectorEffect!Attempt, Rule!ConnectorEffect!Attempt,
         ShotP!ConnectorEffect!Perform, Rule!ConnectorEffect!Perform,
         ShotP!ConnectorEffect!Report, Rule!ConnectorEffect!Report, ShotP!Occurrences,
         ShotP!Rules, ShotP!Buckets, Rule!Occurrences, Rule!Rules, Rule!Buckets
  <2>2. UNCHANGED ShotP!ConnectorEffect!effectVars <=> UNCHANGED Rule!ConnectorEffect!effectVars
    BY DEF ShotP!ConnectorEffect!effectVars, Rule!ConnectorEffect!effectVars,
         ShotP!Occurrences, ShotP!Rules, ShotP!Buckets, Rule!Occurrences, Rule!Rules,
         Rule!Buckets
  <2> QED BY <2>1, <2>2 DEF Rule!ConnectorEffect!EffectStep
<1>4. ~(service = "connector") => [service = "connector" => Rule!ConnectorEffect!EffectStep]_<<service, cells>>
  OBVIOUS
<1> QED BY <1>1, <1>2, <1>3, <1>4, ConnectorRuns, PTL
          DEF Spec, ShotP!ConnectorSpec, ShotP!connectorVars,
              ShotP!MutationsAreOneShot, ShotP!ConnectorEffect!EffectSpec, MutationsAreOneShot

--------------------------------------------------------------------------------

LEMMA MoveAlike ==
  /\ (ShotP!MoveAssumption <=> Moving!MoveAssumption)
  /\ (ShotP!MoveInit <=> Moving!MoveInit)
  /\ (ShotP!MoveNext <=> Moving!MoveNext)
  /\ (ShotP!MoveTypeOK <=> Moving!MoveTypeOK)
  /\ (ShotP!AccountedFor <=> Moving!AccountedFor)
<1>1. ShotP!MoveAssumption <=> Moving!MoveAssumption
  BY DEF ShotP!MoveAssumption, Moving!MoveAssumption
<1>2. ShotP!MoveInit <=> Moving!MoveInit
  BY DEF ShotP!MoveInit, Moving!MoveInit, ShotP!Moves, Moving!Moves, ShotP!IdleMover,
       Moving!IdleMover
<1>3. ShotP!MoveNext <=> Moving!MoveNext
  BY DEF ShotP!MoveNext, Moving!MoveNext, ShotP!PlanBudgetMove, Moving!PlanBudgetMove,
       ShotP!PlanAllotment, Moving!PlanAllotment, ShotP!ResumeAllotment,
       Moving!ResumeAllotment, ShotP!LockSource, Moving!LockSource,
       ShotP!InsertTransfer, Moving!InsertTransfer, ShotP!PostOrder, Moving!PostOrder,
       ShotP!AnswerOrder, Moving!AnswerOrder, ShotP!NoteTransfer, Moving!NoteTransfer,
       ShotP!CrashMover, Moving!CrashMover, ShotP!AskForOrder, Moving!AskForOrder,
       ShotP!WriteOrderStatus, Moving!WriteOrderStatus, ShotP!FetchEvidence,
       Moving!FetchEvidence, ShotP!BindEvidence, Moving!BindEvidence,
       ShotP!ReconcileAllotments, Moving!ReconcileAllotments, ShotP!RefuseAuthorization,
       Moving!RefuseAuthorization, ShotP!QuarantineTransfer, Moving!QuarantineTransfer,
       ShotP!BankDecides, Moving!BankDecides, ShotP!ActiveMove, Moving!ActiveMove,
       ShotP!Shift, Moving!Shift, ShotP!IdleMover, Moving!IdleMover, ShotP!ledgerVars,
       Moving!ledgerVars, ShotP!allotVars, Moving!allotVars, ShotP!moveBankVars,
       Moving!moveBankVars, ShotP!SetAllotment, Moving!SetAllotment, ShotP!Return,
       Moving!Return, ShotP!DayUsed, Moving!DayUsed, ShotP!Cardinality,
       Moving!Cardinality, ShotP!MisreadAs, Moving!MisreadAs, ShotP!Mirror,
       Moving!Mirror, ShotP!MoveDead, Moving!MoveDead, ShotP!Moves, Moving!Moves,
       ShotP!Unclaimed, Moving!Unclaimed, ShotP!Lists, Moving!Lists, ShotP!Evidence,
       Moving!Evidence, ShotP!MoveActive, Moving!MoveActive
<1>4. ShotP!MoveTypeOK <=> Moving!MoveTypeOK
  BY DEF ShotP!MoveTypeOK, Moving!MoveTypeOK, ShotP!Moves, Moving!Moves,
       ShotP!MoveStates, Moving!MoveStates, ShotP!AllotStates, Moving!AllotStates,
       ShotP!OrderStates, Moving!OrderStates, ShotP!MoverPlaces, Moving!MoverPlaces,
       ShotP!MoveActive, Moving!MoveActive, ShotP!MoveDead, Moving!MoveDead
<1>5. ShotP!AccountedFor <=> Moving!AccountedFor
  BY DEF ShotP!AccountedFor, Moving!AccountedFor, ShotP!Cardinality, Moving!Cardinality,
       ShotP!Moves, Moving!Moves
<1> QED BY <1>1, <1>2, <1>3, <1>4, <1>5

LEMMA MoveRuns ==
  /\ Spec /\ service = "move" => ShotP!MoveSpec /\ [](service = "move")
  /\ Spec /\ ~(service = "move") => []~(service = "move")
<1>1. Init /\ service = "move" => ShotP!MoveInit
  BY MoveAlike DEF Init
<1>2. service = "move" /\ [Next]_<<service, cells>>
        => [ShotP!MoveNext]_ShotP!moveVars
  <2> SUFFICES ASSUME service = "move", Next PROVE Moving!MoveNext
    BY MoveAlike DEF cells, ShotP!moveVars, ShotP!ledgerVars, ShotP!allotVars, ShotP!moveBankVars
  <2> QED BY DEF Next, Only
<1>3. [Next]_<<service, cells>> => ((service = "move")' <=> service = "move")
  BY ServiceIsKept
<1> QED BY <1>1, <1>2, <1>3, PTL DEF Spec, ShotP!MoveSpec

LEMMA MoveTyped == Spec /\ service = "move" => []TypesOK
<1>1. ShotP!MoveSpec => []ShotP!MoveTypeOK
  BY MoveAssumed, MoveAlike, ShotP!MoveTypes
<1>2. service = "move" /\ ShotP!MoveTypeOK => TypesOK
  BY MoveAlike DEF TypesOK
<1> QED BY <1>1, <1>2, MoveRuns, PTL

\* A transfer between own accounts is ordered once, within the day's limit, and its
\* allocation is verified by what the bank lists for it alone: for any moves,
\* sessions and limit.
THEOREM MovesReachTheBankOnce == Spec => MovesAreOneShot
<1>1. ShotP!MoveSpec => ShotP!MovesAreOneShot
  BY MoveAssumed, MoveAlike, ShotP!MovesImplementOneShot
<1>2. ShotP!MoveEffect!EffectInit <=> Moving!MoveEffect!EffectInit
  BY DEF ShotP!MoveEffect!EffectInit, Moving!MoveEffect!EffectInit, ShotP!Moves,
       Moving!Moves
<1>3. service = "move" /\ [Next]_<<service, cells>>
        /\ [ShotP!MoveEffect!EffectNext]_ShotP!MoveEffect!effectVars
        => [service = "move" => Moving!MoveEffect!EffectStep]_<<service, cells>>
  <2>1. ShotP!MoveEffect!EffectNext <=> Moving!MoveEffect!EffectNext
    BY DEF ShotP!MoveEffect!EffectNext, Moving!MoveEffect!EffectNext,
         ShotP!MoveEffect!Claim, Moving!MoveEffect!Claim, ShotP!MoveEffect!Attempt,
         Moving!MoveEffect!Attempt, ShotP!MoveEffect!Perform, Moving!MoveEffect!Perform,
         ShotP!MoveEffect!Report, Moving!MoveEffect!Report, ShotP!Moves, Moving!Moves
  <2>2. UNCHANGED ShotP!MoveEffect!effectVars <=> UNCHANGED Moving!MoveEffect!effectVars
    BY DEF ShotP!MoveEffect!effectVars, Moving!MoveEffect!effectVars, ShotP!Moves,
         Moving!Moves
  <2> QED BY <2>1, <2>2 DEF Moving!MoveEffect!EffectStep
<1>4. ~(service = "move") => [service = "move" => Moving!MoveEffect!EffectStep]_<<service, cells>>
  OBVIOUS
<1>5. service = "move" /\ ShotP!AccountedFor => Moving!AccountedFor
  BY MoveAlike
<1> QED BY <1>1, <1>2, <1>3, <1>4, <1>5, MoveRuns, PTL
          DEF Spec, ShotP!MoveSpec,
              ShotP!MovesAreOneShot, ShotP!MoveEffect!EffectSpec, MovesAreOneShot

--------------------------------------------------------------------------------

LEMMA FundAlike ==
  /\ (ShotP!AllocationAssumption <=> Funding!AllocationAssumption)
  /\ (ShotP!AllocationInit <=> Funding!AllocationInit)
  /\ (ShotP!AllocationNext <=> Funding!AllocationNext)
  /\ (ShotP!AllocationTypeOK <=> Funding!AllocationTypeOK)
  /\ (ShotP!MovesStayWithinForecast <=> Funding!MovesStayWithinForecast)
<1>1. ShotP!AllocationAssumption <=> Funding!AllocationAssumption
  BY DEF ShotP!AllocationAssumption, Funding!AllocationAssumption, ShotP!IsFiniteSet,
       Funding!IsFiniteSet
<1>2. ShotP!AllocationInit <=> Funding!AllocationInit
  BY DEF ShotP!AllocationInit, Funding!AllocationInit, ShotP!Waiting, Funding!Waiting
<1>3. ShotP!AllocationNext <=> Funding!AllocationNext
  BY DEF ShotP!AllocationNext, Funding!AllocationNext, ShotP!BeginCycle,
       Funding!BeginCycle, ShotP!Resume, Funding!Resume, ShotP!Min, Funding!Min,
       ShotP!Forecast, Funding!Forecast, ShotP!Max, Funding!Max, ShotP!OpenPlan,
       Funding!OpenPlan, ShotP!ChooseMove, Funding!ChooseMove, ShotP!ClosePlan,
       Funding!ClosePlan, ShotP!Dispatch, Funding!Dispatch, ShotP!Note, Funding!Note,
       ShotP!CrashFunder, Funding!CrashFunder, ShotP!Settle, Funding!Settle,
       ShotP!SyncBalances, Funding!SyncBalances, ShotP!EnsurePolicies,
       Funding!EnsurePolicies, ShotP!Spend, Funding!Spend, ShotP!BillArrives,
       Funding!BillArrives, ShotP!OwnerSetsPolicy, Funding!OwnerSetsPolicy,
       ShotP!Reconciled, Funding!Reconciled, ShotP!PlannedRun, Funding!PlannedRun,
       ShotP!Fund, Funding!Fund, ShotP!Waiting, Funding!Waiting, ShotP!Tidy,
       Funding!Tidy, ShotP!Recent, Funding!Recent, ShotP!NewRun, Funding!NewRun,
       ShotP!Gap, Funding!Gap, ShotP!Chosen, Funding!Chosen, ShotP!Busy, Funding!Busy,
       ShotP!Budget, Funding!Budget, ShotP!Desired, Funding!Desired, ShotP!Refused,
       Funding!Refused, ShotP!FundAlone, Funding!FundAlone, ShotP!Strains,
       Funding!Strains, ShotP!Mirrored, Funding!Mirrored, ShotP!Positive,
       Funding!Positive, ShotP!Moved, Funding!Moved, ShotP!SumFunctionOnSet,
       Funding!SumFunctionOnSet, ShotP!FoldFunctionOnSet, Funding!FoldFunctionOnSet,
       ShotP!MapThenFoldSet, Funding!MapThenFoldSet, ShotP!World, Funding!World,
       ShotP!Tidied, Funding!Tidied, ShotP!Fingerprint, Funding!Fingerprint, ShotP!Low,
       Funding!Low, ShotP!LowPoint, Funding!LowPoint, ShotP!Start, Funding!Start,
       ShotP!Protected, Funding!Protected, ShotP!Cardinality, Funding!Cardinality,
       ShotP!Filled, Funding!Filled, ShotP!Lacks, Funding!Lacks, ShotP!RankOf,
       Funding!RankOf, ShotP!CashOn, Funding!CashOn, ShotP!Managed, Funding!Managed,
       ShotP!Sent, Funding!Sent, ShotP!Held, Funding!Held, ShotP!Cautious,
       Funding!Cautious, ShotP!Expected, Funding!Expected, ShotP!Variable,
       Funding!Variable, ShotP!Times, Funding!Times, ShotP!Gone, Funding!Gone,
       ShotP!Explicit, Funding!Explicit
<1>4. ShotP!AllocationTypeOK <=> Funding!AllocationTypeOK
  BY DEF ShotP!AllocationTypeOK, Funding!AllocationTypeOK, ShotP!Policies,
       Funding!Policies, ShotP!PlanStates, Funding!PlanStates
<1>5. ShotP!MovesStayWithinForecast <=> Funding!MovesStayWithinForecast
  BY DEF ShotP!MovesStayWithinForecast, Funding!MovesStayWithinForecast, ShotP!Moved,
       Funding!Moved, ShotP!SumFunctionOnSet, Funding!SumFunctionOnSet,
       ShotP!FoldFunctionOnSet, Funding!FoldFunctionOnSet, ShotP!MapThenFoldSet,
       Funding!MapThenFoldSet, ShotP!Gone, Funding!Gone
<1> QED BY <1>1, <1>2, <1>3, <1>4, <1>5

LEMMA FundRuns ==
  /\ Spec /\ service = "funds" => ShotP!AllocationSpec /\ [](service = "funds")
  /\ Spec /\ ~(service = "funds") => []~(service = "funds")
<1>1. Init /\ service = "funds" => ShotP!AllocationInit
  BY FundAlike DEF Init
<1>2. service = "funds" /\ [Next]_<<service, cells>>
        => [ShotP!AllocationNext]_<<v1, v2, v3, v4, v5, v6, v7, v8, v9, v10, v11, v12>>
  <2> SUFFICES ASSUME service = "funds", Next PROVE Funding!AllocationNext
    BY FundAlike DEF cells
  <2> QED BY DEF Next, Only
<1>3. [Next]_<<service, cells>> => ((service = "funds")' <=> service = "funds")
  BY ServiceIsKept
<1> QED BY <1>1, <1>2, <1>3, PTL DEF Spec, ShotP!AllocationSpec, ShotP!allocationVars

LEMMA FundTyped == Spec /\ service = "funds" => []TypesOK
<1>1. ShotP!AllocationSpec => []ShotP!AllocationTypeOK
  BY FundingAssumed, FundAlike, ShotP!AllocationTypes
<1>2. service = "funds" /\ ShotP!AllocationTypeOK => TypesOK
  BY FundAlike DEF TypesOK
<1> QED BY <1>1, <1>2, FundRuns, PTL

\* What an allocation run moves stays within the surplus of its forecast unless
\* another session took on its actions, a plan that ran alone kept the scope at its
\* floor and overfilled no wallet, and an owner's choice of role holds: for any
\* accounts, sessions, amounts, month and horizon.
THEOREM RunsStayWithinForecast == Spec => []MovesStayWithinForecast
<1>1. ShotP!AllocationSpec => []ShotP!MovesStayWithinForecast
  BY FundingAssumed, FundAlike, ShotP!MovesAreFunded
<1>2. service = "funds" /\ ShotP!MovesStayWithinForecast => MovesStayWithinForecast
  BY FundAlike DEF MovesStayWithinForecast
<1>3. ~(service = "funds") => MovesStayWithinForecast
  BY DEF MovesStayWithinForecast
<1> QED BY <1>1, <1>2, <1>3, FundRuns, PTL

--------------------------------------------------------------------------------

\* No service writes into its tables what they do not know, whatever the values of the
\* constants that the modules admit.
THEOREM ServicesAreTyped == Spec => []TypesOK
<1>1. Init => \/ service = "mail" \/ service = "device" \/ service = "call"
          \/ service = "calendar" \/ service = "cases" \/ service = "cursor"
          \/ service = "triage" \/ service = "relation" \/ service = "actions"
          \/ service = "intake" \/ service = "briefing" \/ service = "portal"
          \/ service = "drive" \/ service = "purchase" \/ service = "ledger"
          \/ service = "form" \/ service = "investment" \/ service = "authorization"
          \/ service = "objective" \/ service = "papers" \/ service = "recovery"
          \/ service = "prompts" \/ service = "connector" \/ service = "move"
          \/ service = "funds"
  BY DEF Init
<1> QED BY <1>1, MailTyped, DeviceTyped, CallTyped, BookingTyped, CaseTyped, CursorTyped,
           TriageTyped, RelationTyped, ActionsTyped, IntakeTyped, BriefingTyped,
           OperationTyped, DriveTyped, PurchaseTyped, LedgerTyped, FormTyped,
           InvestmentTyped, AuthorizationTyped, ObjectiveTyped, PapersTyped,
           RecoveryTyped, PromptsTyped, ConnectorTyped, MoveTyped, FundTyped,
           PTL DEF Spec

================================================================================
