CONSTANTS
  s1 = s1
  s2 = s2
  paid = paid
  got = got
  paidRow = paidRow
  gotRow = gotRow
  paidAgain = paidAgain
  MutatingRules = {rule}
  ReadingRules = {reader}
  RuleSessions = {s1, s2}
  RuleInterval = 1
  RuleHorizon = 2
  Mails = {mail}
  MailSessions = {s1, s2}
  NoMail = none
  MaxPosts = 2
  MailLimit = 2
  SyncSessions = {s1, s2}
  ScanLimit = 1
  Phones = {s1, s2}
  NoPhone = none
  DeviceTries = 2
  RequestLimit = 2
  ArchivedFiles = {file}
  ArchiveFolder = folder
  Ingestions = {s1, s2}
  MaxCreates = 2
  BudgetMoves = {budget}
  ForecastMoves = {forecast}
  Movers = {s1, s2}
  NoMove = none
  NoMover = none
  DayCap = 1
  ChaseLimit = 2
  StepTries = 2
  ReplyLimit = 2
  PlanLength = 3
  EffectSteps = {1}
  BrowserRuns = {s1, s2}
  RunTries = 2
  ResumeLimit = 2
  RunLimit = 4
  Turns = {request}
  Fulfillers = {s1, s2}
  ActionLimit = 2
  Proposals = {s1, s2}
  Deciders = {s1, s2}
  DailyUses = 1
  DraftLimit = 2
  Contributions = {contribution1}
  Investors = {s1, s2}
  NoContribution = none
  MonthlyTarget = 1
  BuyLimit = 2
  Creditors = {creditor, sender}
  NoBill = nobill
  NoDecision = undecided
  Readers = {s1, s2}
  NoReader = none
  BillLimit = 2
  MutationTries = 2
  EditLimit = 2
  Profiles = {lacking, full, changed}
  Sufficient = {full, changed}
  NoProfile = noprofile
  Clerks = {s1, s2}
  ProfileLimit = 1
  Movements = {paid, got}
  Statements <- StatementFiles
  MovementOf <- RowMovement
  Likeness <- LikenessOf
  Twins <- TwoSides
  Keepers = {s1, s2}
  Identities = {mail, phone}
  Contacts = {{mail, phone}}
  ProfileIds = {1, 2}
  NoProfileYet = 0
  Scribes = {s1, s2}
  Papers = {paper}
  NoPaper = none
  Fetchers = {s1, s2}
  PaperLimit = 1
  Sync = sync
  Planner = planner
  Syncs = {}
  Plans = {planner2}
  RecoveryLimit = 1
  Cycles = {s1, s2}
  MaxPeriods = 2
  Hands = {s1, s2}
  WishLists = {{"reply"}, {"bill"}, {"todo"}}
  TaskLimit = 2
  Sources = {1, 2}
  Wallets = {"spending", "reserve", "savings"}
  Revolut = {2}
  GivenRoles = {"operating"}
  Funders = {s1, s2}
  Opening = 1200
  Floor = 500
  MaxSingle = 1000
  MinTransfer = 50
  Target = 300
  CycleLimit = 2
  Trusts = {"sure"}
  Month = 3
  Horizon = 4
  Baseline = 600
  Rent = 400
  Salary = 500
  Invoice = 700
  ForecastLimit = 1
  TurnLimit = 1
  Agents = {s1, s2}
  CaseKinds = {"order", "case"}
  CheckLimit = 1
  NewsLimit = 2
  Texts = {s1, s2}
  NoText = notext
  PostLimit = 3
  OutboxLimit = 1
  KeyFaults = {"decrypt", "encrypt"}
  News = {s1, s2}
  DayLength = 2
  Hours = {0, 1}
  Fallback = 1
  Lookback = 1
  ListLimit = 1
  LastTick = 2
SPECIFICATION Spec
CHECK_DEADLOCK FALSE
SYMMETRY SessionSymmetry
CONSTRAINT UntilCaused
INVARIANTS
  TypesOK
  CursorPassesNoUnreadMail
  ArchivedOnce
  ChasedUntilAnswered
  EffectsAreNotReplayed
  NoRedialAfterOutcome
  PurchaseIsOnce
  RepliesAreAsDecided
  InvestedOnce
  BilledOnce
  BookedAsSeen
  FormFiledOnce
  ClearMoneyCountsOnce
  PeopleStayThemselves
  PortalDocumentsArrive
  DoneMeansDone
  PromptsAreCurrent
  ActionsEndOnce
  MovesStayWithinForecast
  CasesEndByEvidence
  MessagesAreKept
  BriefingsLeaveNoGap
PROPERTIES
  MutationsAreOneShot
  LateSessionsDoNotSend
  SmsRepeatsAreCaused
  
