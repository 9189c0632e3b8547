SPECIFICATION Spec
CONSTANTS
  ja = ja
  jb = jb
  w1 = w1
  w2 = w2
  r1 = r1
  NoWorker = NoWorker
  NoJob = NoJob
  NoRun = NoRun
  NoError = "none"
  LeaseExpired = "lease expired"
  Jobs = {ja, jb}
  Workers = {w1, w2}
  Sessions = {m1}
  Runs = {r1}
  Errors = {"timeout"}
  Transient = {"timeout", "lease expired"}
  UserRequired = {}
  Deps <- ChainDeps
  RunOf <- OneRun
  TypeOf <- SameType
  Priority <- SamePriority
  MaxAttempts = 2
  BatchLimit = 2
  MaxAuto = 0
SYMMETRY WorkerSymmetry
INVARIANTS
  TypeOK
  DependenciesHonoured
  StartsAreCharged
  SettledRunReported
  AttemptOverrun
PROPERTIES
  ImplementsHandlerOrder
