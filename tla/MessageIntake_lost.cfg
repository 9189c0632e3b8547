SPECIFICATION IntakeSpec
CONSTANTS
  Texts = {m1, m2}
  NoText = NoText
  OutboxLimit = 2
  KeyFaults = {}
  PostLimit = 3
CHECK_DEADLOCK FALSE
INVARIANTS
  FailedDispatchStaysQueued
