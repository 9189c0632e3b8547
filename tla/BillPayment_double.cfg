SPECIFICATION Spec
CONSTANTS
  b1 = b1
  b2 = b2
  h1 = h1
  h2 = h2
  NoBill = NoBill
  NoPayment = NoPayment
  NoSession = NoSession
  Bills = {b1, b2}
  Payments = {1, 2}
  Sessions = {h1, h2}
  Alike <- Distinct
  Credits = {}
  Funds = 3
  Reserve = 1
INVARIANTS
  NoSecondPayment
