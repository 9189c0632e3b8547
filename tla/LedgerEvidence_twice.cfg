SPECIFICATION LedgerSpec
CONSTANTS
  debit = debit
  row = row
  Movements = {debit}
  Statements = {{row}}
  MovementOf <- OfDebit
  Likeness <- TooLittle
  Twins = {}
  Keepers = {s1}
CHECK_DEADLOCK FALSE
INVARIANTS
  NothingCountsTwice
