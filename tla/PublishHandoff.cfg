SPECIFICATION FairSpec
CONSTANTS
  Nobody = Nobody
  a1 = a1
  x1 = x1
  x2 = x2
  HasReceiptSecret = TRUE
  Customers = {c1}
  Attempts = {a1}
  Contents = {x1, x2}
  ExplicitKeys = {k1}
  Receipts <- MixedReceipts
  Requests = {r1, r2}
  MaxHandoffs <- HandoffsByMode
  MaxQueries = 1
\* Terminal handoffs and no more rows: the system may come to rest.
CHECK_DEADLOCK FALSE
INVARIANTS ConfirmedIsOfficial ConfirmingReceiptIsRecorded
PROPERTIES PreparationEnds TerminalIsFinal
