\* Two webhook requests, two verification links, two flushes and the end of two periods.
CONSTANTS
  h1 = h1
  h2 = h2
  t1 = t1
  t2 = t2
  f1 = f1
  f2 = f2
  Handlers <- MCHandlers
  Tokens <- MCTokens
  Flushes <- MCFlushes
  Events <- MCEvents
  Catalog <- MCCatalog
  TrialCredits = 1
  FlushAmount = 2
  TopUpValidity = 2
  Never = 9
  MaxNow = 2
  MaxFaults = 1
SPECIFICATION FairBilling
INVARIANTS RowIsLedger GrantedOnce DebtHasCause
PROPERTIES PurchaseArrives
CHECK_DEADLOCK FALSE
