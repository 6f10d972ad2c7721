\* The billing clock under a gateway that may be slow, fail or half-fail.
CONSTANTS
  Rate = 1
  Window = 9
  FlushInterval = 2
  Grace = 2
  SilencePause = 2
  CriticalSeconds = 1
  OpeningReserve = 3
  OpeningBalance = 2
  FreeBalances <- MCFreeBalances
  MaxClock = 5
SPECIFICATION FairSpec
INVARIANTS EveryCreditOnce HoldCoversSession CrashLossBounded
PROPERTIES ClosingSettles BillsOnce
\* A closed session stops.
CHECK_DEADLOCK FALSE
