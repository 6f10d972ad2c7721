\* A tab in each of two browsers, over a lifetime of two steps.
CONSTANTS
  desk = desk
  phone = phone
  Tabs <- MCTabs
  Browser <- MCBrowser
  TTL = 2
  MaxGlossaries = 1
  MaxNow = 2
  MaxIds = 3
  MaxPasswords = 2
  MaxFaults = 1
SPECIFICATION LoginSpec
SYMMETRY MCSymmetry
INVARIANTS OldSessionsDie
PROPERTIES DeadStaysDead ClosedAccountRests
\* Time and the bounds run out.
CHECK_DEADLOCK FALSE
