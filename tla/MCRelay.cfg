\* A plan of two sessions, and as many as exceed the limit of a window by two.
CONSTANTS
  s1 = s1
  s2 = s2
  s3 = s3
  s4 = s4
  Sessions <- FourSessions
  Limit = 2
SPECIFICATION RelayFairSpec
INVARIANTS LimitHeld DrainSettles
PROPERTIES DrainEnds
\* A relay that has exited stops.
CHECK_DEADLOCK FALSE
