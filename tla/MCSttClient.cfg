\* The real retry budget, and connections that may open six times.
CONSTANTS
  MaxAttempts = 3
  MaxOpens = 6
SPECIFICATION SttFairSpec
PROPERTIES OverIsOver HeardOrOver
\* A session that is over stops.
CHECK_DEADLOCK FALSE
