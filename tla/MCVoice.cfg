\* The voice of three sentences over connections that break and open again.
CONSTANTS
  Delays = 2
  MaxHeld = 2
  MaxCards = 3
  MaxChunks = 2
  MaxOpens = 2
SPECIFICATION FairSpec
INVARIANTS OneConnection LabelledRight LossIsLocal
PROPERTIES SpokenIsSent
\* A session that is over stops.
CHECK_DEADLOCK FALSE
