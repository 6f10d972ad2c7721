\* Two sessions, two studio connections that present their tokens again and again, and
\* one browser source with the links of either.
CONSTANTS
  Sessions = {s1, s2}
  Tabs = {t1, t2}
  Screens = {p1}
  Ttl = 1
  Tolerance = 1
  MaxTime = 3
  MaxLinks = 2
  MaxKeys = 2
SPECIFICATION Spec
SYMMETRY Symmetry
INVARIANTS OpensOnce NobodyWatchesInVain
PROPERTIES OldLinkAttachesNobody
\* Time ends, and the sessions with it.
CHECK_DEADLOCK FALSE
