\* Two sessions share one account; calls overlap, fail and outlive their session.
CONSTANTS
  s1 = s1
  s2 = s2
  Sessions <- MCSessions
  Granted <- MCGranted
  Window = 1
  MaxReserved = 4
SYMMETRY MCSymmetry
SPECIFICATION Spec
INVARIANTS BooksBalance HoldCovers HoldSettles
\* A user whose sessions are all closed stops.
CHECK_DEADLOCK FALSE
