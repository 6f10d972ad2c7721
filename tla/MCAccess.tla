------------------------------ MODULE MCAccess ------------------------------
\* Access for TLC: studio connections are interchangeable, and so are sessions.
EXTENDS Access, TLC

Symmetry == Permutations(Tabs) \cup Permutations(Sessions)
=============================================================================
