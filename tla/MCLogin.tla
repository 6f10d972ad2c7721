------------------------------ MODULE MCLogin ------------------------------
\* A tab in each of two browsers.
EXTENDS Login, TLC

CONSTANTS desk, phone

MCTabs == {desk, phone}
MCBrowser(t) == t
MCSymmetry == Permutations(MCTabs)
=============================================================================
