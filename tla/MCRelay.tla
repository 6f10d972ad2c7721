------------------------------ MODULE MCRelay ------------------------------
(***************************************************************************)
(* The sessions of a user as model values.                                 *)
(***************************************************************************)
EXTENDS Relay

CONSTANTS s1, s2, s3, s4

FourSessions == {s1, s2, s3, s4}
=============================================================================
