------------------------------ MODULE MCMeter ------------------------------
(***************************************************************************)
(* A small instance of the billing clock.  The constants keep the order of *)
(* the real ones: a third of the reservation window outlasts the flush     *)
(* interval (20 s against 10 s), and a second is the unit of every timer.  *)
(***************************************************************************)
EXTENDS Meter

\* An account that is dry, and one that grants it all.
MCFreeBalances == {0, Rate * Window}
=============================================================================
