------------------------------ MODULE BillOnce ------------------------------
(***************************************************************************)
(* What the billing clock promises, without saying how: a consumed credit  *)
(* is open until it is either billed, once, or forgiven for good.  Nothing *)
(* is billed that was not consumed, nothing billed is taken back, nothing  *)
(* forgiven is billed later (apps/relay/src/metering.ts:84-91, 226-227).   *)
(***************************************************************************)
EXTENDS Integers

VARIABLES
  open,      \* consumed, and neither billed nor forgiven yet
  billed,    \* in the append-only ledger
  forgiven   \* given up: the write failed, or the account could not cover it

vars == <<open, billed, forgiven>>

Init == open = 0 /\ billed = 0 /\ forgiven = 0

Consume ==
  /\ open' \in Nat
  /\ open' > open
  /\ UNCHANGED <<billed, forgiven>>

Settle ==
  /\ open' \in Nat
  /\ open' < open
  /\ \E paid \in 0..(open - open') :
       /\ billed' = billed + paid
       /\ forgiven' = forgiven + ((open - open') - paid)

Next == Consume \/ Settle

Spec == Init /\ [][Next]_vars
=============================================================================
