----------------------------- MODULE MCBilling -----------------------------
(***************************************************************************)
(* A month's subscription bought with a top-up and an add-on, by a         *)
(* customer whose account may not exist yet; the top-up outlives the       *)
(* month by one.                                                           *)
(***************************************************************************)
EXTENDS Billing

CONSTANTS h1, h2, t1, t2, f1, f2

MCHandlers == {h1, h2}
MCTokens == {t1, t2}
MCFlushes == {f1, f2}

\* An add-on of a subscription names no plan.
MCCatalog == [p \in {"starter", "addon", "pack"} |->
                CASE p = "starter" -> [kind |-> "subscription", credits |-> 2, planCode |-> "starter"]
                  [] p = "addon"   -> [kind |-> "subscription", credits |-> 1, planCode |-> "none"]
                  [] p = "pack"    -> [kind |-> "topup", credits |-> 1, planCode |-> "none"]]

\* The customer is known by his address, and may register after he has paid.
MCEvents == {[id |-> "buy", type |-> "transaction.completed",
              items |-> <<"starter", "pack", "addon", "unlisted">>, subscription |-> "sub",
              status |-> "active", periodEnd |-> 1, byId |-> FALSE]}
=============================================================================
