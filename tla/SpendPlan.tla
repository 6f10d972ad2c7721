----------------------------- MODULE SpendPlan -----------------------------
(***************************************************************************)
(* Which buckets pay for a spend (packages/billing/src/ledger.ts,          *)
(* planSpend).  Credits are whole numbers, on which round4 is exact; the   *)
(* loop over SPEND_ORDER is written out, one Take per bucket.              *)
(***************************************************************************)
EXTENDS Integers

Buckets == {"trial", "subscription", "topup"}

Smaller(a, b) == IF a < b THEN a ELSE b
Positive(n) == IF n > 0 THEN n ELSE 0

\* The three buckets of a balance, added up.
Total(parts) == parts["trial"] + parts["subscription"] + parts["topup"]

\* totalAvailable(): a bucket in debt counts for nothing.
TotalAvailable(balances) == Total([b \in Buckets |-> Positive(balances[b])])

\* Faulty variant: a bucket pays for the whole rest.
TakeAll(available, remaining) == IF remaining <= 0 \/ available <= 0 THEN 0 ELSE remaining

\* One turn of the loop: what a bucket pays of what remains.
Take(available, remaining) ==
  IF remaining <= 0 \/ available <= 0 THEN 0 ELSE Smaller(available, remaining)

\* planSpend(): trial, then subscription, then top-ups.
PlanSpend(balances, amount) ==
  LET trial        == Take(balances["trial"], amount)
      subscription == Take(balances["subscription"], amount - trial)
      topup        == Take(balances["topup"], amount - trial - subscription)
  IN  [b \in Buckets |-> CASE b = "trial" -> trial
                           [] b = "subscription" -> subscription
                           [] b = "topup" -> topup]

Covered(plan) == Total(plan)

\* What a plan owes the user: no bucket pays more than it has, together they pay
\* what they can of the amount, and a bucket pays only when the ones whose credits
\* expire sooner are empty (ledger.ts:63-69).
HonestPlan(plan, balances, amount) ==
  /\ \A b \in Buckets : plan[b] <= Positive(balances[b])
  /\ Covered(plan) = Smaller(amount, TotalAvailable(balances))
  /\ plan["subscription"] > 0 => plan["trial"] = Positive(balances["trial"])
  /\ plan["topup"] > 0 => \A b \in {"trial", "subscription"} : plan[b] = Positive(balances[b])
=============================================================================
