------------------------------ MODULE Billing ------------------------------
(***************************************************************************)
(* One user's ledger and the balance made from it: the Paddle webhook      *)
(* (apps/web/app/api/webhooks/paddle/route.ts, lib/server/paddle.ts,       *)
(* packages/billing/src/paddle.ts), the trial grant of the verification    *)
(* link (app/api/auth/verify/route.ts) and what the relay's flush does to  *)
(* both (apps/relay/src/metering.ts).                                      *)
(*                                                                         *)
(* Paddle delivers an event again until it is answered, sometimes after    *)
(* that, and in any order.  A handler is three statements of the database: *)
(* the transaction that applies the event, the sums refreshBalance reads   *)
(* and the row it writes from them; it may fail before any of them.        *)
(*                                                                         *)
(* A flush of the relay plans from the row it has read, and bills the plan *)
(* in one transaction later.                                               *)
(*                                                                         *)
(* Only deliveries whose signature holds are here.  The hold a flush moves *)
(* is in Account.  Time is in periods.                                     *)
(***************************************************************************)
EXTENDS SpendPlan, FiniteSets, FiniteSetsExt, Sequences

CONSTANTS
  Events,        \* what Paddle sends: records of PaddleEvent
  Catalog,       \* PADDLE_CATALOG: entries by price id
  Handlers,      \* webhook requests in progress
  Tokens,        \* verification links
  Flushes,       \* flushes of the relay's sessions
  TrialCredits,  \* PLANS.trial.credits
  FlushAmount,   \* credits of a flush
  TopUpValidity, \* TOPUP_VALIDITY_DAYS, in periods
  Never,         \* an expiry that is null
  MaxNow, MaxFaults   \* bounds, for model checking only

ASSUME BillingAssumption ==
  /\ {TrialCredits, FlushAmount} \subseteq Nat \ {0} /\ TopUpValidity \in Nat \ {0} /\ Never \in Nat
  /\ {MaxNow, MaxFaults} \subseteq Nat
  /\ MaxNow + TopUpValidity < Never
  /\ \A p \in DOMAIN Catalog : /\ Catalog[p].kind \in {"subscription", "topup"}
                               /\ Catalog[p].credits \in Nat \ {0}
  /\ \A e \in Events : Len(e.items) \in Nat /\ e.periodEnd \in 0..Never /\ e.id # "none"
  /\ \A d, e \in Events : d.id = e.id => d = e

VARIABLES
  now,
  user,       \* the row of users: registered, verified, trialGranted, planCode
  subscriptions,   \* rows by paddle_subscription_id: planCode, status
  ledger,     \* credit_ledger: entries [key, delta, bucket, expires]
  row,        \* credit_balances, by bucket; a row that is not there reads as zeros
  handler,    \* of each request: its event, its step and the sums it has read
  verify,     \* of each link: how far its handler is, and the trialGrantedAt it read
  answered,   \* events Paddle has a 200 for
  ignored,    \* of those: the ones of an unknown customer
  flushing,   \* of each flush: its step, its plan, and whether the plan is stale
  faults,     \* repeats and failures so far, for the bound
  \* History, for the properties only:
  missed,     \* what has moved the ledger since the sums in `row` were read
  overdrawn   \* by bucket, what flushes with stale plans have taken

webhookVars == <<handler, answered, ignored>>
billingVars == <<now, user, subscriptions, ledger, row, handler, verify, answered, ignored, flushing,
          faults, missed, overdrawn>>

Zeros == [b \in Buckets |-> 0]
Idle == [event |-> "none", step |-> "idle", sums |-> Zeros, missed |-> {}]

BillingInit ==
  /\ now = 0
  /\ user = [registered |-> FALSE, verified |-> FALSE, trialGranted |-> FALSE, planCode |-> "trial"]
  /\ subscriptions = <<>>
  /\ ledger = {} /\ row = Zeros
  /\ handler = [h \in Handlers |-> Idle]
  /\ verify = [t \in Tokens |-> [step |-> "none", seen |-> FALSE]]
  /\ answered = {} /\ ignored = {}
  /\ flushing = [f \in Flushes |-> [step |-> "none", plan |-> Zeros, stale |-> FALSE]]
  /\ faults = 0
  /\ missed = {} /\ overdrawn = Zeros

-----------------------------------------------------------------------------
(* Balances and the ledger                                                 *)

\* The filter of the sums: a grant counts until it expires, spending counts for ever.
Counts(e) == e.delta < 0 \/ e.expires > now

\* bucketBalancesOf() and the sums of refreshBalance().
Live == [b \in Buckets |->
           MapThenSumSet(LAMBDA e : e.delta, {e \in ledger : e.bucket = b /\ Counts(e)})]

Taken(key) == \E f \in ledger : f.key = key

\* Faulty variant: an entry whose key is taken is inserted under another.
InsertedAgain(entries) ==
  ledger \cup {IF Taken(e.key) THEN [e EXCEPT !.key = <<@, Cardinality(ledger)>>] ELSE e : e \in entries}

\* onConflictDoNothing on the idempotency key.
Inserted(entries) == ledger \cup {e \in entries : ~Taken(e.key)}

\* Refreshes that have their sums do not hear of a change after them.
Overtaken(hs, cause) ==
  [h \in Handlers |-> IF hs[h].step = "summed" THEN [hs[h] EXCEPT !.missed = @ \cup {cause}] ELSE hs[h]]

-----------------------------------------------------------------------------
(* intentsForEvent()                                                       *)

Entry(e, i) == Catalog[e.items[i]]
Listed(e) == {i \in 1..Len(e.items) : e.items[i] \in DOMAIN Catalog}
\* Items that name a plan; a change that none of them names is none.
PlanItems(e) == {i \in Listed(e) : Entry(e, i).kind = "subscription" /\ Entry(e, i).planCode # "none"}

\* completedTransaction(): one entry for each item in the catalog.
Grants(e) ==
  IF e.type # "transaction.completed" THEN {}
  ELSE {[key |-> <<e.id, i>>, delta |-> Entry(e, i).credits, bucket |-> Entry(e, i).kind,
         expires |-> IF Entry(e, i).kind = "topup" THEN now + TopUpValidity ELSE e.periodEnd]
        : i \in Listed(e)}

NoChange == [planCode |-> "none", status |-> "none"]

\* resolvePlanCode(): the first item that names a plan; of several, a completed
\* transaction keeps the last.
PlanChange(e) ==
  LET plan(i) == Entry(e, i).planCode
  IN  CASE e.type = "transaction.completed" /\ PlanItems(e) # {} ->
             [planCode |-> plan(Max(PlanItems(e))), status |-> "active"]
        [] e.type \in {"subscription.activated", "subscription.updated"} /\ PlanItems(e) # {} ->
             [planCode |-> plan(Min(PlanItems(e))),
              status |-> IF e.status = "past_due" THEN "past_due" ELSE "active"]
        [] e.type = "subscription.canceled" -> [planCode |-> "trial", status |-> "canceled"]
        [] e.type = "transaction.payment_failed" ->
             [planCode |-> IF PlanItems(e) = {} THEN "trial" ELSE plan(Min(PlanItems(e))),
              status |-> "past_due"]
        [] OTHER -> NoChange

-----------------------------------------------------------------------------
(* The webhook                                                             *)

\* Paddle delivers an event.  resolveUserId() knows the customer by the id of the
\* checkout, or by the address of a registered user; an unknown one is acknowledged.
Deliver(h, e) ==
  /\ handler[h].step = "idle"
  /\ e.byId => user.registered
  /\ IF e.id \in answered \/ \E g \in Handlers : handler[g].event = e.id
     THEN /\ e.id \notin ignored /\ faults < MaxFaults
          /\ faults' = faults + 1
     ELSE UNCHANGED faults
  /\ IF user.registered
     THEN /\ handler' = [handler EXCEPT ![h] = [Idle EXCEPT !.event = e.id, !.step = "received"]]
          /\ UNCHANGED <<answered, ignored>>
     ELSE answered' = answered \cup {e.id} /\ ignored' = ignored \cup {e.id} /\ UNCHANGED handler
  /\ UNCHANGED <<now, user, subscriptions, ledger, row, verify, flushing, missed, overdrawn>>

\* applyOutcome(): one transaction for the entries, the plan and the subscription, where
\* the event names one.
Applies(h, e) ==
  LET change == PlanChange(e)
      hs == [handler EXCEPT ![h].step = "applied"]
  IN  /\ handler[h].step = "received" /\ handler[h].event = e.id
      /\ ledger' = Inserted(Grants(e))
      /\ user' = IF change = NoChange THEN user ELSE [user EXCEPT !.planCode = change.planCode]
      /\ subscriptions' =
           IF change = NoChange \/ e.subscription = "none" THEN subscriptions
           ELSE [s \in DOMAIN subscriptions \cup {e.subscription} |->
                   IF s = e.subscription THEN change ELSE subscriptions[s]]
      /\ IF ledger' = ledger
         THEN handler' = hs /\ UNCHANGED missed
         ELSE handler' = Overtaken(hs, "grant") /\ missed' = missed \cup {"grant"}
      /\ UNCHANGED <<now, row, verify, answered, ignored, flushing, faults, overdrawn>>

\* refreshBalance() reads its sums.
Sums(h) ==
  /\ handler[h].step = "applied"
  /\ handler' = [handler EXCEPT ![h].step = "summed", ![h].sums = Live, ![h].missed = {}]
  /\ UNCHANGED <<now, user, subscriptions, ledger, row, verify, answered, ignored, flushing, faults,
                 missed, overdrawn>>

\* Faulty variant: what is refreshed is added to what is there.
Added(sums) == [b \in Buckets |-> row[b] + sums[b]]

Replaced(sums) == sums

\* It writes them, whatever the row has become, and the event is answered.
Writes(h) ==
  /\ handler[h].step = "summed"
  /\ row' = Replaced(handler[h].sums)
  /\ missed' = handler[h].missed
  /\ answered' = answered \cup {handler[h].event}
  /\ handler' = [handler EXCEPT ![h] = Idle]
  /\ UNCHANGED <<now, user, subscriptions, ledger, verify, ignored, flushing, faults, overdrawn>>

\* Faulty variant: the event is answered before it is worked on.
FailsAnswered(h) ==
  /\ handler[h].step # "idle"
  /\ faults < MaxFaults
  /\ faults' = faults + 1
  /\ handler' = [handler EXCEPT ![h] = Idle]
  /\ answered' = answered \cup {handler[h].event}
  /\ UNCHANGED <<now, user, subscriptions, ledger, row, verify, ignored, flushing, missed, overdrawn>>

\* Something fails before the answer; Paddle will deliver again.
WebhookFails(h) ==
  /\ handler[h].step # "idle"
  /\ faults < MaxFaults
  /\ faults' = faults + 1
  /\ handler' = [handler EXCEPT ![h] = Idle]
  /\ UNCHANGED <<now, user, subscriptions, ledger, row, verify, answered, ignored, flushing, missed, overdrawn>>

-----------------------------------------------------------------------------
(* Registration, verification and the relay                                *)

Links(t, step) == verify' = [verify EXCEPT ![t].step = step]

Register ==
  /\ ~user.registered
  /\ user' = [user EXCEPT !.registered = TRUE]
  /\ UNCHANGED <<now, subscriptions, ledger, row, webhookVars, verify, flushing, faults, missed, overdrawn>>

\* A link is sent on registration and on resend, as long as the address is unverified.
SendsLink(t) ==
  /\ user.registered /\ ~user.verified
  /\ verify[t].step = "none"
  /\ Links(t, "sent")
  /\ UNCHANGED <<now, user, subscriptions, ledger, row, webhookVars, flushing, faults, missed, overdrawn>>

\* The link is used up, and trialGrantedAt read.
OpensLink(t) ==
  /\ verify[t].step = "sent"
  /\ verify' = [verify EXCEPT ![t] = [step |-> "read", seen |-> user.trialGranted]]
  /\ UNCHANGED <<now, user, subscriptions, ledger, row, webhookVars, flushing, faults, missed, overdrawn>>

Verifies(t) ==
  /\ verify[t].step = "read"
  /\ user' = [user EXCEPT !.verified = TRUE]
  /\ Links(t, IF verify[t].seen THEN "done" ELSE "verified")
  /\ UNCHANGED <<now, subscriptions, ledger, row, webhookVars, flushing, faults, missed, overdrawn>>

TrialKey(t) == <<"trial_grant">>

\* The trial grant; nothing refreshes the balance.
GrantsTrial(t) ==
  /\ verify[t].step = "verified"
  /\ ledger' = Inserted({[key |-> TrialKey(t), delta |-> TrialCredits, bucket |-> "trial",
                          expires |-> Never]})
  /\ Links(t, "granted")
  /\ IF ledger' = ledger
     THEN UNCHANGED <<handler, missed>>
     ELSE handler' = Overtaken(handler, "trial") /\ missed' = missed \cup {"trial"}
  /\ UNCHANGED <<now, user, subscriptions, row, answered, ignored, flushing, faults, overdrawn>>

MarksTrial(t) ==
  /\ verify[t].step = "granted"
  /\ user' = [user EXCEPT !.trialGranted = TRUE]
  /\ Links(t, "done")
  /\ UNCHANGED <<now, subscriptions, ledger, row, webhookVars, flushing, faults, missed, overdrawn>>

\* The handler fails with the link used up.
VerifyFails(t) ==
  /\ verify[t].step \in {"read", "verified", "granted"}
  /\ faults < MaxFaults
  /\ faults' = faults + 1
  /\ Links(t, "failed")
  /\ UNCHANGED <<now, user, subscriptions, ledger, row, webhookVars, flushing, missed, overdrawn>>

\* The relay bills: a flush plans from the row it reads.  One that finds nothing to take
\* changes nothing; one that fails has changed nothing, and is one that never commits.
FlushReads(f) ==
  LET plan == PlanSpend(row, FlushAmount)
  IN  /\ flushing[f].step = "none"
      /\ Covered(plan) > 0
      /\ flushing' = [flushing EXCEPT ![f] = [step |-> "read", plan |-> plan, stale |-> "flush" \in missed]]
      /\ UNCHANGED <<now, user, subscriptions, ledger, row, webhookVars, verify, faults, missed, overdrawn>>

\* What a flush that has committed leaves to those that have planned: a plan too many.
Outdated(f) ==
  [g \in Flushes |-> IF g = f THEN [flushing[f] EXCEPT !.step = "done"]
                     ELSE IF flushing[g].step = "read" THEN [flushing[g] EXCEPT !.stale = TRUE]
                     ELSE flushing[g]]

\* Ledger and row change by the plan in one transaction, whatever they have become.
FlushCommits(f) ==
  LET plan == flushing[f].plan
  IN  /\ flushing[f].step = "read"
      /\ ledger' = Inserted({[key |-> <<"sess", f, b>>, delta |-> 0 - plan[b], bucket |-> b,
                              expires |-> Never] : b \in {c \in Buckets : plan[c] > 0}})
      /\ row' = [b \in Buckets |-> row[b] - plan[b]]
      /\ flushing' = Outdated(f)
      /\ handler' = Overtaken(handler, "flush")
      /\ overdrawn' = [b \in Buckets |-> IF flushing[f].stale THEN overdrawn[b] + plan[b] ELSE overdrawn[b]]
      /\ UNCHANGED <<now, user, subscriptions, verify, answered, ignored, faults, missed>>

\* A period passes; a grant may expire.
Passes ==
  /\ now < MaxNow
  /\ now' = now + 1
  /\ IF \E e \in ledger : e.delta > 0 /\ e.expires = now + 1
     THEN handler' = Overtaken(handler, "expiry") /\ missed' = missed \cup {"expiry"}
     ELSE UNCHANGED <<handler, missed>>
  /\ UNCHANGED <<user, subscriptions, ledger, row, verify, answered, ignored, flushing, faults, overdrawn>>

-----------------------------------------------------------------------------
Works(h) == (\E e \in Events : Applies(h, e)) \/ Sums(h) \/ Writes(h)

BillingNext ==
  \/ Register \/ Passes
  \/ \E f \in Flushes : FlushReads(f) \/ FlushCommits(f)
  \/ \E h \in Handlers : WebhookFails(h) \/ Works(h) \/ \E e \in Events : Deliver(h, e)
  \/ \E t \in Tokens : \/ SendsLink(t) \/ OpensLink(t) \/ Verifies(t) \/ GrantsTrial(t)
                       \/ MarksTrial(t) \/ VerifyFails(t)

BillingSpec == BillingInit /\ [][BillingNext]_billingVars

\* Handlers go on, and Paddle delivers until it is answered.
FairBilling ==
  /\ BillingSpec
  /\ \A h \in Handlers : WF_billingVars(Works(h))
  /\ \A e \in Events : WF_billingVars(\E h \in Handlers : e.id \notin answered /\ Deliver(h, e))
-----------------------------------------------------------------------------
(* Properties                                                              *)

PlanCodes == {"trial", "starter", "creator", "pro"}
Causes == {"grant", "trial", "flush", "expiry"}

\* Types.
BillingTypes ==
  /\ now \in 0..MaxNow
  /\ user \in [registered : BOOLEAN, verified : BOOLEAN, trialGranted : BOOLEAN, planCode : PlanCodes]
  /\ \A s \in DOMAIN subscriptions :
       subscriptions[s] \in [planCode : PlanCodes, status : {"active", "past_due", "canceled"}]
  /\ \A e \in ledger : e.delta \in Int \ {0} /\ e.bucket \in Buckets /\ e.expires \in 0..Never
  /\ row \in [Buckets -> Int] /\ overdrawn \in [Buckets -> Nat]
  /\ flushing \in [Flushes -> [step : {"none", "read", "done"}, plan : [Buckets -> Nat], stale : BOOLEAN]]
  /\ \A h \in Handlers : /\ handler[h].step \in {"idle", "received", "applied", "summed"}
                         /\ handler[h].sums \in [Buckets -> Int] /\ handler[h].missed \subseteq Causes
  /\ ignored \subseteq answered /\ missed \subseteq Causes

\* Whatever handlers and flushes overlap, the balance differs from the ledger only by a
\* grant, a trial or an expiry that no refresh has followed, or by a change a refresh
\* has overtaken; a refresh nobody overtakes repairs it (paddle.ts:159-182,
\* schema.ts:135).
RowIsLedger == missed = {} => row = Live

\* What an event is to grant, and what it has granted.
Named(entries) == {[key |-> g.key, delta |-> g.delta, bucket |-> g.bucket] : g \in entries}
Owed(e) == Named(Grants(e))
GrantedBy(e) == {g \in ledger : g.delta > 0 /\ \E i \in 1..Len(e.items) : g.key = <<e.id, i>>}

\* However often an event is delivered, to handlers that overlap or fail, it grants
\* each of its items once, and it is not answered before (paddle.ts:5-6, 84-88).  The
\* trial is granted at most once, whatever links are opened side by side; and once it is,
\* unless the handler of a link has failed with the link used up (verify/route.ts:38-55).
GrantedOnce ==
  LET trials == {e \in ledger : e.bucket = "trial" /\ e.delta > 0}
      bought == {e \in ledger : e.delta > 0} \ trials
  IN  /\ \A e \in Events : e.id \in answered \ ignored => Owed(e) = Named(GrantedBy(e))
      /\ bought = UNION {GrantedBy(e) : e \in Events}
      /\ Cardinality(trials) <= 1
      /\ user.verified /\ (\A t \in Tokens : verify[t].step \in {"none", "sent", "done"})
           => Cardinality(trials) = 1 /\ user.trialGranted

\* A bucket no grant of which has expired is in debt by no more than what flushes have
\* taken by plans that were stale: made from a row a refresh had written from sums
\* without an earlier flush, or overtaken by another flush before they were committed.
\* With one flush at a time and no refresh across one, no bucket goes below zero
\* (metering.ts:341-344, credits.ts:34, ledger.ts:48-51).
DebtHasCause ==
  \A b \in Buckets :
    \/ \E e \in ledger : e.bucket = b /\ e.delta > 0 /\ e.expires <= now
    \/ Live[b] + overdrawn[b] >= 0

\* Under FairBilling what a customer with an account buys is granted and answered, whatever
\* fails on the way (route.ts:50-54, 68-73).
PurchaseArrives ==
  \A e \in Events :
    user.registered /\ e.id \notin ignored ~> e.id \in answered /\ Owed(e) = Named(GrantedBy(e))
=============================================================================
