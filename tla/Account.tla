------------------------------ MODULE Account ------------------------------
(***************************************************************************)
(* One user's credits under several sessions at once                       *)
(* (apps/relay/src/metering.ts, createLedgerGateway; the session start     *)
(* route of the web app; packages/billing/src/ledger.ts).                  *)
(*                                                                         *)
(* The balance is in Postgres, by bucket; what sessions have been promised *)
(* and not billed yet is one number in Redis, the hold.  Every call of the *)
(* gateway is several round trips, and calls of different sessions, or of  *)
(* the tick and the close of one session, interleave between them.  Meter  *)
(* is one session's side of the same calls; here a session is reduced to   *)
(* what it has reserved, spent and not flushed.                            *)
(*                                                                         *)
(* Grants and refreshes of the balance are the subject of Billing.         *)
(***************************************************************************)
EXTENDS SpendPlan, FiniteSets, FiniteSetsExt

CONSTANTS
  Sessions,     \* the sessions of the user
  Granted,      \* credits granted to the account, by bucket
  Window,       \* credits of a whole reservation window
  MaxReserved   \* bound on what the sessions reserve together, for model checking only

ASSUME AccountAssumption ==
  /\ IsFiniteSet(Sessions)
  /\ Granted \in [Buckets -> Nat]
  /\ Window \in Nat \ {0}
  /\ MaxReserved \in Nat

VARIABLES
  balance,    \* credit_balances, by bucket
  billed,     \* session_usage entries in credit_ledger, by bucket, as a positive sum
  hold,       \* the value of hold:{userId}; 0 when the key is absent
  phase,      \* of each session
  opening,    \* of each session: the reservation the start route priced it at
  reserved, spent, pending,   \* of each session's meter
  call,       \* of each caller: the gateway call in progress
  \* History, for the properties only:
  forgiven,   \* credits spent and never billed: failed writes
  shortfall,  \* credits spent and never billed: no bucket had them
  faulty,     \* a gateway call has failed
  expired     \* the hold has reached its time to live

sessionVars == <<phase, opening, reserved, spent, pending>>
ghostVars   == <<forgiven, shortfall, faulty, expired>>
vars == <<balance, billed, hold, sessionVars, call, ghostVars>>

\* Each session may have a call of its tick and one of its close in flight.
Callers == Sessions \X {"tick", "close"}

NoCall == [op |-> "none", step |-> "none", amount |-> 0, free |-> 0,
           seen |-> [b \in Buckets |-> 0]]

Busy(c) == call[c].op # "none"

SumOf(f) == FoldSet(LAMBDA s, acc : f[s] + acc, 0, Sessions)

Init ==
  /\ balance = Granted
  /\ billed = [b \in Buckets |-> 0]
  /\ hold = 0
  /\ phase = [s \in Sessions |-> "new"]
  /\ opening = [s \in Sessions |-> 0]
  /\ reserved = [s \in Sessions |-> 0]
  /\ spent = [s \in Sessions |-> 0]
  /\ pending = [s \in Sessions |-> 0]
  /\ call = [c \in Callers |-> NoCall]
  /\ forgiven = 0 /\ shortfall = 0
  /\ faulty = FALSE /\ expired = FALSE

-----------------------------------------------------------------------------
(* Sessions                                                                *)

\* POST /api/session/start and the handshake: the opening window is what the
\* LEDGER still has, up to one window.  Nothing is put on hold for it, and the
\* hold of the user's other sessions is not looked at.  The relay then opens with
\* reserve(0), which reads and takes nothing.
Start(s) ==
  LET available == TotalAvailable([b \in Buckets |-> Granted[b] - billed[b]])
  IN  /\ phase[s] = "new"
      /\ available > 0
      /\ phase' = [phase EXCEPT ![s] = "running"]
      /\ opening' = [opening EXCEPT ![s] = Smaller(available, Window)]
      /\ reserved' = [reserved EXCEPT ![s] = Smaller(available, Window)]
      /\ UNCHANGED <<balance, billed, hold, spent, pending, call, ghostVars>>

\* A tick charges a credit; it does not start while the last one is in a call.
Burn(s) ==
  /\ phase[s] = "running"
  /\ ~Busy(<<s, "tick">>)
  /\ spent[s] < reserved[s]
  /\ spent' = [spent EXCEPT ![s] = @ + 1]
  /\ pending' = [pending EXCEPT ![s] = @ + 1]
  /\ UNCHANGED <<balance, billed, hold, phase, opening, reserved, call, ghostVars>>

Begin(c, op, step, amount) ==
  /\ ~Busy(c)
  /\ call' = [call EXCEPT ![c] = [NoCall EXCEPT !.op = op, !.step = step, !.amount = amount]]
  /\ UNCHANGED <<balance, billed, hold, opening, spent, forgiven, shortfall, faulty, expired>>

\* maybeTopUp(): less than a third of the window is left.
BeginReserve(s) ==
  /\ phase[s] = "running"
  /\ 100 * (reserved[s] - spent[s]) < 34 * Window
  /\ SumOf(reserved) + Window <= MaxReserved
  /\ Begin(<<s, "tick">>, "reserve", "buckets", Window)
  /\ UNCHANGED <<phase, reserved, pending>>

\* flushNow(): the interval is cleared before it is written.
BeginFlush(s, w) ==
  /\ pending[s] > 0
  /\ Begin(<<s, w>>, "flush", "buckets", pending[s])
  /\ pending' = [pending EXCEPT ![s] = 0]
  /\ UNCHANGED reserved

TickFlushes(s) ==
  /\ phase[s] = "running"
  /\ BeginFlush(s, "tick")
  /\ UNCHANGED phase

\* releaseUnused(): what was reserved and not spent.
Unused(s) == reserved[s] - spent[s]

\* Meter.close() up to its flush, or past it when nothing is pending.
Close(s) ==
  /\ phase[s] = "running"
  /\ phase' = [phase EXCEPT ![s] = "closing"]
  /\ \/ BeginFlush(s, "close")
     \/ pending[s] = 0 /\ UNCHANGED <<balance, billed, hold, opening, reserved, spent,
                                      pending, call, ghostVars>>

\* Meter.close() after its flush, whatever became of it.
CloseReleases(s) ==
  /\ phase[s] = "closing"
  /\ ~Busy(<<s, "close">>)
  /\ phase' = [phase EXCEPT ![s] = "closed"]
  /\ IF Unused(s) > 0
     THEN /\ Begin(<<s, "close">>, "release", "unhold", Unused(s))
          /\ reserved' = [reserved EXCEPT ![s] = @ - Unused(s)]
          /\ UNCHANGED pending
     ELSE UNCHANGED <<balance, billed, hold, opening, reserved, spent, pending, call, ghostVars>>

-----------------------------------------------------------------------------
(* The gateway, one round trip at a time                                   *)

At(c, op, step) == call[c].op = op /\ call[c].step = step

\* readBuckets(), in reserve() and in flush().
ReadsBuckets(c) ==
  /\ call[c].step = "buckets"
  /\ call' = [call EXCEPT ![c].seen = balance,
                          ![c].step = IF call[c].op = "reserve" THEN "hold" ELSE "commit"]
  /\ UNCHANGED <<balance, billed, hold, sessionVars, ghostVars>>

\* reserve() reads the hold after the buckets.
ReadsHold(c) ==
  /\ At(c, "reserve", "hold")
  /\ call' = [call EXCEPT ![c].free = TotalAvailable(call[c].seen) - hold, ![c].step = "take"]
  /\ UNCHANGED <<balance, billed, hold, sessionVars, ghostVars>>

\* Faulty variant: the hold is set from the value read, and not incremented.
SetsHold(c) ==
  LET granted == Positive(Smaller(call[c].amount, call[c].free))
      read    == TotalAvailable(call[c].seen) - call[c].free
  IN  /\ At(c, "reserve", "take")
      /\ hold' = read + granted
      /\ call' = [call EXCEPT ![c] = NoCall]
      /\ reserved' = [reserved EXCEPT ![c[1]] = @ + granted]
      /\ UNCHANGED <<balance, billed, phase, opening, spent, pending, ghostVars>>

\* reserve() puts the grant on hold and hands it to the meter; or `expire` fails
\* after the hold was taken, and the meter never hears of the grant.
TakesHold(c) ==
  LET granted == Positive(Smaller(call[c].amount, call[c].free))
  IN  /\ At(c, "reserve", "take")
      /\ hold' = hold + granted
      /\ call' = [call EXCEPT ![c] = NoCall]
      /\ \/ reserved' = [reserved EXCEPT ![c[1]] = @ + granted] /\ UNCHANGED faulty
         \/ granted > 0 /\ faulty' = TRUE /\ UNCHANGED reserved
      /\ UNCHANGED <<balance, billed, phase, opening, spent, pending, forgiven, shortfall, expired>>

\* Faulty variant: the balance pays the whole entry, the ledger what was covered.
CommitsUncovered(c) ==
  LET plan == PlanSpend(call[c].seen, call[c].amount)
  IN  /\ At(c, "flush", "commit")
      /\ billed' = [b \in Buckets |-> billed[b] + plan[b]]
      /\ balance' = [balance EXCEPT !["topup"] = @ - call[c].amount]
      /\ shortfall' = shortfall + call[c].amount - Covered(plan)
      /\ call' = [call EXCEPT ![c].step = "unhold"]
      /\ UNCHANGED <<hold, sessionVars, forgiven, faulty, expired>>

\* flush(): one transaction writes the entries of the plan and takes the same off
\* the balance.  The plan was made from the buckets as they were read before it.
Commits(c) ==
  LET plan == PlanSpend(call[c].seen, call[c].amount)
  IN  /\ At(c, "flush", "commit")
      /\ billed' = [b \in Buckets |-> billed[b] + plan[b]]
      /\ balance' = [b \in Buckets |-> balance[b] - plan[b]]
      /\ shortfall' = shortfall + call[c].amount - Covered(plan)
      /\ call' = [call EXCEPT ![c].step = "unhold"]
      /\ UNCHANGED <<hold, sessionVars, forgiven, faulty, expired>>

\* Faulty variant: the hold gives up the whole entry.
UnholdsAmount(c) ==
  /\ call[c].step = "unhold"
  /\ hold' = hold - call[c].amount
  /\ call' = [call EXCEPT ![c] = NoCall]
  /\ UNCHANGED <<balance, billed, sessionVars, ghostVars>>

\* flush() takes what the plan covered off the hold, release() what it was given.
Unholds(c) ==
  LET freed == IF call[c].op = "flush"
               THEN Covered(PlanSpend(call[c].seen, call[c].amount))
               ELSE call[c].amount
  IN  /\ call[c].step = "unhold"
      /\ hold' = hold - freed
      /\ call' = [call EXCEPT ![c] = NoCall]
      /\ UNCHANGED <<balance, billed, sessionVars, ghostVars>>

\* A round trip fails and the call with it.  A flush that has not committed is
\* forgiven; one that has leaves its hold behind, and so does a failed release.
Fails(c) ==
  /\ Busy(c)
  /\ call' = [call EXCEPT ![c] = NoCall]
  /\ forgiven' = IF call[c].op = "flush" /\ call[c].step # "unhold"
                 THEN forgiven + call[c].amount
                 ELSE forgiven
  /\ faulty' = TRUE
  /\ UNCHANGED <<balance, billed, hold, sessionVars, shortfall, expired>>

\* HOLD_TTL_SECONDS without a call that moves the hold: the sessions are silent, or
\* gone.  The key goes, and the sessions that are still open do not hear of it.
HoldExpires ==
  /\ \A c \in Callers : ~Busy(c)
  /\ hold # 0
  /\ hold' = 0
  /\ expired' = TRUE
  /\ UNCHANGED <<balance, billed, sessionVars, call, forgiven, shortfall, faulty>>

-----------------------------------------------------------------------------
Next ==
  \/ \E s \in Sessions : \/ Start(s) \/ Burn(s) \/ BeginReserve(s) \/ TickFlushes(s)
                         \/ Close(s) \/ CloseReleases(s)
  \/ \E c \in Callers : \/ ReadsBuckets(c) \/ ReadsHold(c) \/ TakesHold(c)
                        \/ Commits(c) \/ Unholds(c) \/ Fails(c)
  \/ HoldExpires

Spec == Init /\ [][Next]_vars

-----------------------------------------------------------------------------
(* Properties                                                              *)

Calls == [op : {"none", "reserve", "flush", "release"},
          step : {"none", "buckets", "hold", "take", "commit", "unhold"},
          amount : Nat, free : Int, seen : [Buckets -> Int]]

\* Types.
TypeOK ==
  /\ balance \in [Buckets -> Int] /\ billed \in [Buckets -> Nat] /\ hold \in Int
  /\ phase \in [Sessions -> {"new", "running", "closing", "closed"}]
  /\ \A f \in {opening, reserved, spent, pending} : f \in [Sessions -> Nat]
  /\ \A s \in Sessions : spent[s] <= reserved[s]
  /\ call \in [Callers -> Calls]
  /\ forgiven \in Nat /\ shortfall \in Nat
  /\ {faulty, expired} \subseteq BOOLEAN

\* Credits of a session that are spent and whose flush has not committed.
Carried(c) == IF call[c].op = "flush" /\ call[c].step # "unhold" THEN call[c].amount ELSE 0

InFlight(s) == Carried(<<s, "tick">>) + Carried(<<s, "close">>)

\* What a session may still take from the account: reserved or spent, not billed.
Promised == SumOf([s \in Sessions |-> reserved[s] - spent[s] + pending[s] + InFlight(s)])

\* Whatever overlaps and whatever fails, every credit spent by any session is
\* billed, forgiven, uncovered or on its way, and the balance has paid exactly what
\* the ledger has billed (metering.ts:316-317).
BooksBalance ==
  /\ SumOf(spent) = Total(billed) + forgiven + shortfall
                      + SumOf([s \in Sessions |-> pending[s] + InFlight(s)])
  /\ \A b \in Buckets : balance[b] = Granted[b] - billed[b]

\* Until its time to live ends it, the hold and the opening windows cover what the
\* sessions have been promised, through every overlap and failure
\* (metering.ts:315-317, 373-374).
HoldCovers == ~expired => hold + SumOf(opening) >= Promised

\* When every session is closed and no call has failed, the hold is what the
\* accounts leave behind: the uncovered credits and the grants that came after the
\* release stay on it, and the opening windows have been taken off it though they
\* were never put on (metering.ts:174-178, 378-382).
HoldSettles ==
  /\ \A s \in Sessions : phase[s] \in {"new", "closed"}
  /\ \A c \in Callers : ~Busy(c)
  /\ ~faulty /\ ~expired
  => hold = shortfall + SumOf([s \in Sessions |-> reserved[s] - spent[s]]) - SumOf(opening)
=============================================================================
