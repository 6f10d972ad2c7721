------------------------------- MODULE Meter -------------------------------
(***************************************************************************)
(* The billing clock of one caption session                                *)
(* (apps/relay/src/metering.ts, class Meter, driven by SessionActor.onTick *)
(* and SessionActor.performClose).                                         *)
(*                                                                         *)
(* The relay is one JavaScript event loop.  A handler runs to its next     *)
(* await without interruption, so the stages of a tick are actions of      *)
(* their own, and everything that comes from outside (the clock, an audio  *)
(* frame, the timer, an answer of the gateway, a close) waits until no     *)
(* handler holds the loop: OnLoop.  Only `reserve`, `flush` and `release`  *)
(* are real awaits; between the question and the answer anything may       *)
(* happen, a close included.                                               *)
(*                                                                         *)
(* One unit of time is a second and credits are whole numbers: round4 is   *)
(* exact on them.  billableMs grows by charged / rate, so it is spent /    *)
(* Rate seconds and needs no variable; a flush with no credits therefore   *)
(* has no seconds either.                                                  *)
(***************************************************************************)
EXTENDS Integers

CONSTANTS
  Rate,             \* credits burned per second (burnRatePerSecond)
  Window,           \* RESERVATION_WINDOW_SECONDS
  FlushInterval,    \* LEDGER_FLUSH_INTERVAL_MS, in seconds
  Grace,            \* ZERO_BALANCE_GRACE_SECONDS
  SilencePause,     \* SILENCE_PAUSE_MS, in seconds
  CriticalSeconds,  \* CRITICAL_SECONDS_LEFT
  OpeningReserve,   \* MeterOptions.reserved
  OpeningBalance,   \* MeterOptions.balanceRemaining
  FreeBalances,     \* what `reserve` may find available on the account
  MaxClock          \* bound on the clock, for model checking only

ASSUME MeterAssumption ==
  /\ Rate \in Nat \ {0}
  /\ Window \in Nat \ {0}
  /\ FlushInterval \in Nat \ {0}
  /\ Grace \in Nat
  /\ SilencePause \in Nat \ {0}
  /\ CriticalSeconds \in Nat
  /\ OpeningReserve \in Nat
  /\ OpeningBalance \in Nat
  /\ FreeBalances \subseteq Nat
  /\ MaxClock \in Nat

None == -1    \* graceStartedAt === null

VARIABLES
  clock,             \* Date.now(), in seconds since the meter was built
  firedAt,           \* the second at which the actor's interval last fired
  lastTickAt, lastAudioAt, lastFlushAt,
  reserved, spent,   \* the Reservation
  balanceRemaining,
  pending,           \* pendingCredits
  graceStartedAt, warned, exhausted, closed,
  tickNow,           \* `now` of the tick in progress: read once, used to its end
  tickStage,         \* where the tick in progress stands
  tickEntry,         \* credits of the ledger entry the tick is writing
  closeStage,        \* where the close stands
  closeAmount,       \* credits the close is writing to the ledger, then releasing
  \* The account's side, as the gateway sees it:
  ledger,            \* credits this session has in the append-only ledger
  dropped,           \* credits never written: failed flushes, or more than the account had
  hold,              \* what this session has added to the Redis hold, and taken off it
  \* History, for the properties only:
  live,              \* elapsed seconds that had audio within SilencePause
  stalled,           \* interval firings skipped because a tick was in flight
  tickFailed         \* the last tick ended in an error of `reserve`

timeVars   == <<clock, firedAt, lastTickAt, lastAudioAt>>
creditVars == <<reserved, spent, balanceRemaining>>
flagVars   == <<graceStartedAt, warned, exhausted>>
gateVars   == <<ledger, dropped, hold>>
ghostVars  == <<live, stalled, tickFailed>>
vars == <<timeVars, lastFlushAt, creditVars, pending, flagVars, closed, tickNow,
          tickStage, tickEntry, closeStage, closeAmount, gateVars, ghostVars>>

TickStages  == {"idle", "topUp", "reserving", "flush", "writing", "finish"}
CloseStages == {"open", "asked", "writing", "release", "releasing", "done"}

\* No handler is running: the event loop may take the next event.
OnLoop ==
  /\ tickStage \in {"idle", "reserving", "writing"}
  /\ closeStage \in {"open", "writing", "releasing", "done"}

Smaller(a, b) == IF a < b THEN a ELSE b

-----------------------------------------------------------------------------
(* The reservation (packages/billing/src/ledger.ts)                        *)

ReservationRemaining == reserved - spent

NeedsTopUp == 100 * ReservationRemaining < 34 * Rate * Window

ReleaseUnused == IF ReservationRemaining > 0 THEN ReservationRemaining ELSE 0

RemainingCredits ==
  LET all == balanceRemaining + ReservationRemaining
  IN  IF all > 0 THEN all ELSE 0

Idle == clock - lastAudioAt >= SilencePause

-----------------------------------------------------------------------------
Init ==
  /\ clock = 0 /\ firedAt = 0
  /\ lastTickAt = 0 /\ lastAudioAt = 0 /\ lastFlushAt = 0
  /\ reserved = OpeningReserve /\ spent = 0
  /\ balanceRemaining = OpeningBalance
  /\ pending = 0
  /\ graceStartedAt = None /\ warned = {} /\ exhausted = FALSE /\ closed = FALSE
  /\ tickNow = 0 /\ tickStage = "idle" /\ tickEntry = 0
  /\ closeStage = "open" /\ closeAmount = 0
  /\ ledger = 0 /\ dropped = 0 /\ hold = 0
  /\ live = 0 /\ stalled = 0 /\ tickFailed = FALSE

-----------------------------------------------------------------------------
(* The outside world                                                       *)

\* A second passes.  The interval is punctual: it has fired in this second,
\* unless the close has cleared it.  Once the session is over there is nothing
\* left to time.  MaxClock bounds the run.
ClockAdvances ==
  /\ OnLoop
  /\ clock < MaxClock
  /\ firedAt = clock \/ closed
  /\ ~(closeStage = "done" /\ tickStage = "idle")
  /\ clock' = clock + 1
  /\ live' = IF clock > 0 /\ clock - lastAudioAt < SilencePause THEN live + 1 ELSE live
  /\ UNCHANGED <<firedAt, lastTickAt, lastAudioAt, lastFlushAt, creditVars, pending,
                 flagVars, closed, tickNow, tickStage, tickEntry, closeStage,
                 closeAmount, gateVars, stalled, tickFailed>>

\* An audio frame reaches a RUNNING actor.
MarkAudio ==
  /\ OnLoop
  /\ ~closed
  /\ lastAudioAt < clock
  /\ lastAudioAt' = clock
  /\ UNCHANGED <<clock, firedAt, lastTickAt, lastFlushAt, creditVars, pending,
                 flagVars, closed, tickNow, tickStage, tickEntry, closeStage,
                 closeAmount, gateVars, ghostVars>>

-----------------------------------------------------------------------------
(* The tick                                                                *)

\* A tick is still waiting for the gateway: onTick returns at once.
TickSkipped ==
  /\ OnLoop
  /\ firedAt < clock
  /\ ~closed
  /\ tickStage # "idle"
  /\ firedAt' = clock
  /\ stalled' = stalled + 1
  /\ UNCHANGED <<clock, lastTickAt, lastAudioAt, lastFlushAt, creditVars, pending,
                 flagVars, closed, tickNow, tickStage, tickEntry, closeStage,
                 closeAmount, gateVars, live, tickFailed>>

\* enterGrace(now): idempotent, warns once in the life of a session.
EnterGrace(now) ==
  /\ graceStartedAt' = IF graceStartedAt = None THEN now ELSE graceStartedAt
  /\ warned' = IF graceStartedAt = None THEN warned \cup {"CREDITS_CRITICAL"} ELSE warned

\* charge(): `wanted`, as far as the reservation covers it.
ChargeUpTo(wanted, charged) ==
  /\ spent' = spent + charged
  /\ pending' = pending + charged
  /\ IF charged < wanted THEN EnterGrace(clock) ELSE UNCHANGED <<graceStartedAt, warned>>

Burned(elapsed) == IF Idle THEN 0 ELSE elapsed * Rate

\* Faulty variant: a charge may exceed the reservation.
ChargeOnCredit(elapsed) == ChargeUpTo(Burned(elapsed), Burned(elapsed))

\* charge(): silence costs nothing, and the reservation is never exceeded.
Charge(elapsed) ==
  ChargeUpTo(Burned(elapsed), Smaller(Burned(elapsed), ReservationRemaining))

Tick ==
  /\ OnLoop
  /\ firedAt < clock
  /\ ~closed
  /\ tickStage = "idle"
  /\ firedAt' = clock
  /\ tickNow' = clock
  /\ lastTickAt' = clock
  /\ Charge(clock - lastTickAt)
  /\ tickStage' = "topUp"
  /\ UNCHANGED <<clock, lastAudioAt, lastFlushAt, reserved, balanceRemaining, exhausted,
                 closed, tickEntry, closeStage, closeAmount, gateVars, ghostVars>>

\* maybeTopUp() up to its await.
AskReserve ==
  /\ tickStage = "topUp"
  /\ tickStage' = IF ~exhausted /\ NeedsTopUp THEN "reserving" ELSE "flush"
  /\ UNCHANGED <<timeVars, lastFlushAt, creditVars, pending, flagVars, closed, tickNow,
                 tickEntry, closeStage, closeAmount, gateVars, ghostVars>>

\* reserve(): as much of the window as the account has available.
GrantOf(available) == Smaller(Rate * Window, available)

\* The gateway answers: it grants the window, or what is left of the balance.
ReserveAnswered ==
  /\ OnLoop
  /\ tickStage = "reserving"
  /\ \E available \in FreeBalances :
       LET granted == GrantOf(available)
       IN  /\ balanceRemaining' = available - granted
           /\ reserved' = reserved + granted
           /\ hold' = hold + granted
           /\ IF granted > 0
              THEN graceStartedAt' = None /\ UNCHANGED warned
              ELSE EnterGrace(tickNow)
  /\ tickStage' = "flush"
  /\ UNCHANGED <<timeVars, lastFlushAt, spent, pending, exhausted, closed, tickNow,
                 tickEntry, closeStage, closeAmount, ledger, dropped, ghostVars>>

\* The gateway fails: the tick is rejected, and with it the flush and the grace
\* check that were to follow.  SessionActor.onTick logs and goes on.  Where only the
\* `expire` that follows has failed, the grant is on hold all the same.
ReserveFails ==
  /\ OnLoop
  /\ tickStage = "reserving"
  /\ hold' \in {hold} \cup {hold + GrantOf(available) : available \in FreeBalances}
  /\ tickStage' = "idle"
  /\ tickFailed' = TRUE
  /\ UNCHANGED <<timeVars, lastFlushAt, creditVars, pending, flagVars, closed, tickNow,
                 tickEntry, closeStage, closeAmount, ledger, dropped, live, stalled>>

\* Faulty variant: off by one.
FlushOverdue == tickNow - lastFlushAt > FlushInterval

\* A flush is due one interval after the last one.
FlushDue == tickNow - lastFlushAt >= FlushInterval

\* Faulty variant: the interval is kept until the write has succeeded.
FlushWithoutClearing ==
  /\ tickStage = "flush"
  /\ lastFlushAt' = (IF FlushDue THEN tickNow ELSE lastFlushAt)
  /\ tickEntry' = (IF FlushDue THEN pending ELSE 0)
  /\ tickStage' = IF FlushDue /\ pending > 0 THEN "writing" ELSE "finish"
  /\ UNCHANGED <<timeVars, creditVars, pending, flagVars, closed, tickNow, closeStage,
                 closeAmount, gateVars, ghostVars>>

\* maybeFlush() and flushNow() up to the await.  The interval is cleared BEFORE
\* it is written, so that a failure drops it instead of charging it twice.
MaybeFlush ==
  /\ tickStage = "flush"
  /\ lastFlushAt' = (IF FlushDue THEN tickNow ELSE lastFlushAt)
  /\ tickEntry' = (IF FlushDue THEN pending ELSE 0)
  /\ pending' = (IF FlushDue THEN 0 ELSE pending)
  /\ tickStage' = IF FlushDue /\ pending > 0 THEN "writing" ELSE "finish"
  /\ UNCHANGED <<timeVars, creditVars, flagVars, closed, tickNow, closeStage,
                 closeAmount, gateVars, ghostVars>>

\* Faulty variant: the write is committed and reported as failed all the same.
EntrySettlesBothWays(c) ==
  \/ ledger' = ledger + c /\ hold' = hold - c /\ UNCHANGED dropped
  \/ dropped' = dropped + c /\ UNCHANGED <<ledger, hold>>
  \/ ledger' = ledger + c /\ dropped' = dropped + c /\ UNCHANGED hold

Committed(c, covered) == ledger' = ledger + covered /\ dropped' = dropped + (c - covered)

\* Three ends of a ledger write of c credits, of which the buckets cover as many as
\* they hold (planSpend): written, and off the hold; failed before the commit, and
\* dropped; committed, but the hold was not reduced.
EntrySettles(c) ==
  \/ \E covered \in 0..c : Committed(c, covered) /\ hold' = hold - covered
  \/ dropped' = dropped + c /\ UNCHANGED <<ledger, hold>>
  \/ \E covered \in 0..c : Committed(c, covered) /\ UNCHANGED hold

TickEntrySettles ==
  /\ OnLoop
  /\ tickStage = "writing"
  /\ EntrySettles(tickEntry)
  /\ tickEntry' = 0
  /\ tickStage' = "finish"
  /\ UNCHANGED <<timeVars, lastFlushAt, creditVars, pending, flagVars, closed, tickNow,
                 closeStage, closeAmount, ghostVars>>

\* emitCredits(): CREDITS_CRITICAL outranks LOW_CREDITS, each is sent once.
EmitCredits ==
  LET critical == "CREDITS_CRITICAL" \notin warned
                  /\ RemainingCredits \div Rate <= CriticalSeconds
      low      == OpeningReserve + OpeningBalance > 0
                  /\ 5 * RemainingCredits <= OpeningReserve + OpeningBalance
  IN  warned' = warned \cup (IF critical THEN {"CREDITS_CRITICAL"} ELSE {})
                       \cup (IF ~critical /\ low THEN {"LOW_CREDITS"} ELSE {})

\* checkGrace(): the grace period has run its length.
GraceOver ==
  /\ ~exhausted
  /\ graceStartedAt # None
  /\ tickNow - graceStartedAt >= Grace

\* The end of a tick: emitCredits(), then checkGrace(), whose onExhausted calls
\* the actor's close() before the handler returns.
FinishTick ==
  /\ tickStage = "finish"
  /\ EmitCredits
  /\ tickStage' = "idle"
  /\ tickFailed' = FALSE
  /\ IF GraceOver
     THEN /\ exhausted' = TRUE
          /\ closeStage' = IF closed THEN closeStage ELSE "asked"
     ELSE UNCHANGED <<exhausted, closeStage>>
  /\ UNCHANGED <<timeVars, lastFlushAt, creditVars, pending, graceStartedAt, closed,
                 tickNow, tickEntry, closeAmount, gateVars, live, stalled>>

-----------------------------------------------------------------------------
(* The close                                                               *)

\* close() up to its first await: the session ends for a reason of its own (the
\* studio leaves, an upstream dies, a drain) or because the credits are gone.
Close ==
  /\ closeStage = "asked" \/ (closeStage = "open" /\ OnLoop)
  /\ closed' = TRUE
  /\ lastFlushAt' = clock
  /\ closeAmount' = pending
  /\ pending' = 0
  /\ closeStage' = IF pending > 0 THEN "writing" ELSE "release"
  /\ UNCHANGED <<timeVars, creditVars, flagVars, tickNow, tickStage, tickEntry,
                 gateVars, ghostVars>>

CloseEntrySettles ==
  /\ OnLoop
  /\ closeStage = "writing"
  /\ EntrySettles(closeAmount)
  /\ closeAmount' = 0
  /\ closeStage' = "release"
  /\ UNCHANGED <<timeVars, lastFlushAt, creditVars, pending, flagVars, closed, tickNow,
                 tickStage, tickEntry, ghostVars>>

\* The unused part of the reservation as it stands now, and not as it will stand
\* when a `reserve` still in flight has answered.
Release ==
  /\ closeStage = "release"
  /\ closeAmount' = ReleaseUnused
  /\ reserved' = reserved - ReleaseUnused
  /\ closeStage' = IF ReleaseUnused > 0 THEN "releasing" ELSE "done"
  /\ UNCHANGED <<timeVars, lastFlushAt, spent, balanceRemaining, pending, flagVars,
                 closed, tickNow, tickStage, tickEntry, gateVars, ghostVars>>

\* Faulty variant: a failed release leaves the close unfinished.
ReleaseAbortsClose ==
  /\ OnLoop
  /\ closeStage = "releasing"
  /\ \/ hold' = hold - closeAmount /\ closeStage' = "done"
     \/ hold' = hold /\ closeStage' = "open"
  /\ closeAmount' = 0
  /\ UNCHANGED <<timeVars, lastFlushAt, creditVars, pending, flagVars, closed, tickNow,
                 tickStage, tickEntry, ledger, dropped, ghostVars>>

\* `release` answers, or fails: performClose logs it and ends the session anyway.
ReleaseAnswered ==
  /\ OnLoop
  /\ closeStage = "releasing"
  /\ hold' \in {hold - closeAmount, hold}
  /\ closeAmount' = 0
  /\ closeStage' = "done"
  /\ UNCHANGED <<timeVars, lastFlushAt, creditVars, pending, flagVars, closed, tickNow,
                 tickStage, tickEntry, ledger, dropped, ghostVars>>

-----------------------------------------------------------------------------
Next ==
  \/ ClockAdvances \/ MarkAudio
  \/ TickSkipped \/ Tick \/ AskReserve \/ ReserveAnswered \/ ReserveFails
  \/ MaybeFlush \/ TickEntrySettles \/ FinishTick
  \/ Close \/ CloseEntrySettles \/ Release \/ ReleaseAnswered

Spec == Init /\ [][Next]_vars

\* The event loop runs a started handler to its end, and every call of the
\* gateway comes back, with an answer or with an error.  Nothing makes the clock
\* advance, audio arrive or a session close of its own accord.
FairSpec ==
  /\ Spec
  /\ WF_vars(AskReserve \/ MaybeFlush \/ FinishTick)
  /\ WF_vars(ReserveAnswered \/ ReserveFails)
  /\ WF_vars(TickEntrySettles)
  /\ WF_vars(closeStage = "asked" /\ Close)
  /\ WF_vars(CloseEntrySettles \/ Release \/ ReleaseAnswered)

-----------------------------------------------------------------------------
(* Properties                                                              *)

\* Types.
TypeOK ==
  /\ clock \in Nat /\ firedAt \in Nat /\ tickNow \in Nat
  /\ lastTickAt \in Nat /\ lastAudioAt \in Nat /\ lastFlushAt \in Nat
  /\ reserved \in Nat /\ spent \in Nat /\ balanceRemaining \in Nat
  /\ pending \in Nat /\ tickEntry \in Nat /\ closeAmount \in Nat
  /\ ledger \in Nat /\ dropped \in Nat /\ hold \in Int
  /\ live \in Nat /\ stalled \in Nat
  /\ graceStartedAt \in Nat \cup {None}
  /\ warned \subseteq {"LOW_CREDITS", "CREDITS_CRITICAL"}
  /\ exhausted \in BOOLEAN /\ closed \in BOOLEAN /\ tickFailed \in BOOLEAN
  /\ tickStage \in TickStages
  /\ closeStage \in CloseStages

\* Credits consumed and not settled: waiting for a flush, or being written by
\* the tick or by the close, which can be writing at the same time.
Unbilled == pending + tickEntry + (IF closeStage = "writing" THEN closeAmount ELSE 0)

\* Every credit the meter charged is in exactly one place: in the ledger, given
\* up after a failed write, or not settled yet.  Neither the two writers of a
\* closing session nor a failed write can bill a credit twice (metering.ts:87,
\* 226-227).
EveryCreditOnce == spent = ledger + dropped + Unbilled

\* What this session has reserved beyond its opening window and may still send to
\* the ledger is on hold for it, at every step and after any failed call of the
\* gateway: no other session can be promised it (metering.ts:315-317, 373).  The
\* opening window itself is on nobody's hold, whatever metering.ts:61 says; that,
\* and the hold's time to live, is what Account is about.
HoldCoversSession == hold + OpeningReserve >= reserved - ledger /\ spent <= reserved

\* Between two ticks, as long as the last one was not cut short by an error, an
\* open session has less than one flush interval outside the ledger, so that a
\* crash loses at most that (metering.ts:87-88).
CrashLossBounded ==
  tickStage = "idle" /\ ~closed /\ ~tickFailed => pending < Rate * FlushInterval

\* A second is charged only if audio came within SilencePause of it, or if it
\* went by while a tick was waiting for the gateway (metering.ts:89-90).
SilenceIsFree ==
  LET now == IF clock > 0 /\ clock - lastAudioAt < SilencePause THEN 1 ELSE 0
  IN  spent <= Rate * (live + stalled + now)

\* Between two ticks the grace period runs only while the reservation needs
\* topping up, and unless the last tick was cut short by an error it has not run
\* out: the free minute ends on time (metering.ts:208-211, 251-256).
GraceIsShort ==
  tickStage = "idle" /\ ~exhausted /\ graceStartedAt # None =>
    /\ NeedsTopUp
    /\ ~tickFailed => lastTickAt - graceStartedAt < Grace

\* A session that is closing, or whose grace has run out, has settled with the
\* account in the end, whatever fails on the way (session-actor.ts:484-495).
ClosingSettles == closed \/ exhausted ~> closeStage = "done"

\* The abstract ledger, with the two writers' entries as credits still open.
Abstract == INSTANCE BillOnce WITH open <- Unbilled, billed <- ledger, forgiven <- dropped

\* The billing clock implements it: a step consumes, or settles each credit once.
BillsOnce == Abstract!Spec
=============================================================================
