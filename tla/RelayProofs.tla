--------------------------- MODULE RelayProofs ----------------------------
(***************************************************************************)
(* Proofs about the parts of the relay that know nothing of captions: the  *)
(* billing clock of a session (Meter), the client of the transcription     *)
(* service (SttClient), and the sessions of a user with the drain of       *)
(* their relay (Relay).                                                    *)
(***************************************************************************)
EXTENDS Meter, SttClient, Relay, FiniteSetTheorems, TLAPS

-----------------------------------------------------------------------------
(***************************************************************************)
(* The safety properties of the billing clock, for every rate, window,     *)
(* interval and opening balance, and that it implements BillOnce.          *)
(***************************************************************************)

(* Credits: what is charged, reserved, billed and on hold                  *)

\* What the close is writing, and what it is handing back, are never the same
\* credits; nothing is pending once the meter is closed.
WritersInv ==
  /\ tickStage # "writing" => tickEntry = 0
  /\ closeStage \notin {"writing", "releasing"} => closeAmount = 0
  /\ closed <=> (closeStage \notin {"open", "asked"})
  /\ closed => pending = 0

\* HoldCoversSession, with the amount a `release` in flight is about to take off.
HoldInv ==
  /\ spent <= reserved
  /\ hold + OpeningReserve >= reserved - ledger + (IF closeStage = "releasing" THEN closeAmount ELSE 0)

\* The clock, the interval and the ticks it started, in this order.
ClockInv == lastTickAt <= firedAt /\ firedAt <= clock

CreditInv == TypeOK /\ ClockInv /\ WritersInv /\ EveryCreditOnce /\ HoldInv

\* A session opens with nothing spent, billed or held.
LEMMA CreditInit == Init => CreditInv
<1> SUFFICES ASSUME Init PROVE CreditInv
  OBVIOUS
<1>1. OpeningReserve \in Nat /\ OpeningBalance \in Nat
  BY MeterAssumption
<1>2. TypeOK
  <2>1. hold = 0 /\ 0 \in Int
    BY DEF Init
  <2>2. QED
    BY <1>1, <2>1 DEF Init, TypeOK, TickStages, CloseStages
<1>3. ClockInv /\ WritersInv /\ EveryCreditOnce /\ HoldInv
  BY <1>1 DEF Init, ClockInv, WritersInv, EveryCreditOnce, Unbilled, HoldInv
<1>4. QED
  BY <1>2, <1>3 DEF CreditInv

\* A settlement of c unbilled credits keeps them in one place, and takes off the
\* hold no more than it adds to the ledger.
LEMMA EntryAccounted ==
  ASSUME NEW c \in Nat, EntrySettles(c), ledger \in Nat, dropped \in Nat, hold \in Int
  PROVE  /\ ledger' \in Nat /\ dropped' \in Nat
         /\ ledger' + dropped' = ledger + dropped + c
         /\ ledger' >= ledger /\ ledger' <= ledger + c
         /\ hold' \in Int /\ hold' + ledger' >= hold + ledger
<1>1. PICK covered \in 0..c :
        /\ ledger' = ledger + covered /\ dropped' = dropped + (c - covered)
        /\ hold' = hold \/ hold' = hold - covered
  <2>1. CASE dropped' = dropped + c /\ UNCHANGED <<ledger, hold>>
    <3>1. 0 \in 0..c /\ ledger + 0 = ledger /\ c - 0 = c
      OBVIOUS
    <3>2. QED
      BY <2>1, <3>1
  <2>2. CASE \E covered \in 0..c : Committed(c, covered) /\ hold' \in {hold, hold - covered}
    BY <2>2 DEF Committed
  <2>3. QED
    BY <2>1, <2>2 DEF EntrySettles
<1>2. covered \in Nat /\ covered <= c /\ c - covered \in Nat
  BY <1>1
<1>3. QED
  BY <1>1, <1>2

\* A charge never exceeds what is left of the reservation.
LEMMA ChargeBounded ==
  ASSUME TypeOK, spent <= reserved, NEW elapsed \in Nat, Charge(elapsed)
  PROVE  \E charged \in Nat :
           /\ charged <= elapsed * Rate
           /\ Idle => charged = 0
           /\ spent' = spent + charged
           /\ pending' = pending + charged
           /\ spent' <= reserved
           /\ charged < Burned(elapsed) => spent' = reserved
           /\ charged < Burned(elapsed) => EnterGrace(clock)
           /\ ~(charged < Burned(elapsed)) => UNCHANGED <<graceStartedAt, warned>>
<1>1. elapsed * Rate \in Nat
  BY MeterAssumption
<1>2. Burned(elapsed) \in Nat /\ Burned(elapsed) <= elapsed * Rate /\ (Idle => Burned(elapsed) = 0)
  BY <1>1 DEF Burned
<1> DEFINE charged == Smaller(Burned(elapsed), ReservationRemaining)
<1>3. charged \in Nat /\ charged <= Burned(elapsed) /\ charged <= reserved - spent
      /\ (charged < Burned(elapsed) => charged = reserved - spent)
  BY <1>2 DEF Smaller, ReservationRemaining, TypeOK
<1>4. ChargeUpTo(Burned(elapsed), charged)
  BY DEF Charge
<1> HIDE DEF charged
<1>5. spent' = spent + charged /\ pending' = pending + charged
  BY <1>4 DEF ChargeUpTo
<1>6. spent' <= reserved /\ (charged < Burned(elapsed) => spent' = reserved)
  BY <1>3, <1>5 DEF TypeOK
<1>7. charged <= elapsed * Rate /\ (Idle => charged = 0)
  BY <1>1, <1>2, <1>3
<1>8. QED
  BY <1>3, <1>4, <1>5, <1>6, <1>7 DEF ChargeUpTo

\* The gateway grants no more than it found available.
LEMMA GrantIsNat ==
  ASSUME NEW available \in FreeBalances
  PROVE  GrantOf(available) \in Nat /\ available - GrantOf(available) \in Nat
<1>1. available \in Nat /\ Rate * Window \in Nat
  BY MeterAssumption
<1>2. QED
  BY <1>1 DEF GrantOf, Smaller

\* Every step keeps the accounts straight.
LEMMA CreditStep == CreditInv /\ [Next]_vars => CreditInv'
<1> SUFFICES ASSUME CreditInv, [Next]_vars PROVE CreditInv'
  OBVIOUS
<1> USE MeterAssumption
        DEF CreditInv, TypeOK, ClockInv, WritersInv, EveryCreditOnce, Unbilled, HoldInv, None,
            TickStages, CloseStages
<1>1. CASE UNCHANGED vars
  BY <1>1 DEF vars, timeVars, creditVars, flagVars, gateVars, ghostVars
<1>2. CASE ClockAdvances
  BY <1>2 DEF ClockAdvances, creditVars, flagVars, gateVars
<1>3. CASE MarkAudio
  BY <1>3 DEF MarkAudio, creditVars, flagVars, gateVars, ghostVars
<1>4. CASE TickSkipped
  BY <1>4 DEF TickSkipped, creditVars, flagVars, gateVars
<1>5. CASE Tick
  <2>1. clock - lastTickAt \in Nat
    OBVIOUS
  <2>2. PICK charged \in Nat :
          /\ spent' = spent + charged /\ pending' = pending + charged /\ spent' <= reserved
          /\ EnterGrace(clock) \/ UNCHANGED <<graceStartedAt, warned>>
    BY <1>5, <2>1, ChargeBounded DEF Tick
  <2>3. graceStartedAt' \in Nat \cup {None}
    BY <2>2 DEF EnterGrace
  <2>4. warned' \subseteq {"LOW_CREDITS", "CREDITS_CRITICAL"}
    BY <2>2 DEF EnterGrace
  <2>5. QED
    BY <1>5, <2>2, <2>3, <2>4 DEF Tick, OnLoop, gateVars, ghostVars
<1>6. CASE AskReserve
  BY <1>6 DEF AskReserve, timeVars, creditVars, flagVars, gateVars, ghostVars
<1>7. CASE ReserveAnswered
  <2>1. PICK available \in FreeBalances, granted \in Nat :
          /\ granted = GrantOf(available)
          /\ balanceRemaining' = available - granted
          /\ reserved' = reserved + granted /\ hold' = hold + granted
          /\ IF granted > 0 THEN graceStartedAt' = None /\ UNCHANGED warned
                            ELSE EnterGrace(tickNow)
    BY <1>7, GrantIsNat DEF ReserveAnswered
  <2>2. balanceRemaining' \in Nat
    BY <2>1, GrantIsNat
  <2>3. graceStartedAt' \in Nat \cup {None}
        /\ warned' \subseteq {"LOW_CREDITS", "CREDITS_CRITICAL"}
    BY <2>1 DEF EnterGrace
  <2>4. QED
    BY <1>7, <2>1, <2>2, <2>3 DEF ReserveAnswered, timeVars, ghostVars
<1>8. CASE ReserveFails
  <2>1. hold' \in Int /\ hold' >= hold
    BY <1>8, GrantIsNat DEF ReserveFails
  <2>2. /\ UNCHANGED <<timeVars, lastFlushAt, creditVars, pending, flagVars, closed, tickNow,
                      tickEntry, closeStage, closeAmount, ledger, dropped, live, stalled>>
        /\ tickStage = "reserving" /\ tickStage' = "idle" /\ tickFailed' = TRUE
    BY <1>8 DEF ReserveFails
  <2>3. HoldInv'
    <3>1. UNCHANGED <<spent, reserved, ledger, closeStage, closeAmount>>
      BY <2>2 DEF creditVars
    <3>2. {hold, hold', OpeningReserve, reserved, ledger, closeAmount} \subseteq Int
      BY <2>1
    <3>3. HoldInv
      OBVIOUS
    <3> HIDE DEF CreditInv, TypeOK
    <3>4. QED
      BY <2>1, <3>1, <3>2, <3>3
  <2>4. ClockInv' /\ EveryCreditOnce'
    BY <2>2 DEF timeVars, creditVars
  <2>5. WritersInv'
    BY <2>2
  <2>6. TypeOK'
    BY <2>1, <2>2 DEF timeVars, creditVars, flagVars
  <2>7. QED
    BY <2>3, <2>4, <2>5, <2>6
<1>9. CASE MaybeFlush
  BY <1>9 DEF MaybeFlush, timeVars, creditVars, flagVars, gateVars, ghostVars
<1>10. CASE TickEntrySettles
  BY <1>10, EntryAccounted DEF TickEntrySettles, timeVars, creditVars, flagVars, ghostVars
<1>11. CASE FinishTick
  <2>1. warned' \subseteq {"LOW_CREDITS", "CREDITS_CRITICAL"}
    BY <1>11 DEF FinishTick, EmitCredits
  <2>2. exhausted' \in BOOLEAN /\ closeStage' \in {closeStage, "asked"}
        /\ (closeStage' # closeStage => ~closed)
    BY <1>11 DEF FinishTick
  <2>3. QED
    BY <1>11, <2>1, <2>2 DEF FinishTick, timeVars, creditVars, gateVars
<1>12. CASE Close
  BY <1>12 DEF Close, timeVars, creditVars, flagVars, gateVars, ghostVars
<1>13. CASE CloseEntrySettles
  BY <1>13, EntryAccounted DEF CloseEntrySettles, timeVars, creditVars, flagVars, ghostVars
<1>14. CASE Release
  BY <1>14 DEF Release, ReleaseUnused, ReservationRemaining, timeVars, flagVars, gateVars,
               ghostVars
<1>15. CASE ReleaseAnswered
  <2>1. hold + OpeningReserve >= reserved - ledger + closeAmount
    BY <1>15 DEF ReleaseAnswered
  <2>2. PICK left \in Int : hold' = left /\ left \in {hold - closeAmount, hold}
    BY <1>15 DEF ReleaseAnswered
  <2>3. left + OpeningReserve >= reserved - ledger
    BY <2>1, <2>2
  <2>4. QED
    BY <1>15, <2>2, <2>3 DEF ReleaseAnswered, timeVars, creditVars, flagVars, ghostVars
<1>16. QED
  BY <1>1, <1>2, <1>3, <1>4, <1>5, <1>6, <1>7, <1>8, <1>9, <1>10, <1>11, <1>12, <1>13,
     <1>14, <1>15 DEF Next

\* The credit invariant holds in every reachable state.
THEOREM CreditsSafe == Spec => []CreditInv
<1>1. QED
  BY CreditInit, CreditStep, PTL DEF Spec

\* Types, for every value of the constants.
THEOREM MeterTypes == Spec => []TypeOK
  BY CreditsSafe, PTL DEF CreditInv

\* No credit is billed twice, or billed without being consumed.
THEOREM MeterEveryCreditOnce == Spec => []EveryCreditOnce
  BY CreditsSafe, PTL DEF CreditInv

\* What a session may still bill is on hold for it, whatever fails.
THEOREM MeterHoldCoversSession == Spec => []HoldCoversSession
<1>1. CreditInv => HoldCoversSession
  BY MeterAssumption DEF CreditInv, HoldInv, HoldCoversSession, TypeOK
<1>2. QED
  BY <1>1, CreditsSafe, PTL

-----------------------------------------------------------------------------
(* Time: flushes, grace and silence                                        *)

\* What is pending was charged since the last flush, and an open meter whose
\* tick has passed its flush, or ended well, has flushed within the interval.
FlushInv ==
  /\ tickStage # "idle" => tickNow = lastTickAt
  /\ ~closed =>
       /\ lastFlushAt <= lastTickAt
       /\ pending <= Rate * (lastTickAt - lastFlushAt)
       /\ tickStage \in {"writing", "finish"} \/ (tickStage = "idle" /\ ~tickFailed)
            => lastTickAt - lastFlushAt < FlushInterval

\* The grace period and a question to the gateway both mean that the
\* reservation needs topping up; a tick that ends well has checked the grace.
GraceInv ==
  /\ graceStartedAt # None \/ tickStage = "reserving" => NeedsTopUp
  /\ tickStage = "idle" /\ ~exhausted /\ graceStartedAt # None /\ ~tickFailed
       => lastTickAt - graceStartedAt < Grace

\* The second in progress, once the interval has fired in it.
NowHeard ==
  IF firedAt = clock /\ clock > 0 /\ clock - lastAudioAt < SilencePause THEN 1 ELSE 0

\* The seconds that pay for a charge, and the firings not charged for yet.
Heard == live + stalled + NowHeard
Uncharged == firedAt - lastTickAt

\* What was charged, and what the next tick may charge for the seconds since the
\* last one, is paid for by seconds heard and by firings skipped.
SilenceInv ==
  /\ ~closed => clock <= firedAt + 1
  /\ lastAudioAt <= clock
  /\ spent + Rate * Uncharged <= Rate * Heard

TimeInv == CreditInv /\ FlushInv /\ GraceInv /\ SilenceInv

\* A session opens with nothing pending, no grace running and nothing to pay for.
LEMMA TimeInit == Init => FlushInv /\ GraceInv /\ SilenceInv
<1>1. Rate * 0 = 0
  BY MeterAssumption
<1>2. QED
  BY <1>1, MeterAssumption DEF Init, FlushInv, GraceInv, SilenceInv, NowHeard, Heard, Uncharged, None

\* Multiplication by the rate, in the two forms the invariants use.
LEMMA RateTimes ==
  /\ \A a, b \in Int : Rate * (a + b) = Rate * a + Rate * b
  /\ \A a, b \in Int : a <= b => Rate * a <= Rate * b
  /\ Rate * 0 = 0 /\ Rate * 1 = Rate
  /\ \A a \in Int : Rate * a \in Int /\ a * Rate = Rate * a
<1>1. Rate \in Nat
  BY MeterAssumption
<1>2. \A a, b \in Int : Rate * (a + b) = Rate * a + Rate * b
  BY <1>1
<1>3. ASSUME NEW a \in Int, NEW b \in Int, a <= b PROVE Rate * a <= Rate * b
  <2>1. Rate * (b - a) >= 0
    BY <1>1, <1>3
  <2>2. Rate * b = Rate * a + Rate * (b - a)
    BY <1>1
  <2>3. QED
    BY <1>1, <2>1, <2>2
<1>4. QED
  BY <1>1, <1>2, <1>3

\* The flush keeps up with the ticks.
LEMMA FlushStep == CreditInv /\ FlushInv /\ [Next]_vars => FlushInv'
<1> SUFFICES ASSUME CreditInv, FlushInv, [Next]_vars PROVE FlushInv'
  OBVIOUS
<1> USE MeterAssumption
        DEF CreditInv, TypeOK, ClockInv, WritersInv, FlushInv, TickStages, CloseStages
<1>1. CASE UNCHANGED vars
  BY <1>1 DEF vars, timeVars, creditVars, flagVars, gateVars, ghostVars
<1>2. CASE ClockAdvances
  BY <1>2 DEF ClockAdvances, creditVars, flagVars, gateVars
<1>3. CASE MarkAudio
  BY <1>3 DEF MarkAudio, creditVars, flagVars, gateVars, ghostVars
<1>4. CASE TickSkipped
  BY <1>4 DEF TickSkipped, creditVars, flagVars, gateVars
<1>5. CASE Tick
  <2>1. clock - lastTickAt \in Nat
    OBVIOUS
  <2>2. PICK charged \in Nat :
          charged <= (clock - lastTickAt) * Rate /\ pending' = pending + charged
    BY <1>5, <2>1, ChargeBounded DEF Tick, HoldInv
  <2>3. Rate * (clock - lastFlushAt)
          = Rate * (lastTickAt - lastFlushAt) + (clock - lastTickAt) * Rate
    <3>1. clock - lastFlushAt = (lastTickAt - lastFlushAt) + (clock - lastTickAt)
      OBVIOUS
    <3>2. QED
      BY <3>1, RateTimes
  <2>4. pending <= Rate * (lastTickAt - lastFlushAt) /\ lastFlushAt <= lastTickAt
    BY <1>5 DEF Tick
  <2>5. pending' <= Rate * (clock - lastFlushAt)
    BY <2>2, <2>3, <2>4, RateTimes
  <2>6. QED
    BY <1>5, <2>4, <2>5 DEF Tick
<1>6. CASE AskReserve
  BY <1>6 DEF AskReserve, timeVars, creditVars, flagVars, gateVars, ghostVars
<1>7. CASE ReserveAnswered
  BY <1>7 DEF ReserveAnswered, timeVars, ghostVars
<1>8. CASE ReserveFails
  BY <1>8 DEF ReserveFails, timeVars, creditVars, flagVars, gateVars
<1>9. CASE MaybeFlush
  BY <1>9, RateTimes DEF MaybeFlush, FlushDue, timeVars, creditVars, flagVars, gateVars,
                         ghostVars
<1>10. CASE TickEntrySettles
  BY <1>10 DEF TickEntrySettles, timeVars, creditVars, flagVars, ghostVars
<1>11. CASE FinishTick
  BY <1>11 DEF FinishTick, timeVars, creditVars, gateVars
<1>12. CASE Close
  <2>1. closed' /\ UNCHANGED <<tickStage, tickNow, lastTickAt>>
    BY <1>12 DEF Close, timeVars
  <2>2. QED
    BY <2>1
<1>13. CASE CloseEntrySettles
  BY <1>13 DEF CloseEntrySettles, timeVars, creditVars, flagVars, ghostVars
<1>14. CASE Release
  BY <1>14 DEF Release, timeVars, flagVars, gateVars, ghostVars
<1>15. CASE ReleaseAnswered
  BY <1>15 DEF ReleaseAnswered, timeVars, creditVars, flagVars, ghostVars
<1>16. QED
  BY <1>1, <1>2, <1>3, <1>4, <1>5, <1>6, <1>7, <1>8, <1>9, <1>10, <1>11, <1>12, <1>13,
     <1>14, <1>15 DEF Next

\* A smaller reservation is short too.
LEMMA StillShort ==
  ASSUME NEW a \in Int, NEW b \in Int, NEW t \in Nat, a <= b
  PROVE  100 * b < t => 100 * a < t
  OBVIOUS

\* Grace is entered only when the reservation is short, and ends on time.
LEMMA GraceStep == CreditInv /\ FlushInv /\ GraceInv /\ [Next]_vars => GraceInv'
<1> SUFFICES ASSUME CreditInv, FlushInv, GraceInv, [Next]_vars PROVE GraceInv'
  OBVIOUS
<1> USE DEF CreditInv, TypeOK, WritersInv, GraceInv, TickStages, CloseStages
<1>d. tickStage # "idle" => tickNow = lastTickAt
  BY DEF FlushInv
<1> DEFINE threshold == 34 * Rate * Window
<1>a. threshold \in Nat /\ threshold > 0
  BY MeterAssumption
<1> HIDE DEF threshold
<1>b. NeedsTopUp <=> 100 * (reserved - spent) < threshold
  BY DEF threshold, NeedsTopUp, ReservationRemaining
<1>c. NeedsTopUp' <=> 100 * (reserved' - spent') < threshold
  BY DEF threshold, NeedsTopUp, ReservationRemaining
<1>1. CASE UNCHANGED vars
  BY <1>1, <1>b, <1>c DEF vars, timeVars, creditVars, flagVars, gateVars, ghostVars
<1>2. CASE ClockAdvances
  BY <1>2, <1>b, <1>c DEF ClockAdvances, creditVars, flagVars, gateVars
<1>3. CASE MarkAudio
  BY <1>3, <1>b, <1>c DEF MarkAudio, creditVars, flagVars, gateVars, ghostVars
<1>4. CASE TickSkipped
  BY <1>4, <1>b, <1>c DEF TickSkipped, creditVars, flagVars, gateVars
<1>5. CASE Tick
  <2>1. clock - lastTickAt \in Nat
    BY DEF ClockInv
  <2>2. PICK charged \in Nat :
          /\ spent' = spent + charged
          /\ graceStartedAt' = graceStartedAt \/ spent' = reserved
    BY <1>5, <2>1, ChargeBounded DEF Tick, HoldInv
  <2>3. reserved' = reserved /\ tickStage' = "topUp"
    BY <1>5 DEF Tick
  <2>4. QED
    BY <2>2, <2>3, <1>a, <1>b, <1>c
<1>6. CASE AskReserve
  BY <1>6, <1>b, <1>c DEF AskReserve, timeVars, creditVars, flagVars, gateVars, ghostVars
<1>7. CASE ReserveAnswered
  <2>1. PICK granted \in Nat :
          /\ reserved' = reserved + granted
          /\ granted > 0 => graceStartedAt' = None
    BY <1>7, GrantIsNat DEF ReserveAnswered
  <2>2. spent' = spent /\ tickStage' = "flush" /\ NeedsTopUp
    BY <1>7 DEF ReserveAnswered
  <2>3. QED
    BY <2>1, <2>2, <1>b, <1>c
<1>8. CASE ReserveFails
  BY <1>8, <1>b, <1>c DEF ReserveFails, timeVars, creditVars, flagVars, gateVars
<1>9. CASE MaybeFlush
  BY <1>9, <1>b, <1>c DEF MaybeFlush, timeVars, creditVars, flagVars, gateVars, ghostVars
<1>10. CASE TickEntrySettles
  BY <1>10, <1>b, <1>c DEF TickEntrySettles, timeVars, creditVars, flagVars, ghostVars
<1>11. CASE FinishTick
  BY <1>11, <1>b, <1>d, <1>c, MeterAssumption DEF FinishTick, GraceOver, timeVars, creditVars, gateVars, None
<1>12. CASE Close
  BY <1>12, <1>b, <1>c DEF Close, timeVars, creditVars, flagVars, gateVars, ghostVars
<1>13. CASE CloseEntrySettles
  BY <1>13, <1>b, <1>c DEF CloseEntrySettles, timeVars, creditVars, flagVars, ghostVars
<1>14. CASE Release
  <2>1. reserved' <= reserved /\ reserved' \in Int
    BY <1>14 DEF Release, ReleaseUnused, ReservationRemaining
  <2>2. spent' = spent
    BY <1>14 DEF Release
  <2>3. NeedsTopUp => NeedsTopUp'
    <3> HIDE DEF CreditInv, TypeOK, WritersInv, GraceInv
    <3>1. PICK less \in Int : reserved' = less /\ less <= reserved
      BY <2>1
    <3>2. less - spent <= reserved - spent /\ less - spent \in Int /\ reserved - spent \in Int
      BY <3>1 DEF CreditInv, TypeOK
    <3>3. 100 * (reserved - spent) < threshold => 100 * (less - spent) < threshold
      BY <3>2, <1>a, StillShort
    <3>4. 100 * (reserved - spent) < threshold => 100 * (reserved' - spent') < threshold
      BY <3>1, <3>3, <2>2, Zenon
    <3>5. QED
      BY <3>4, <1>b, <1>c
  <2>4. UNCHANGED <<graceStartedAt, exhausted, lastTickAt, tickStage, tickFailed>>
    BY <1>14 DEF Release, flagVars, timeVars, ghostVars
  <2>5. QED
    BY <2>3, <2>4
<1>15. CASE ReleaseAnswered
  BY <1>15, <1>b, <1>c DEF ReleaseAnswered, timeVars, creditVars, flagVars, ghostVars
<1>16. QED
  BY <1>1, <1>2, <1>3, <1>4, <1>5, <1>6, <1>7, <1>8, <1>9, <1>10, <1>11, <1>12, <1>13,
     <1>14, <1>15 DEF Next

\* A second more on the credit side changes nothing.
LEMMA PaidStill ==
  ASSUME NEW s \in Int, NEW o \in Int, NEW h \in Int, NEW h2 \in Int,
         s + Rate * o <= Rate * h, h <= h2
  PROVE  s + Rate * o <= Rate * h2
<1> DEFINE p == Rate * o  q == Rate * h  r == Rate * h2
<1>1. p \in Int /\ q \in Int /\ r \in Int /\ q <= r /\ s + p <= q
  BY RateTimes
<1> HIDE DEF p, q, r
<1>2. s + p <= r
  BY <1>1
<1>3. QED
  BY <1>2 DEF p, r

\* A second more on both sides keeps the balance.
LEMMA PaidOneMore ==
  ASSUME NEW s \in Int, NEW o \in Int, NEW h \in Int, NEW h2 \in Int,
         s + Rate * o <= Rate * h, h + 1 <= h2
  PROVE  s + Rate * (o + 1) <= Rate * h2
<1> DEFINE p == Rate * o  p1 == Rate * (o + 1)  q == Rate * h  q1 == Rate * (h + 1)
           r == Rate * h2
<1>1. p1 = p + Rate /\ q1 = q + Rate
  BY RateTimes
<1>2. p \in Int /\ q \in Int /\ r \in Int /\ Rate \in Int /\ q1 <= r /\ s + p <= q
  BY RateTimes, MeterAssumption
<1> HIDE DEF p, p1, q, q1, r
<1>3. s + p1 <= r
  BY <1>1, <1>2
<1>4. QED
  BY <1>3 DEF p1, r

\* Charging what is outstanding, or nothing, keeps the balance.
LEMMA PaidInFull ==
  ASSUME NEW s \in Int, NEW s2 \in Int, NEW o \in Nat, NEW h \in Int,
         s + Rate * o <= Rate * h
  PROVE  /\ s2 <= s + (o + 1) * Rate => s2 + Rate * 0 <= Rate * (h + 1)
         /\ s + Rate * 0 <= Rate * h
<1>1. (o + 1) * Rate = Rate * (o + 1) /\ Rate * (o + 1) = Rate * o + Rate
      /\ Rate * (h + 1) = Rate * h + Rate
  BY RateTimes
<1>2. Rate * 0 = 0 /\ Rate * 0 <= Rate * o
  BY RateTimes
<1>3. QED
  BY <1>1, <1>2, RateTimes, MeterAssumption

\* Silence is paid for by nobody.
LEMMA SilenceStep == CreditInv /\ SilenceInv /\ [Next]_vars => SilenceInv'
<1> SUFFICES ASSUME CreditInv, SilenceInv, [Next]_vars PROVE SilenceInv'
  OBVIOUS
<1>t. /\ clock \in Nat /\ firedAt \in Nat /\ lastTickAt \in Nat /\ lastAudioAt \in Nat
      /\ live \in Nat /\ stalled \in Nat /\ spent \in Nat /\ Rate \in Nat
      /\ SilencePause \in Nat
  BY MeterAssumption DEF CreditInv, TypeOK
<1>a. /\ ~closed => clock <= firedAt + 1
      /\ lastAudioAt <= clock /\ lastTickAt <= firedAt /\ firedAt <= clock
  BY DEF SilenceInv, CreditInv, ClockInv
<1>b. spent + Rate * Uncharged <= Rate * Heard
  BY DEF SilenceInv
<1>c. /\ NowHeard \in Nat /\ Heard \in Nat /\ Uncharged \in Nat
      /\ firedAt < clock => NowHeard = 0
  BY <1>t, <1>a DEF NowHeard, Heard, Uncharged
<1>1. CASE UNCHANGED vars
  BY <1>1 DEF vars, timeVars, creditVars, ghostVars, SilenceInv, NowHeard, Heard, Uncharged
<1>2. CASE ClockAdvances
  <2>1. UNCHANGED <<spent, firedAt, lastTickAt, stalled, lastAudioAt, closed>>
        /\ clock' = clock + 1 /\ (firedAt = clock \/ closed)
    BY <1>2 DEF ClockAdvances, creditVars
  <2>2. live + NowHeard <= live' /\ live' \in Nat
    BY <1>2, <1>t DEF ClockAdvances, NowHeard
  <2>3. NowHeard' = 0
    BY <1>t, <1>a, <2>1 DEF NowHeard
  <2>4. Uncharged' = Uncharged
    BY <2>1 DEF Uncharged
  <2>5. Heard' = live' + stalled /\ Heard = live + stalled + NowHeard
    BY <1>t, <2>1, <2>2, <2>3 DEF Heard
  <2>6. PICK heard \in Nat : Heard' = heard /\ Heard <= heard
    <3>1. PICK later \in Nat : live' = later /\ live + NowHeard <= later
      BY <2>2
    <3>2. Heard' = later + stalled
      BY <2>5, <3>1
    <3>3. Heard <= later + stalled /\ later + stalled \in Nat
      BY <1>t, <1>c, <2>5, <3>1
    <3>4. QED
      BY <3>2, <3>3
  <2>7. spent + Rate * Uncharged <= Rate * heard
    BY <1>t, <1>b, <1>c, <2>6, PaidStill
  <2>8. spent' + Rate * Uncharged' <= Rate * Heard'
    BY <2>1, <2>4, <2>6, <2>7, Zenon
  <2>9. clock + 1 <= firedAt + 1 \/ closed
    BY <1>t, <2>1
  <2>10. lastAudioAt <= clock + 1
    BY <1>t, <1>a
  <2>11. (~closed' => clock' <= firedAt' + 1) /\ lastAudioAt' <= clock'
    BY <2>1, <2>9, <2>10, Zenon
  <2>12. QED
    BY <2>8, <2>11, Zenon DEF SilenceInv
<1>3. CASE MarkAudio
  <2>1. UNCHANGED <<spent, firedAt, lastTickAt, live, stalled, clock, closed>>
        /\ lastAudioAt' = clock
    BY <1>3 DEF MarkAudio, creditVars, ghostVars
  <2>2. NowHeard' \in Nat /\ NowHeard <= NowHeard'
    BY <1>t, <1>a, <2>1 DEF NowHeard
  <2>3. Heard' = live + stalled + NowHeard' /\ Heard = live + stalled + NowHeard
    BY <2>1 DEF Heard
  <2>4. Uncharged' = Uncharged
    BY <2>1 DEF Uncharged
  <2>5. PICK heard \in Nat : Heard' = heard /\ Heard <= heard
    <3>1. PICK now \in Nat : NowHeard' = now /\ NowHeard <= now
      BY <2>2
    <3>2. Heard' = live + stalled + now
      BY <2>3, <3>1
    <3>3. Heard <= live + stalled + now /\ live + stalled + now \in Nat
      BY <1>t, <1>c, <2>3, <3>1
    <3>4. QED
      BY <3>2, <3>3
  <2>6. spent + Rate * Uncharged <= Rate * heard
    BY <1>t, <1>b, <1>c, <2>5, PaidStill
  <2>7. spent' + Rate * Uncharged' <= Rate * Heard'
    BY <2>1, <2>4, <2>5, <2>6, Zenon
  <2>8. clock <= clock
    BY <1>t
  <2>9. (~closed' => clock' <= firedAt' + 1) /\ lastAudioAt' <= clock'
    BY <1>a, <2>1, <2>8, Zenon
  <2>10. QED
    BY <2>7, <2>9, Zenon DEF SilenceInv
<1>4. CASE TickSkipped
  <2>1. UNCHANGED <<spent, lastTickAt, live, clock, lastAudioAt, closed>>
        /\ firedAt' = clock /\ firedAt < clock /\ ~closed /\ stalled' = stalled + 1
    BY <1>4 DEF TickSkipped, creditVars
  <2>2. Uncharged' = Uncharged + 1
    BY <1>t, <1>a, <2>1 DEF Uncharged
  <2>3. PICK heard \in Nat : Heard' = heard /\ Heard + 1 <= heard
    BY <1>t, <1>c, <2>1 DEF Heard, NowHeard
  <2>4. spent + Rate * (Uncharged + 1) <= Rate * heard
    BY <1>t, <1>b, <1>c, <2>3, PaidOneMore
  <2>5. spent' + Rate * Uncharged' <= Rate * Heard'
    BY <2>1, <2>2, <2>3, <2>4, Zenon
  <2>6. clock <= clock + 1
    BY <1>t
  <2>7. (~closed' => clock' <= firedAt' + 1) /\ lastAudioAt' <= clock'
    BY <1>a, <2>1, <2>6, Zenon
  <2>8. QED
    BY <2>5, <2>7, Zenon DEF SilenceInv
<1>5. CASE Tick
  <2>1. clock - lastTickAt \in Nat
    BY <1>t, <1>a
  <2>2. PICK charged \in Nat :
          /\ charged <= (clock - lastTickAt) * Rate
          /\ Idle => charged = 0
          /\ spent' = spent + charged
    BY <1>5, <2>1, ChargeBounded DEF Tick, CreditInv, HoldInv
  <2>3. UNCHANGED <<clock, lastAudioAt, live, stalled, closed>> /\ ~closed
        /\ firedAt' = clock /\ lastTickAt' = clock /\ firedAt < clock
    BY <1>5 DEF Tick, ghostVars
  <2>4. Uncharged' = 0 /\ clock - lastTickAt = Uncharged + 1
    BY <1>t, <1>a, <2>3 DEF Uncharged
  <2>5. Heard' \in Nat /\ Heard' = Heard + NowHeard'
    BY <1>t, <1>c, <2>3 DEF Heard, NowHeard
  <2>6. spent' + Rate * Uncharged' <= Rate * Heard'
    <3>1. CASE Idle
      <4>1. Heard' = Heard /\ spent' = spent
        <5>1. NowHeard' = 0
          BY <1>t, <2>3, <3>1 DEF Idle, NowHeard
        <5>2. QED
          BY <1>t, <1>c, <2>2, <2>5, <3>1, <5>1
      <4>2. QED
        BY <1>t, <4>1, <2>4, <1>b, <1>c, PaidInFull
    <3>2. CASE ~Idle
      <4>1. Heard' = Heard + 1
        <5>1. NowHeard' = 1
          BY <1>t, <2>3, <3>2 DEF Idle, NowHeard
        <5>2. QED
          BY <2>5, <5>1
      <4>2. charged <= (Uncharged + 1) * Rate /\ (Uncharged + 1) * Rate \in Int
        BY <1>t, <1>c, <2>2, <2>4
      <4>3. spent + charged <= spent + (Uncharged + 1) * Rate /\ spent + charged \in Int
        BY <1>t, <4>2
      <4>4. spent + charged + Rate * 0 <= Rate * (Heard + 1)
        BY <1>t, <1>b, <1>c, <4>3, PaidInFull
      <4>5. QED
        BY <2>2, <2>4, <4>1, <4>4, Zenon
    <3>3. QED
      BY <3>1, <3>2
  <2>7. QED
    BY <1>t, <1>a, <2>3, <2>6 DEF SilenceInv
<1> DEFINE Same == /\ UNCHANGED <<spent, firedAt, lastTickAt, live, stalled, clock, lastAudioAt>>
                   /\ closed => closed'
<1>d. Same => SilenceInv'
  BY <1>t, <1>a, <1>b DEF SilenceInv, NowHeard, Heard, Uncharged
<1>6. CASE AskReserve
  BY <1>6, <1>d DEF AskReserve, timeVars, creditVars, ghostVars
<1>7. CASE ReserveAnswered
  BY <1>7, <1>d DEF ReserveAnswered, timeVars, ghostVars
<1>8. CASE ReserveFails
  BY <1>8, <1>d DEF ReserveFails, timeVars, creditVars
<1>9. CASE MaybeFlush
  BY <1>9, <1>d DEF MaybeFlush, timeVars, creditVars, ghostVars
<1>10. CASE TickEntrySettles
  BY <1>10, <1>d DEF TickEntrySettles, timeVars, creditVars, ghostVars
<1>11. CASE FinishTick
  BY <1>11, <1>d DEF FinishTick, timeVars, creditVars
<1>12. CASE Close
  BY <1>12, <1>d DEF Close, timeVars, creditVars, ghostVars
<1>13. CASE CloseEntrySettles
  BY <1>13, <1>d DEF CloseEntrySettles, timeVars, creditVars, ghostVars
<1>14. CASE Release
  BY <1>14, <1>d DEF Release, timeVars, ghostVars
<1>15. CASE ReleaseAnswered
  BY <1>15, <1>d DEF ReleaseAnswered, timeVars, creditVars, ghostVars
<1>16. QED
  BY <1>1, <1>2, <1>3, <1>4, <1>5, <1>6, <1>7, <1>8, <1>9, <1>10, <1>11, <1>12, <1>13,
     <1>14, <1>15 DEF Next

\* The whole inductive invariant.
THEOREM TimesSafe == Spec => []TimeInv
<1>1. Init => TimeInv
  BY CreditInit, TimeInit DEF TimeInv
<1>2. TimeInv /\ [Next]_vars => TimeInv'
  BY CreditStep, FlushStep, GraceStep, SilenceStep DEF TimeInv
<1>3. QED
  BY <1>1, <1>2, PTL DEF Spec

\* Between two ticks less than one flush interval is outside the ledger.
THEOREM MeterCrashLossBounded == Spec => []CrashLossBounded
<1>1. TimeInv => CrashLossBounded
  <2> SUFFICES ASSUME TimeInv, tickStage = "idle", ~closed, ~tickFailed
               PROVE  pending < Rate * FlushInterval
    BY DEF CrashLossBounded
  <2>1. pending <= Rate * (lastTickAt - lastFlushAt)
        /\ lastTickAt - lastFlushAt + 1 <= FlushInterval
        /\ pending \in Nat /\ lastTickAt - lastFlushAt \in Int
    BY MeterAssumption DEF TimeInv, FlushInv, CreditInv, TypeOK
  <2>2. Rate * (lastTickAt - lastFlushAt + 1) = Rate * (lastTickAt - lastFlushAt) + Rate
    BY <2>1, RateTimes
  <2>3. Rate * (lastTickAt - lastFlushAt + 1) <= Rate * FlushInterval
    BY <2>1, RateTimes, MeterAssumption
  <2>4. QED
    BY <2>1, <2>2, <2>3, RateTimes, MeterAssumption
<1>2. QED
  BY <1>1, TimesSafe, PTL

\* The grace period runs only on a short reservation and ends on time.
THEOREM MeterGraceIsShort == Spec => []GraceIsShort
<1>1. TimeInv => GraceIsShort
  BY DEF TimeInv, GraceInv, GraceIsShort
<1>2. QED
  BY <1>1, TimesSafe, PTL

\* A silent second is charged only if a tick was waiting for the gateway.
THEOREM MeterSilenceIsFree == Spec => []SilenceIsFree
<1>1. TimeInv => SilenceIsFree
  <2> SUFFICES ASSUME TimeInv PROVE SilenceIsFree
    OBVIOUS
  <2> DEFINE now == IF clock > 0 /\ clock - lastAudioAt < SilencePause THEN 1 ELSE 0
             all == live + stalled + now
  <2>1. spent \in Nat /\ Heard \in Nat /\ all \in Nat /\ Uncharged \in Nat /\ Heard <= all
    BY DEF TimeInv, CreditInv, TypeOK, ClockInv, Heard, NowHeard, Uncharged
  <2>2. spent + Rate * Uncharged <= Rate * Heard
    BY DEF TimeInv, SilenceInv
  <2>3. spent <= Rate * all
    <3> HIDE DEF all
    <3>1. spent + Rate * Uncharged <= Rate * all
      BY <2>1, <2>2, PaidStill
    <3>2. spent + Rate * 0 <= Rate * all /\ Rate * 0 = 0
      BY <2>1, <3>1, PaidInFull, RateTimes
    <3>3. QED
      BY <2>1, <3>2
  <2>4. QED
    BY <2>3 DEF SilenceIsFree
<1>2. QED
  BY <1>1, TimesSafe, PTL

-----------------------------------------------------------------------------
(* The billing clock implements BillOnce                                   *)

\* What is not settled yet is a number of credits.
LEMMA UnbilledIsNat == CreditInv => Unbilled \in Nat
  BY DEF CreditInv, TypeOK, Unbilled

\* A step that moves consumed credits between the meter's own pockets is no step
\* of the account.
LEMMA Stutters ==
  ASSUME UNCHANGED <<Unbilled, ledger, dropped>>
  PROVE  [Abstract!Next]_(Abstract!vars)
  BY DEF Abstract!vars

\* The end of a ledger entry of c credits settles them, once.
LEMMA EntryIsSettle ==
  ASSUME NEW c \in Nat, NEW u \in Nat, Unbilled \in Nat, Unbilled' = u, u = Unbilled - c,
         EntrySettles(c), ledger \in Nat, dropped \in Nat
  PROVE  [Abstract!Next]_(Abstract!vars)
<1>1. CASE c = 0
  <2>1. u = Unbilled /\ ledger + 0 = ledger /\ dropped + 0 = dropped /\ 0..c = {0} /\ c - 0 = 0
    BY <1>1
  <2>2. UNCHANGED <<Unbilled, ledger, dropped>>
    BY <1>1, <2>1, Zenon DEF EntrySettles, Committed
  <2>3. QED
    BY <2>2, Stutters
<1>2. CASE c # 0
  <2>1. u < Unbilled /\ c = Unbilled - u
    BY <1>2
  <2>2. Unbilled' \in Nat /\ Unbilled' < Unbilled
    BY <2>1
  <2>3. \E paid \in 0..c : ledger' = ledger + paid /\ dropped' = dropped + (c - paid)
    <3>1. 0 \in 0..c /\ ledger + 0 = ledger /\ c - 0 = c
      OBVIOUS
    <3>2. QED
      BY <3>1, Zenon DEF EntrySettles, Committed
  <2>4. \E paid \in 0..(Unbilled - Unbilled') :
          ledger' = ledger + paid /\ dropped' = dropped + ((Unbilled - Unbilled') - paid)
    BY <2>1, <2>3, Zenon
  <2>5. Abstract!Settle
    BY <2>2, <2>4, Zenon DEF Abstract!Settle
  <2>6. QED
    BY <2>5 DEF Abstract!Next
<1>3. QED
  BY <1>1, <1>2

\* Every step of the clock is a step of the account, or none.
LEMMA MeterStepSettles == CreditInv /\ [Next]_vars => [Abstract!Next]_(Abstract!vars)
<1> SUFFICES ASSUME CreditInv, [Next]_vars PROVE [Abstract!Next]_(Abstract!vars)
  OBVIOUS
<1>t. /\ Unbilled \in Nat /\ pending \in Nat /\ tickEntry \in Nat /\ closeAmount \in Nat
      /\ ledger \in Nat /\ dropped \in Nat
  BY UnbilledIsNat DEF CreditInv, TypeOK
<1> DEFINE Same == UNCHANGED <<pending, tickEntry, closeStage, closeAmount, ledger, dropped>>
<1>s. Same => [Abstract!Next]_(Abstract!vars)
  BY Stutters DEF Unbilled
<1>1. CASE UNCHANGED vars
  BY <1>1, <1>s DEF vars, gateVars
<1>2. CASE ClockAdvances
  BY <1>2, <1>s DEF ClockAdvances, gateVars
<1>3. CASE MarkAudio
  BY <1>3, <1>s DEF MarkAudio, gateVars
<1>4. CASE TickSkipped
  BY <1>4, <1>s DEF TickSkipped, gateVars
<1>5. CASE Tick
  <2>1. clock - lastTickAt \in Nat
    BY DEF CreditInv, TypeOK, ClockInv
  <2>2. PICK charged \in Nat : pending' = pending + charged
    BY <1>5, <2>1, ChargeBounded DEF Tick, CreditInv, HoldInv
  <2>3. UNCHANGED <<tickEntry, closeStage, closeAmount, ledger, dropped>>
    BY <1>5 DEF Tick, gateVars
  <2> DEFINE closing == IF closeStage = "writing" THEN closeAmount ELSE 0
  <2>4. closing \in Nat /\ Unbilled = pending + tickEntry + closing
    BY <1>t DEF Unbilled
  <2>5. Unbilled' = pending' + tickEntry + closing
    BY <2>3 DEF Unbilled
  <2> HIDE DEF closing
  <2>6. Unbilled' = pending + charged + tickEntry + closing
    BY <2>2, <2>5, Zenon
  <2>7. PICK u \in Nat : Unbilled' = u /\ u = Unbilled + charged
    BY <1>t, <2>4, <2>6
  <2>8. CASE charged = 0
    BY <1>t, <2>3, <2>7, <2>8, Stutters
  <2>9. CASE charged # 0
    <3>1. u > Unbilled
      BY <1>t, <2>7, <2>9
    <3>2. Abstract!Consume
      BY <2>3, <2>7, <3>1 DEF Abstract!Consume
    <3>3. QED
      BY <3>2 DEF Abstract!Next
  <2>10. QED
    BY <2>8, <2>9
<1>6. CASE AskReserve
  BY <1>6, <1>s DEF AskReserve, gateVars
<1>7. CASE ReserveAnswered
  BY <1>7, <1>s DEF ReserveAnswered
<1>8. CASE ReserveFails
  BY <1>8, <1>s DEF ReserveFails, gateVars
<1>9. CASE MaybeFlush
  <2>1. tickEntry = 0
    BY <1>9 DEF MaybeFlush, CreditInv, WritersInv
  <2>2. UNCHANGED <<closeStage, closeAmount, ledger, dropped>>
        /\ \/ pending' = 0 /\ tickEntry' = pending
           \/ pending' = pending /\ tickEntry' = 0
    BY <1>9 DEF MaybeFlush, gateVars
  <2>3. Unbilled' = Unbilled
    BY <1>t, <2>1, <2>2 DEF Unbilled
  <2>4. QED
    BY <2>2, <2>3, Stutters
<1>10. CASE TickEntrySettles
  <2>1. EntrySettles(tickEntry) /\ tickEntry' = 0 /\ UNCHANGED <<pending, closeStage, closeAmount>>
    BY <1>10 DEF TickEntrySettles
  <2>2. PICK u \in Nat : Unbilled' = u /\ u = Unbilled - tickEntry
    BY <1>t, <2>1 DEF Unbilled
  <2>3. QED
    BY <1>t, <2>1, <2>2, EntryIsSettle
<1>11. CASE FinishTick
  <2>1. UNCHANGED <<pending, tickEntry, closeAmount, ledger, dropped>>
        /\ (closeStage' = closeStage \/ (closeStage' = "asked" /\ ~closed))
    BY <1>11 DEF FinishTick, gateVars
  <2>2. ~closed => closeStage # "writing"
    BY DEF CreditInv, WritersInv
  <2>3. Unbilled' = Unbilled
    BY <2>1, <2>2 DEF Unbilled
  <2>4. QED
    BY <2>1, <2>3, Stutters
<1>12. CASE Close
  <2>1. closeAmount' = pending /\ pending' = 0 /\ UNCHANGED <<tickEntry, ledger, dropped>>
        /\ closeStage # "writing"
        /\ closeStage' = (IF pending > 0 THEN "writing" ELSE "release")
    BY <1>12 DEF Close, gateVars
  <2>2. Unbilled' = Unbilled
    BY <1>t, <2>1 DEF Unbilled
  <2>3. QED
    BY <2>1, <2>2, Stutters
<1>13. CASE CloseEntrySettles
  <2>1. EntrySettles(closeAmount) /\ closeAmount' = 0 /\ UNCHANGED <<pending, tickEntry>>
        /\ closeStage = "writing" /\ closeStage' = "release"
    BY <1>13 DEF CloseEntrySettles
  <2>2. PICK u \in Nat : Unbilled' = u /\ u = Unbilled - closeAmount
    BY <1>t, <2>1 DEF Unbilled
  <2>3. QED
    BY <1>t, <2>1, <2>2, EntryIsSettle
<1>14. CASE Release
  <2>1. UNCHANGED <<pending, tickEntry, ledger, dropped>>
        /\ closeStage # "writing" /\ closeStage' # "writing"
    BY <1>14 DEF Release, gateVars
  <2>2. Unbilled' = Unbilled
    BY <2>1 DEF Unbilled
  <2>3. QED
    BY <2>1, <2>2, Stutters
<1>15. CASE ReleaseAnswered
  <2>1. UNCHANGED <<pending, tickEntry, ledger, dropped>>
        /\ closeStage # "writing" /\ closeStage' # "writing"
    BY <1>15 DEF ReleaseAnswered
  <2>2. Unbilled' = Unbilled
    BY <2>1 DEF Unbilled
  <2>3. QED
    BY <2>1, <2>2, Stutters
<1>16. QED
  BY <1>1, <1>2, <1>3, <1>4, <1>5, <1>6, <1>7, <1>8, <1>9, <1>10, <1>11, <1>12, <1>13,
     <1>14, <1>15 DEF Next

\* The billing clock implements the account's promise: a consumed credit is billed
\* once or forgiven for good, through failed writes and two writers at once.
THEOREM MeterBillsOnce == Spec => BillsOnce
<1>1. Init => Abstract!Init
  BY DEF Init, Abstract!Init, Unbilled
<1>2. QED
  BY <1>1, CreditsSafe, MeterStepSettles, PTL DEF Spec, BillsOnce, Abstract!Spec

-----------------------------------------------------------------------------
(***************************************************************************)
(* Proofs about the transcription client, for every retry budget and any   *)
(* number of connections.                                                  *)
(*                                                                         *)
(* The argument: a connection that ends is reported at most twice, so the  *)
(* drops counted since a connection last opened are at most twice the      *)
(* connections that have ended since (BudgetInv).  The client gives up     *)
(* when the budget is used up, and then half as many connections as the    *)
(* budget has attempts have failed.                                        *)
(***************************************************************************)

Client == [socket : {"null"} \cup Alive, lost : [Alive -> Nat], attempt : 0..MaxAttempts,
           retry : BOOLEAN, older : Nat, stopped : BOOLEAN, gaveUp : BOOLEAN]

\* What the two reports of one connection, which come in one step, preserve: `n` is
\* how many connections have ended, the reported one included.
Budget(c, n, reports) ==
  /\ c \in Client
  /\ c.stopped => c.socket = "null" /\ ~c.retry
  /\ ~c.stopped => ~c.gaveUp /\ c.attempt <= 2 * n - reports
  /\ c.gaveUp => 2 * n > MaxAttempts

BudgetInv == opens \in 0..MaxOpens /\ failed \in Nat /\ Budget(client, failed, 0)

\* Forgetting a connection touches nothing but the connections.
LEMMA ForgetsLoses ==
  ASSUME NEW c \in Client
  PROVE  /\ Forgets(c) \in Client /\ Forgets(c).socket = "null"
         /\ Forgets(c).attempt = c.attempt /\ Forgets(c).retry = c.retry
         /\ Forgets(c).older = c.older
         /\ Forgets(c).stopped = c.stopped /\ Forgets(c).gaveUp = c.gaveUp
<1>1. CASE c.socket = "null"
  BY <1>1 DEF Forgets
<1>2. CASE c.socket # "null"
  <2> DEFINE l == [c.lost EXCEPT ![c.socket] = @ + 1]
  <2>1. c.socket \in Alive /\ c.lost \in [Alive -> Nat] /\ c.lost[c.socket] \in Nat
    BY <1>2 DEF Client
  <2>2. l \in [Alive -> Nat]
    BY <2>1
  <2>3. Forgets(c) = [c EXCEPT !.lost = l, !.socket = "null"]
    BY <1>2 DEF Forgets, Client
  <2> HIDE DEF l
  <2> QED BY <2>2, <2>3 DEF Client
<1> QED BY <1>1, <1>2

\* A report moves the client one drop nearer to giving up, and no further.
LEMMA DroppedSpendsOne ==
  ASSUME NEW c, NEW n \in Nat, NEW reports \in {1, 2}, Budget(c, n, reports)
  PROVE  Budget(Dropped(c), n, reports - 1)
<1> USE SttAssumption
<1>1. c \in Client
  BY DEF Budget
<1>2. CASE c.stopped
  <2>1. Dropped(c) = c
    BY <1>2 DEF Dropped
  <2> QED BY <1>2, <2>1 DEF Budget
<1> DEFINE f == Forgets(c)
<1>3. /\ f \in Client /\ f.attempt = c.attempt /\ f.retry = c.retry /\ f.older = c.older
      /\ f.stopped = c.stopped /\ f.gaveUp = c.gaveUp /\ f.socket = "null"
  BY <1>1, ForgetsLoses
<1> HIDE DEF f
<1>4. CASE ~c.stopped /\ c.attempt >= MaxAttempts
  <2>1. Dropped(c) = Closed([f EXCEPT !.gaveUp = TRUE])
    BY <1>4 DEF Dropped, GivesUp, f
  <2>2. 2 * n > MaxAttempts
    BY <1>1, <1>4 DEF Budget, Client
  <2> QED BY <1>3, <2>1, <2>2 DEF Budget, Closed, Client
<1>5. CASE ~c.stopped /\ ~(c.attempt >= MaxAttempts)
  <2>1. Dropped(c) = [f EXCEPT !.attempt = @ + 1, !.retry = TRUE,
                               !.older = @ + (IF c.retry THEN 1 ELSE 0)]
    BY <1>5 DEF Dropped, Retries, f
  <2>2. /\ c.attempt \in Nat /\ c.attempt + 1 \in 0..MaxAttempts /\ c.attempt <= 2 * n - reports
        /\ ~c.gaveUp
    BY <1>1, <1>5 DEF Budget, Client
  <2>3. /\ Dropped(c) \in Client /\ ~Dropped(c).stopped /\ ~Dropped(c).gaveUp
        /\ Dropped(c).attempt = c.attempt + 1
    <3>1. f.older \in Nat /\ f.older + (IF c.retry THEN 1 ELSE 0) \in Nat
      BY <1>3 DEF Client
    <3>2. ~f.stopped /\ ~f.gaveUp
      <4>1. ~c.stopped /\ ~c.gaveUp
        BY <1>5, <2>2
      <4> QED BY <1>3, <4>1
    <3>3. f.attempt + 1 \in 0..MaxAttempts /\ f.attempt = c.attempt
      BY <1>3, <2>2
    <3> QED BY <1>3, <2>1, <3>1, <3>2, <3>3 DEF Client
  <2>4. c.attempt + 1 <= 2 * n - (reports - 1)
    BY <2>2
  <2> QED BY <2>3, <2>4 DEF Budget
<1> QED BY <1>2, <1>4, <1>5

\* Taking a connection away touches nothing but the connections.
LEMMA WithoutKeeps ==
  ASSUME BudgetInv, NEW kind \in Alive, NEW rest \in Without(kind)
  PROVE  /\ rest \in Client
         /\ rest.stopped = client.stopped /\ rest.gaveUp = client.gaveUp
         /\ rest.attempt = client.attempt /\ rest.retry = client.retry
         /\ client.stopped => rest.socket = "null"
<1>1. client \in Client /\ (client.stopped => client.socket = "null")
  BY DEF BudgetInv, Budget
<1>2. CASE rest = [client EXCEPT !.socket = "null"]
  BY <1>1, <1>2 DEF Client
<1>3. CASE client.lost[kind] > 0 /\ rest = [client EXCEPT !.lost[kind] = @ - 1]
  <2> DEFINE l == [client.lost EXCEPT ![kind] = @ - 1]
  <2>1. client.lost \in [Alive -> Nat] /\ client.lost[kind] \in Nat \ {0}
    BY <1>1, <1>3 DEF Client
  <2>2. l \in [Alive -> Nat]
    BY <2>1
  <2>3. rest = [client EXCEPT !.lost = l]
    BY <1>1, <1>3 DEF Client
  <2> HIDE DEF l
  <2> QED BY <1>1, <2>2, <2>3 DEF Client
<1> QED BY <1>2, <1>3 DEF Without

\* The invariant with one connection gone, before its reports are heard.
LEMMA OneGone ==
  ASSUME BudgetInv, NEW kind \in Alive, NEW rest \in Without(kind)
  PROVE  /\ client.stopped => Budget(rest, failed, 2)
         /\ ~client.stopped => Budget(rest, failed + 1, 2)
<1>1. /\ rest \in Client
      /\ rest.stopped = client.stopped /\ rest.gaveUp = client.gaveUp
      /\ rest.attempt = client.attempt /\ rest.retry = client.retry
      /\ client.stopped => rest.socket = "null"
  BY WithoutKeeps
<1>2. /\ failed \in Nat /\ client.attempt \in Int
      /\ client.stopped => ~client.retry
      /\ ~client.stopped => ~client.gaveUp /\ client.attempt <= 2 * failed
      /\ client.gaveUp => 2 * failed > MaxAttempts
  BY DEF BudgetInv, Budget, Client
<1> QED BY <1>1, <1>2 DEF Budget

\* A stopped client hears no report.
LEMMA StoppedHearsNothing ==
  ASSUME NEW c, c.stopped
  PROVE  Dropped(c) = c
BY DEF Dropped

LEMMA BudgetStart == SttInit => BudgetInv
BY SttAssumption DEF SttInit, BudgetInv, Budget, Client, Alive

LEMMA EndKeepsBudget ==
  ASSUME BudgetInv, CannotConnect \/ Breaks
  PROVE  BudgetInv'
<1> USE SttAssumption
<1>1. PICK kind \in Alive : \E rest \in Without(kind) :
        client' \in {Dropped(rest), Dropped(Dropped(rest))}
  BY DEF CannotConnect, Breaks, Alive
<1>2. PICK rest \in Without(kind) : client' \in {Dropped(rest), Dropped(Dropped(rest))}
  BY <1>1
<1>3. /\ failed \in Nat /\ opens \in 0..MaxOpens /\ opens' = opens
      /\ failed' = IF client.stopped THEN failed ELSE failed + 1
  BY DEF BudgetInv, CannotConnect, Breaks
<1>4. rest.stopped = client.stopped
  BY <1>2, WithoutKeeps
<1>5. CASE client.stopped
  <2>1. client' = rest
    BY <1>2, <1>4, <1>5, StoppedHearsNothing
  <2>2. Budget(rest, failed, 2) /\ rest.stopped
    BY <1>2, <1>4, <1>5, OneGone
  <2>3. Budget(rest, failed, 0)
    BY <2>2 DEF Budget
  <2> QED BY <1>3, <1>5, <2>1, <2>3 DEF BudgetInv
<1>6. CASE ~client.stopped
  <2>1. failed + 1 \in Nat /\ Budget(rest, failed + 1, 2)
    BY <1>2, <1>3, <1>6, OneGone
  <2>2. Budget(Dropped(rest), failed + 1, 1)
    BY <2>1, DroppedSpendsOne
  <2>3. Budget(Dropped(Dropped(rest)), failed + 1, 0)
    BY <2>1, <2>2, DroppedSpendsOne
  <2>4. Budget(Dropped(rest), failed + 1, 0)
    BY <1>3, <2>2 DEF Budget, Client
  <2> QED BY <1>2, <1>3, <1>6, <2>1, <2>3, <2>4 DEF BudgetInv
<1> QED BY <1>5, <1>6

LEMMA OpenKeepsBudget ==
  ASSUME BudgetInv, Opens
  PROVE  BudgetInv'
<1> USE SttAssumption
<1>1. /\ failed \in Nat /\ opens \in 0..MaxOpens /\ opens < MaxOpens /\ opens' = opens + 1
      /\ failed' = IF client.stopped THEN failed ELSE 0
  BY DEF BudgetInv, Opens
<1>2. PICK x \in Opened : client' = x
  BY DEF Opens
<1>3. /\ x \in Client /\ x.attempt = 0
      /\ x.stopped = client.stopped /\ x.gaveUp = client.gaveUp
      /\ x.retry = client.retry
      /\ client.stopped => x.socket = "null"
  <2>1. client \in Client /\ (client.stopped => client.socket = "null")
    BY DEF BudgetInv, Budget
  <2>2. CASE client.socket = "connecting" /\ x = [client EXCEPT !.socket = "open", !.attempt = 0]
    <3>1. 0 \in 0..MaxAttempts /\ "open" \in {"null"} \cup Alive
      BY DEF Alive
    <3>2. ~client.stopped
      BY <2>1, <2>2
    <3>3. x \in Client
      BY <2>1, <2>2, <3>1 DEF Client
    <3>4. /\ x.attempt = 0 /\ x.stopped = client.stopped /\ x.gaveUp = client.gaveUp
          /\ x.retry = client.retry
      BY <2>1, <2>2 DEF Client
    <3> QED BY <3>2, <3>3, <3>4
  <2>3. CASE /\ client.lost["connecting"] > 0
             /\ x = [client EXCEPT !.lost["connecting"] = @ - 1, !.lost["open"] = @ + 1,
                                   !.attempt = 0]
    <3> DEFINE l == [client.lost EXCEPT !["connecting"] = @ - 1, !["open"] = @ + 1]
    <3>1. /\ client.lost \in [Alive -> Nat] /\ client.lost["connecting"] \in Nat \ {0}
          /\ client.lost["open"] \in Nat
      BY <2>1, <2>3 DEF Client, Alive
    <3>2. l \in [Alive -> Nat]
      BY <3>1 DEF Alive
    <3>3. x = [client EXCEPT !.lost = l, !.attempt = 0]
      BY <2>1, <2>3 DEF Client
    <3> HIDE DEF l
    <3>4. 0 \in 0..MaxAttempts
      OBVIOUS
    <3>5. x \in Client
      BY <2>1, <3>2, <3>3, <3>4 DEF Client
    <3>6. /\ x.attempt = 0 /\ x.stopped = client.stopped /\ x.gaveUp = client.gaveUp
          /\ x.retry = client.retry /\ x.socket = client.socket
      BY <2>1, <3>3 DEF Client
    <3> QED BY <2>1, <3>5, <3>6
  <2>4. x \in (IF client.socket = "connecting"
              THEN {[client EXCEPT !.socket = "open", !.attempt = 0]} ELSE {})
        \/ x \in (IF client.lost["connecting"] > 0
              THEN {[client EXCEPT !.lost["connecting"] = @ - 1, !.lost["open"] = @ + 1,
                                   !.attempt = 0]} ELSE {})
    BY Zenon DEF Opened
  <2>5. \/ client.socket = "connecting" /\ x = [client EXCEPT !.socket = "open", !.attempt = 0]
        \/ /\ client.lost["connecting"] > 0
           /\ x = [client EXCEPT !.lost["connecting"] = @ - 1, !.lost["open"] = @ + 1,
                                 !.attempt = 0]
    BY <2>4, Zenon
  <2> QED BY <2>2, <2>3, <2>5
<1>4. /\ client.stopped => ~client.retry
      /\ ~client.stopped => ~client.gaveUp
      /\ client.gaveUp => 2 * failed > MaxAttempts
  BY DEF BudgetInv, Budget
<1>5. PICK n \in Nat : failed' = n /\ n = IF client.stopped THEN failed ELSE 0
  BY <1>1
<1>6. Budget(x, n, 0)
  <2>1. x.gaveUp => 2 * n > MaxAttempts
    BY <1>3, <1>4, <1>5
  <2> QED BY <1>3, <1>4, <1>5, <2>1 DEF Budget
<1>7. opens' \in 0..MaxOpens
  BY <1>1
<1> QED BY <1>2, <1>5, <1>6, <1>7 DEF BudgetInv

LEMMA TimerKeepsBudget ==
  ASSUME BudgetInv, TimerFires
  PROVE  BudgetInv'
<1>1. client \in Client /\ failed' = failed /\ opens' = opens
  BY DEF BudgetInv, Budget, TimerFires
<1>2. PICK c \in {[client EXCEPT !.retry = FALSE], [client EXCEPT !.older = @ - 1]} :
        /\ client' = Connects(c)
        /\ c = [client EXCEPT !.older = @ - 1] => client.older > 0
        /\ client.stopped => c.retry = client.retry
  <2>1. CASE client.retry /\ client' = Connects([client EXCEPT !.retry = FALSE])
    BY <1>1, <2>1 DEF BudgetInv, Budget, Client
  <2>2. CASE client.older > 0 /\ client' = Connects([client EXCEPT !.older = @ - 1])
    BY <1>1, <2>2 DEF Client
  <2> QED BY <2>1, <2>2 DEF TimerFires
<1>3. /\ c \in Client
      /\ c.stopped = client.stopped /\ c.gaveUp = client.gaveUp /\ c.attempt = client.attempt
      /\ c.socket = client.socket
  <2>1. client.older \in Nat /\ (client.older > 0 => client.older - 1 \in Nat)
    BY <1>1 DEF Client
  <2> QED BY <1>1, <1>2, <2>1 DEF Client
<1>4. PICK x : x = Connects(c) /\ client' = x
  BY <1>2
<1>5. /\ x \in Client
      /\ x.stopped = client.stopped /\ x.gaveUp = client.gaveUp /\ x.attempt = client.attempt
      /\ client.stopped => x = c
      /\ ~client.stopped => x.socket = "connecting"
  <2>1. CASE c.stopped
    BY <1>3, <1>4, <2>1 DEF Connects
  <2>2. CASE ~c.stopped
    <3>1. Forgets(c) \in Client /\ Forgets(c).stopped = c.stopped
          /\ Forgets(c).gaveUp = c.gaveUp /\ Forgets(c).attempt = c.attempt
      BY <1>3, ForgetsLoses
    <3>2. x = [Forgets(c) EXCEPT !.socket = "connecting"]
      BY <1>4, <2>2 DEF Connects
    <3> QED BY <1>3, <2>2, <3>1, <3>2 DEF Client, Alive
  <2> QED BY <2>1, <2>2
<1>6. Budget(x, failed, 0)
  BY <1>2, <1>3, <1>5 DEF BudgetInv, Budget
<1> QED BY <1>1, <1>4, <1>6 DEF BudgetInv

LEMMA CloseKeepsBudget ==
  ASSUME BudgetInv, Refused \/ SessionEnds
  PROVE  BudgetInv'
<1>1. /\ client \in Client /\ ~client.gaveUp
      /\ failed' = failed /\ opens' = opens
  BY DEF BudgetInv, Budget, Refused, SessionEnds
<1>2. PICK x : x = Closed(client) /\ client' = x
  BY DEF Refused, SessionEnds
<1>3. x \in Client /\ x.stopped /\ ~x.retry /\ x.socket = "null" /\ ~x.gaveUp
  BY <1>1, <1>2 DEF Closed, Client
<1>4. Budget(x, failed, 0)
  BY <1>3 DEF Budget
<1> QED BY <1>1, <1>2, <1>4 DEF BudgetInv

\* The inductive invariant: what the reports of the connections have used up of the
\* budget is never more than twice the connections that have ended.
THEOREM SttBudget == SttSpec => []BudgetInv
<1>1. ASSUME BudgetInv, [SttNext]_sttVars PROVE BudgetInv'
  <2>1. CASE UNCHANGED sttVars
    BY <1>1, <2>1 DEF BudgetInv, Budget, sttVars
  <2>2. CASE SttNext
    BY <1>1, <2>2, EndKeepsBudget, OpenKeepsBudget, TimerKeepsBudget, CloseKeepsBudget DEF SttNext
  <2> QED BY <1>1, <2>1, <2>2
<1> QED BY <1>1, BudgetStart, PTL DEF SttSpec

\* The types of the transcription client (elevenlabs-stt.ts:97-102).
THEOREM SttTypes == SttSpec => []SttTypeOK
<1>1. BudgetInv => SttTypeOK
  BY DEF BudgetInv, Budget, Client, SttTypeOK
<1> QED BY <1>1, SttBudget, PTL

\* Whatever the retry budget, and however failures, timers and late openings overlap,
\* the session is given up only after half as many connections in a row have failed
\* (elevenlabs-stt.ts:191-195).
THEOREM SttGivesUpLate == SttSpec => []GivesUpLate
<1>1. BudgetInv => GivesUpLate
  BY DEF BudgetInv, Budget, GivesUpLate
<1> QED BY <1>1, SttBudget, PTL

\* Once the session is over no timer, late opening or failure makes another
\* connection (elevenlabs-stt.ts:151-161).
THEOREM SttOverIsOver == SttSpec => OverIsOver
<1> DEFINE Step == client.stopped => Connections' <= Connections
<1>1. ASSUME BudgetInv, [SttNext]_sttVars, client.stopped PROVE Connections' <= Connections
  <2>1. /\ client \in Client /\ client.socket = "null" /\ ~client.retry
    BY <1>1 DEF BudgetInv, Budget
  <2> DEFINE a == client.lost["connecting"]
             b == client.lost["open"]
  <2>2. a \in Nat /\ b \in Nat
    BY <2>1 DEF Client, Alive
  <2>3. Connections = a + b + 0
    BY <2>1 DEF Connections
  <2>4. PICK x : client' = x
    OBVIOUS
  <2>5. Connections' = x.lost["connecting"] + x.lost["open"] + (IF x.socket = "null" THEN 0 ELSE 1)
    BY <2>4 DEF Connections
  <2>6. CASE UNCHANGED sttVars
    BY <2>2, <2>3, <2>5, <2>4, <2>1, <2>6 DEF sttVars
  <2>7. CASE CannotConnect \/ Breaks
    <3>1. PICK kind \in Alive : \E rest \in Without(kind) : x \in {Dropped(rest), Dropped(Dropped(rest))}
      BY <2>4, <2>7 DEF CannotConnect, Breaks, Alive
    <3>2. PICK rest \in Without(kind) : x \in {Dropped(rest), Dropped(Dropped(rest))}
      BY <3>1
    <3>3. x = rest
      BY <1>1, <3>2, WithoutKeeps, StoppedHearsNothing
    <3>4. client.lost[kind] > 0 /\ x = [client EXCEPT !.lost[kind] = @ - 1]
      BY <2>1, <3>2, <3>3, Zenon DEF Without, Alive
    <3> QED BY <2>1, <2>2, <2>3, <2>5, <3>4 DEF Client, Alive
  <2>8. CASE Opens
    <3>1. x \in Opened
      BY <2>4, <2>8 DEF Opens
    <3>2. x = [client EXCEPT !.lost["connecting"] = @ - 1, !.lost["open"] = @ + 1, !.attempt = 0]
      BY <2>1, <3>1, Zenon DEF Opened
    <3> QED BY <2>1, <2>2, <2>3, <2>5, <3>2 DEF Client, Alive
  <2>9. CASE TimerFires
    <3>1. x = Connects([client EXCEPT !.older = @ - 1])
      BY <2>1, <2>4, <2>9 DEF TimerFires
    <3>2. x = [client EXCEPT !.older = @ - 1]
      BY <1>1, <2>1, <3>1 DEF Connects, Client
    <3> QED BY <2>1, <2>2, <2>3, <2>5, <3>2 DEF Client
  <2>10. CASE Refused \/ SessionEnds
    BY <1>1, <2>10 DEF Refused, SessionEnds
  <2> QED BY <1>1, <2>6, <2>7, <2>8, <2>9, <2>10 DEF SttNext
<1>2. BudgetInv /\ [SttNext]_sttVars => [Step]_sttVars
  BY <1>1
<1> QED BY <1>2, SttBudget, PTL DEF SttSpec, OverIsOver

-----------------------------------------------------------------------------
(***************************************************************************)
(* Proofs about the sessions of a user and the drain of their relay, for   *)
(* every plan and any finite number of sessions.                           *)
(*                                                                         *)
(* The argument for the plan limit: the sessions on their way to the relay *)
(* never outnumber the slots (Pending), so those between the gate and the  *)
(* registry are fewer than the plan allows when one more passes, and so    *)
(* are the registered ones.  Until the slots expire, no session that was   *)
(* ever let in outnumbers them (Taken).                                    *)
(*                                                                         *)
(* The argument for the drain: once closeAll() has made its list, a        *)
(* session that is registered and not on it came late.                     *)
(***************************************************************************)

Pending == In({"starting", "minted", "dialled", "verifying", "creating"})
Taken == In({"starting", "minted", "dialled", "verifying", "creating", "running", "draining"})

CountInv ==
  /\ Cardinality(Pending) <= slots
  /\ Cardinality(Active) < 2 * Limit
  /\ ~expired => Cardinality(Taken) <= slots

LimitInv == RelayTypeOK /\ CountInv

DrainInv ==
  /\ RelayTypeOK
  /\ relay = "closingAll" => Registered \subseteq late \cup awaited
  /\ relay \in {"closing", "exited"} => Registered \subseteq late

-----------------------------------------------------------------------------
(* Sets of sessions                                                        *)

\* What a session that goes from one phase to another does to the sessions in some.
LEMMA OneMoves ==
  ASSUME RelayTypeOK, NEW s \in Sessions, NEW p \in Phases, Goes(s, p), NEW ps
  PROVE  /\ phase' \in [Sessions -> Phases]
         /\ In(ps)' = IF p \in ps THEN In(ps) \cup {s} ELSE In(ps) \ {s}
  BY DEF RelayTypeOK, Goes, In

\* The sessions are finitely many.
LEMMA Finitely ==
  ASSUME NEW S \in SUBSET Sessions
  PROVE  IsFiniteSet(S) /\ Cardinality(S) \in Nat
  BY RelayAssumption, FS_Subset, FS_CardinalityType

\* One session more, or one less.
LEMMA OneMore ==
  ASSUME NEW S \in SUBSET Sessions, NEW s \in Sessions
  PROVE  /\ Cardinality(S \cup {s}) \in Nat
         /\ Cardinality(S \cup {s}) <= Cardinality(S) + 1
         /\ s \in S => Cardinality(S \ {s}) = Cardinality(S) - 1
  BY Finitely, FS_AddElement, FS_RemoveElement

\* A subset is not larger.
LEMMA NotMore ==
  ASSUME NEW S \in SUBSET Sessions, NEW R \in SUBSET S
  PROVE  Cardinality(R) \in Nat /\ Cardinality(R) <= Cardinality(S)
  BY Finitely, FS_Subset

-----------------------------------------------------------------------------
(* Types                                                                   *)

\* The types hold at the start,
LEMMA TypesStart == RelayInit => RelayTypeOK
<1> SUFFICES ASSUME RelayInit PROVE RelayTypeOK
  OBVIOUS
<1>1. phase \in [Sessions -> Phases] /\ \A s \in Sessions : phase[s] = "new"
  BY DEF RelayInit, Phases
<1>2. In({"dialled"}) = {}
  BY <1>1 DEF In
<1>3. slots \in 0..Limit
  BY RelayAssumption DEF RelayInit
<1> QED BY <1>1, <1>2, <1>3 DEF RelayInit, RelayTypeOK, Stages

\* and every step keeps them.
LEMMA TypesKept == RelayTypeOK /\ [RelayNext]_relayVars => RelayTypeOK'
<1> SUFFICES ASSUME RelayTypeOK, [RelayNext]_relayVars PROVE RelayTypeOK'
  OBVIOUS
<1> USE RelayAssumption
<1>1. ASSUME NEW s \in Sessions, Start(s) PROVE RelayTypeOK'
  BY <1>1 DEF RelayTypeOK, Start, SlotIsFree, Goes, In, Phases, Stages
<1>2. ASSUME NEW s \in Sessions, Minted(s) PROVE RelayTypeOK'
  BY <1>2 DEF RelayTypeOK, Minted, Goes, In, Phases, Stages
<1>3. ASSUME NEW s \in Sessions, MintFails(s) PROVE RelayTypeOK'
  BY <1>3 DEF RelayTypeOK, MintFails, Goes, In, Phases, Stages
<1>4. ASSUME NEW s \in Sessions, Dial(s) PROVE RelayTypeOK'
  BY <1>4 DEF RelayTypeOK, Dial, Goes, In, Phases, Stages
<1>5. ASSUME NEW s \in Sessions, Lapses(s) PROVE RelayTypeOK'
  BY <1>5 DEF RelayTypeOK, Lapses, Goes, In, Phases, Stages
<1>6. ASSUME NEW s \in Sessions, NoHello(s) PROVE RelayTypeOK'
  BY <1>6 DEF RelayTypeOK, NoHello, TurnedAway, Leaves, Goes, In, Phases, Stages
<1>7. ASSUME NEW s \in Sessions, Hello(s) PROVE RelayTypeOK'
  BY <1>7 DEF RelayTypeOK, Hello, Goes, In, Phases, Stages
<1>8. ASSUME NEW s \in Sessions, Verified(s) PROVE RelayTypeOK'
  BY <1>8 DEF RelayTypeOK, Verified, TurnedAway, Leaves, Goes, In, Phases, Stages
<1>9. ASSUME NEW s \in Sessions, Created(s) PROVE RelayTypeOK'
  BY <1>9 DEF RelayTypeOK, Created, TurnedAway, Leaves, Goes, In, Phases, Stages
<1>10. ASSUME NEW s \in Sessions, Hangup(s) PROVE RelayTypeOK'
  BY <1>10 DEF RelayTypeOK, Hangup, In, Phases, Stages
<1>11. ASSUME NEW s \in Sessions, Closes(s) PROVE RelayTypeOK'
  BY <1>11 DEF RelayTypeOK, Closes, Goes, In, Phases, Stages
<1>12. ASSUME NEW s \in Sessions, Settled(s) PROVE RelayTypeOK'
  BY <1>12 DEF RelayTypeOK, Settled, Leaves, Goes, In, Phases, Stages
<1>13. CASE SlotsExpire
  <2>1. slots' \in 0..Limit
    BY <1>13 DEF SlotsExpire
  <2> QED BY <1>13, <2>1 DEF RelayTypeOK, SlotsExpire, In
<1>14. CASE StartDrain \/ DrainSeesEmpty \/ CloseAllEnds \/ Exit
  BY <1>14 DEF RelayTypeOK, StartDrain, DrainSeesEmpty, CloseAllEnds, Exit, In, Stages
<1>15. CASE DrainDeadline
  BY <1>15 DEF RelayTypeOK, DrainDeadline, ClosedAll, Registered, In, Phases, Stages
<1>16. CASE UNCHANGED relayVars
  BY <1>16 DEF RelayTypeOK, relayVars, In
<1> QED
  BY <1>1, <1>2, <1>3, <1>4, <1>5, <1>6, <1>7, <1>8, <1>9, <1>10, <1>11, <1>12, <1>13, <1>14, <1>15, <1>16
     DEF RelayNext

\* The types of the sessions' path through the relay, and the sockets of its phases
\* (server.ts:175-252).
THEOREM RelayTypes == RelaySpec => []RelayTypeOK
  BY TypesStart, TypesKept, PTL DEF RelaySpec

-----------------------------------------------------------------------------
(* The drain                                                               *)

\* Every step keeps what the drain knows of the sessions.
LEMMA DrainKept == DrainInv /\ [RelayNext]_relayVars => DrainInv'
<1> SUFFICES ASSUME DrainInv, [RelayNext]_relayVars PROVE DrainInv'
  OBVIOUS
<1> USE DEF DrainInv
<1>0. RelayTypeOK'
  BY TypesKept
<1>1. ASSUME NEW s \in Sessions,
             Start(s) \/ Minted(s) \/ MintFails(s) \/ Dial(s) \/ Lapses(s) \/ NoHello(s) \/ Hello(s)
               \/ Verified(s)
      PROVE  Registered' \subseteq Registered /\ UNCHANGED <<relay, awaited, late>>
  BY <1>1 DEF Start, Minted, MintFails, Dial, Lapses, NoHello, Hello, Verified, TurnedAway, Leaves,
              Goes, Registered, In, RelayTypeOK
<1>2. ASSUME NEW s \in Sessions, Hangup(s) \/ Closes(s) \/ Settled(s)
      PROVE  Registered' \subseteq Registered /\ UNCHANGED <<relay, awaited, late>>
  BY <1>2 DEF Hangup, Closes, Settled, Leaves, Goes, Registered, In, RelayTypeOK
<1>3. ASSUME NEW s \in Sessions, Created(s) PROVE DrainInv'
  BY <1>0, <1>3 DEF Created, TurnedAway, Leaves, Goes, Registered, In, RelayTypeOK, Stages
<1>4. CASE SlotsExpire \/ StartDrain \/ Exit
  BY <1>0, <1>4 DEF SlotsExpire, StartDrain, Exit, Registered, In
<1>5. CASE DrainSeesEmpty
  BY <1>0, <1>5 DEF DrainSeesEmpty, Registered, In
<1>6. CASE DrainDeadline
  BY <1>0, <1>6 DEF DrainDeadline, ClosedAll, Registered, In, RelayTypeOK
<1>7. CASE CloseAllEnds
  BY <1>0, <1>7 DEF CloseAllEnds, AllSettled, Registered, In, RelayTypeOK
<1>8. CASE UNCHANGED relayVars
  BY <1>0, <1>8 DEF relayVars, Registered, In
<1> QED BY <1>0, <1>1, <1>2, <1>3, <1>4, <1>5, <1>6, <1>7, <1>8 DEF RelayNext

\* Whenever the studios hang up, and whoever connects during the drain, the process
\* exits only when every session that was registered before the drain looked for the
\* last time is settled (server.ts:135-145, index.ts:77-83).
THEOREM RelayDrainSettles == RelaySpec => []DrainSettles
<1>1. RelayInit => DrainInv
  BY TypesStart DEF RelayInit, DrainInv
<1>2. DrainInv => DrainSettles
  BY DEF DrainInv, DrainSettles
<1> QED BY <1>1, <1>2, DrainKept, PTL DEF RelaySpec
-----------------------------------------------------------------------------
(* The plan limit                                                          *)

\* The sessions in some phases are sessions.
LEMMA InSessions == ASSUME NEW ps PROVE In(ps) \subseteq Sessions
  BY DEF In

\* The counts hold at the start,
LEMMA CountStart == RelayInit => CountInv
<1> SUFFICES ASSUME RelayInit PROVE CountInv
  OBVIOUS
<1>1. Pending = {} /\ Active = {} /\ Taken = {}
  BY DEF RelayInit, Pending, Active, Taken, In
<1>2. slots = 0
  BY DEF RelayInit
<1> QED BY <1>1, <1>2, FS_EmptySet, RelayAssumption DEF CountInv

\* A step that lets nobody in and gives no slot back keeps the counts.
LEMMA NobodyEnters ==
  ASSUME RelayTypeOK, CountInv,
         Pending' \subseteq Pending, Active' \subseteq Active, Taken' \subseteq Taken,
         slots' = slots, expired' = expired
  PROVE  CountInv'
<1>1. /\ Cardinality(Pending') <= Cardinality(Pending) /\ Cardinality(Pending') \in Nat
      /\ Cardinality(Active') <= Cardinality(Active) /\ Cardinality(Active') \in Nat
      /\ Cardinality(Taken') <= Cardinality(Taken) /\ Cardinality(Taken') \in Nat
  BY NotMore, InSessions DEF Pending, Active, Taken
<1>2. /\ Cardinality(Pending) \in Nat /\ Cardinality(Active) \in Nat /\ Cardinality(Taken) \in Nat
  BY Finitely, InSessions DEF Pending, Active, Taken
<1>3. slots \in Nat /\ Limit \in Nat
  BY RelayAssumption DEF RelayTypeOK
<1> QED BY <1>1, <1>2, <1>3 DEF CountInv

\* A new session takes a slot and is counted.
LEMMA StartCounts ==
  ASSUME RelayTypeOK, CountInv, NEW s \in Sessions, Start(s)
  PROVE  CountInv'
<1>1. /\ Pending' = Pending \cup {s} /\ Active' = Active \ {s} /\ Taken' = Taken \cup {s}
  BY OneMoves DEF Start, Pending, Active, Taken, Phases
<1>2. /\ Cardinality(Pending) \in Nat /\ Cardinality(Active) \in Nat /\ Cardinality(Taken) \in Nat
      /\ Cardinality(Active') <= Cardinality(Active) /\ Cardinality(Active') \in Nat
      /\ Cardinality(Pending') <= Cardinality(Pending) + 1 /\ Cardinality(Pending') \in Nat
      /\ Cardinality(Taken') <= Cardinality(Taken) + 1 /\ Cardinality(Taken') \in Nat
  BY <1>1, Finitely, OneMore, NotMore, InSessions DEF Pending, Active, Taken
<1>3. PICK n \in Nat : n = slots + 1 /\ slots' = n
  BY DEF Start, RelayTypeOK
<1>4. slots \in Nat /\ Limit \in Nat /\ expired' = expired
  BY RelayAssumption DEF RelayTypeOK, Start
<1> QED BY <1>2, <1>3, <1>4 DEF CountInv

\* A session that could not be started gives its slot back, and is no longer counted.
LEMMA FailureUncounts ==
  ASSUME RelayTypeOK, CountInv, NEW s \in Sessions, MintFails(s)
  PROVE  CountInv'
<1>1. /\ Pending' = Pending \ {s} /\ Active' = Active \ {s} /\ Taken' = Taken \ {s}
  BY OneMoves DEF MintFails, Pending, Active, Taken, Phases
<1>2. s \in Pending /\ s \in Taken
  BY DEF MintFails, Pending, Taken, In
<1>3. /\ Cardinality(Pending) \in Nat /\ Cardinality(Active) \in Nat /\ Cardinality(Taken) \in Nat
      /\ Cardinality(Active') <= Cardinality(Active) /\ Cardinality(Active') \in Nat
      /\ Cardinality(Pending') = Cardinality(Pending) - 1 /\ Cardinality(Pending') \in Nat
      /\ Cardinality(Taken') = Cardinality(Taken) - 1 /\ Cardinality(Taken') \in Nat
  BY <1>1, <1>2, Finitely, OneMore, NotMore, InSessions DEF Pending, Active, Taken
<1>4. slots \in Nat /\ Limit \in Nat /\ expired' = expired
  BY RelayAssumption DEF RelayTypeOK, MintFails
<1>5. slots > 0
  BY <1>3, <1>4 DEF CountInv
<1>6. PICK n \in Nat : n = slots - 1 /\ slots' = n
  BY <1>4, <1>5 DEF MintFails
<1> QED BY <1>3, <1>4, <1>6 DEF CountInv

\* The counter starts again only when no session is on its way.
LEMMA ExpiryCounts ==
  ASSUME RelayTypeOK, CountInv, SlotsExpire
  PROVE  CountInv'
<1>1. Pending' = Pending /\ Active' = Active /\ Taken' = Taken /\ Pending = {}
  BY DEF SlotsExpire, Pending, Active, Taken, In
<1>2. slots' = 0 /\ expired'
  BY DEF SlotsExpire
<1> QED BY <1>1, <1>2, FS_EmptySet DEF CountInv

\* A session that passes the gate finds fewer registered than the plan allows, and
\* fewer with it between the gate and the registry than there are slots.
LEMMA GateCounts ==
  ASSUME RelayTypeOK, CountInv, NEW s \in Sessions, phase[s] = "verifying", Gate, Goes(s, "creating"),
         slots' = slots, expired' = expired
  PROVE  CountInv'
<1> DEFINE Creating == In({"creating"})
<1>1. /\ Pending' = Pending \cup {s} /\ Active' = Active \cup {s} /\ Taken' = Taken \cup {s}
  BY OneMoves DEF Pending, Active, Taken, Phases
<1>2. /\ s \in Pending /\ s \in Taken
      /\ Creating \subseteq Pending \ {s}
      /\ Active = Registered \cup Creating
  BY DEF Pending, Taken, Active, Registered, In
<1>3. Pending' = Pending /\ Taken' = Taken
  BY <1>1, <1>2
<1>4. Creating \subseteq Sessions /\ Registered \subseteq Sessions /\ Pending \subseteq Sessions
        /\ Active \subseteq Sessions
  BY DEF Pending, Registered, Active, In
<1> HIDE DEF Creating
<1>5. /\ IsFiniteSet(Creating) /\ Cardinality(Creating) \in Nat
      /\ IsFiniteSet(Registered) /\ Cardinality(Registered) \in Nat
      /\ Cardinality(Registered \cap Creating) \in Nat
      /\ Cardinality(Pending) \in Nat /\ Cardinality(Active) \in Nat
  BY <1>4, Finitely
<1>6. Cardinality(Active) = Cardinality(Registered) + Cardinality(Creating)
                              - Cardinality(Registered \cap Creating)
  BY <1>2, <1>5, FS_Union
<1>7. Cardinality(Pending \ {s}) = Cardinality(Pending) - 1
  BY <1>2, <1>4, OneMore
<1>8. Cardinality(Creating) <= Cardinality(Pending) - 1
  BY <1>2, <1>4, <1>7, NotMore
<1>9. Cardinality(Active') \in Nat /\ Cardinality(Active') <= Cardinality(Active) + 1
  BY <1>1, <1>4, OneMore
<1>10. slots \in Nat /\ Limit \in Nat /\ slots <= Limit
  BY RelayAssumption DEF RelayTypeOK
<1>11. Cardinality(Registered) <= Limit - 1
  BY <1>5, <1>10 DEF Gate
<1>12. Cardinality(Pending) <= Limit
  BY <1>5, <1>10 DEF CountInv
<1>13. Cardinality(Active') < 2 * Limit
  BY <1>5, <1>6, <1>8, <1>9, <1>10, <1>11, <1>12
<1> QED BY <1>3, <1>13 DEF CountInv

\* and every step keeps them: only a start, a failed start, the expiry of the slots
\* and the gate let somebody in or change the slots.
LEMMA CountKept == RelayTypeOK /\ CountInv /\ [RelayNext]_relayVars => CountInv'
<1> SUFFICES ASSUME RelayTypeOK, CountInv, [RelayNext]_relayVars PROVE CountInv'
  OBVIOUS
<1> DEFINE Leaner == /\ Pending' \subseteq Pending /\ Active' \subseteq Active
                     /\ Taken' \subseteq Taken
                     /\ slots' = slots /\ expired' = expired
<1>1. Leaner => CountInv'
  BY NobodyEnters
<1>2. ASSUME NEW s \in Sessions, TurnedAway(s) \/ Leaves(s, "settled") PROVE Leaner
  BY <1>2, OneMoves DEF TurnedAway, Leaves, Pending, Active, Taken, Phases
<1>3. ASSUME NEW s \in Sessions, Minted(s) \/ Dial(s) \/ Lapses(s) \/ Hello(s) PROVE Leaner
  BY <1>3 DEF Minted, Dial, Lapses, Hello, Goes, Pending, Active, Taken, In, RelayTypeOK
<1>4. ASSUME NEW s \in Sessions, Hangup(s) \/ Closes(s) PROVE Leaner
  BY <1>4 DEF Hangup, Closes, Goes, Pending, Active, Taken, In, RelayTypeOK
<1>5. ASSUME NEW s \in Sessions, NoHello(s) \/ Settled(s) PROVE Leaner
  BY <1>2, <1>5 DEF NoHello, Settled
<1>6. ASSUME NEW s \in Sessions, Created(s) PROVE Leaner
  <2>1. CASE TurnedAway(s)
    BY <1>2, <2>1
  <2>2. CASE ~TurnedAway(s)
    BY <1>6, <2>2 DEF Created, Goes, Pending, Active, Taken, In, RelayTypeOK
  <2> QED BY <2>1, <2>2
<1>7. ASSUME NEW s \in Sessions, Verified(s) PROVE CountInv'
  <2>1. CASE TurnedAway(s)
    BY <1>1, <1>2, <2>1
  <2>2. CASE ~TurnedAway(s)
    BY <1>7, <2>2, GateCounts DEF Verified
  <2> QED BY <2>1, <2>2
<1>8. CASE StartDrain \/ DrainSeesEmpty \/ CloseAllEnds \/ Exit
  <2>1. Leaner
    BY <1>8 DEF StartDrain, DrainSeesEmpty, CloseAllEnds, Exit, Pending, Active, Taken, In
  <2> QED BY <1>1, <2>1
<1>9. CASE DrainDeadline
  <2>1. Leaner
    BY <1>9 DEF DrainDeadline, ClosedAll, Pending, Active, Taken, In
  <2> QED BY <1>1, <2>1
<1>10. CASE UNCHANGED relayVars
  <2>1. Leaner
    BY <1>10 DEF relayVars, Pending, Active, Taken, In
  <2> QED BY <1>1, <2>1
<1> HIDE DEF Leaner
<1> QED
  BY <1>1, <1>3, <1>4, <1>5, <1>6, <1>7, <1>8, <1>9, <1>10, StartCounts, FailureUncounts, ExpiryCounts
     DEF RelayNext

\* The two gates together: for every plan the sessions past the relay's gate are
\* fewer than twice its limit, and at most its limit until the slots have expired
\* once, however handshakes overlap (server.ts:272-284, redis.ts:30-37).
THEOREM RelayLimitHeld == RelaySpec => []LimitHeld
<1>1. RelayInit => LimitInv
  BY TypesStart, CountStart DEF LimitInv
<1>2. LimitInv /\ [RelayNext]_relayVars => LimitInv'
  BY TypesKept, CountKept DEF LimitInv
<1>3. ASSUME LimitInv PROVE LimitHeld
  <2>1. Active \subseteq Taken /\ Taken \subseteq Sessions
    BY DEF Active, Taken, In
  <2>2. /\ Cardinality(Active) \in Nat /\ Cardinality(Taken) \in Nat
        /\ Cardinality(Active) <= Cardinality(Taken)
    BY <2>1, NotMore, Finitely
  <2>3. slots \in Nat /\ Limit \in Nat /\ slots <= Limit
    BY <1>3, RelayAssumption DEF LimitInv, RelayTypeOK
  <2> QED BY <1>3, <2>2, <2>3 DEF LimitInv, CountInv, LimitHeld
<1> QED BY <1>1, <1>2, <1>3, PTL DEF RelaySpec
=============================================================================
