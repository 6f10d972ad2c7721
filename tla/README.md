# Verification of sub.hexart.io

TLA+ modules that model the live-captioning service of this repository, TLC
configurations that check them on small instances, and TLAPS proofs of what
holds for every value of the constants. Paths are relative to the repository.

Run everything in this directory:

    tlc -workers 2 -config MCMeter.cfg MCMeter     # model-check
    tlapm SessionProofs.tla                        # check proofs

`PROJECT.json` says, for each definition, which lines it stands for, and lists the
runs, the mutants, the hazards and the theorems.

## 1. The system

A speaker opens a **studio** in the browser. The **web app** (Next.js) checks the
plan and the balance, takes a concurrency slot and mints a one-minute token. The
studio dials the **relay** (one Node process, one event loop), which checks the
token, gates on the plan and builds a **session actor**. The actor sends audio to
the speech-to-text provider, feeds its hypotheses to the **caption engine**, sends
sentences to a translator, gives translations to a voice, numbers the resulting
frames and sends them to **projector** pages, and bills the session through a
**ledger gateway** on Postgres (balances and an append-only ledger) and Redis (the
hold of what is promised and not billed). Paddle tells the web app of purchases,
which become grants in the same ledger.

| Component | Source | State | Operations | Talks to |
|---|---|---|---|---|
| Billing clock | `apps/relay/src/metering.ts` (`Meter`), `session-actor.ts` (`onTick`, `performClose`) | times of last tick, audio, flush; reservation; pending credits; grace | tick (charge, top up, flush, grace), audio mark, close, release | gateway (async calls), actor |
| Credit account | `metering.ts` (`createLedgerGateway`), `packages/billing/src/ledger.ts` | buckets, ledger, hold | `reserve`, `flush`, `release`, `planSpend` | all sessions of a user, the web app |
| Billing webhooks | `api/webhooks/paddle/route.ts`, `lib/server/paddle.ts`, `credits.ts`, `api/auth/verify/route.ts` | ledger, balance row, subscription row | apply an event, refresh the balance, grant the trial | Paddle, the relay's flushes |
| Pricing and plans | `packages/billing/src/plans.ts`, `pricing.ts`, gates of the start route | none | rates, estimates, gates | start route, form, sales page |
| Caption engine | `packages/caption-engine/src/` | live card, settled cards, hypotheses, speech queue | partial, commit, silence, translation | pure: events in, operations out |
| Wire and attach | `session-actor.ts` (`emit`, `remember`, `attachProjector`, `backfillFrom`) | `seq`, bounded history | emit a frame, attach with snapshot or backfill | projector sockets |
| Projector page | `apps/web/app/projector/` | cards, last seq, resume point, what is fading out | reducer, socket hook, paint | relay; page reloads by OBS |
| Translate queue | `session-actor.ts` (`enqueueTranslation`...`runTranslation`) | pending map, jobs in flight | enqueue, pump, answer, failure | translator, engine, voice |
| Speech-to-text client | `providers/elevenlabs-stt.ts`, `socket.ts` | socket, attempt counter, retry timer | start, connect, drop, retry, close | provider socket, actor |
| Voice | `providers/elevenlabs-tts.ts`, `session-actor.ts` (`onTtsAudio`), `projector/lib/audio-queue.ts` | socket, backlog, pending sentences, timer; held bytes of the page | speak, connect, receive audio, retry; join and decode | provider socket, page |
| Relay server, registry, drain | `server.ts`, `registry.ts`, `index.ts` | registry of actors, draining flag | handshake, gate, register, hang-up, `shutdown` | studio, actors |
| Session start | `api/session/start/route.ts`, `lib/server/redis.ts` | slot counter `conc:{user}` with a TTL | gates, take slot, mint | relay (through the token) |
| Tokens and links | `lib/auth/relay-jwt.ts`, `apps/relay/src/auth.ts`, `index.ts`, `server.ts` (`handleProjector`), `projector-token/route.ts` | replay markers, link hashes, runtime keys, watchers | claim, assemble, attach, rotate | studio, browser sources |
| Web sessions | `lib/auth/`, `api/auth/`, `api/account/delete`, `api/glossary` | password, sessions, cookies, reset links | log in, slide, change, reset, delete | browsers |
| Studio client | `app/studio/studio-client.tsx`, `lib/studio/` | page status, socket, microphone, buffered frames, settings | start, stop, leave, socket and microphone callbacks | web app, relay |
| Site, legal pages, panel, infrastructure | `app/(site)`, `app/(legal)`, `infra/` | none | - | - |

What is hard about it, and what would make each part correct:

- **Money.** A gateway call takes several round trips and may fail before or after
  its effect. Ticks wait for it while audio, more ticks and a close arrive; two
  sessions share one account; webhooks are delivered again and late, and rewrite the
  row that flushes decrement. Correct: every consumed credit ends in exactly one
  place, what is promised is on hold, a close always settles, a crash loses little,
  what was bought arrives once.
- **Captions.** Links break, pages are reloaded by OBS, history is bounded, the page
  keeps fewer cards than were spoken and paints when it finds the time. Correct: no
  frame is lost or seen twice, a page that has caught up agrees with the engine,
  the newest sentence is the one on the air.
- **Translations and voice.** Two kinds of request for one card, answered in any
  order; audio that does not say which sentence it is. Correct: a commit gets its own
  translation, no slot of the translator is lost, audio bears its own card's label.
- **Upstreams.** A broken connection reports twice, timers outlive what set them.
  Correct: one connection at a time, none after the end, never silent for good.
- **Session control.** The plan gate and the registry are an `await` apart, studios
  hang up at any point, tokens are replayed, links replaced, a drain runs meanwhile.
  Correct: the limit holds, a token opens one session, nobody watches a session that
  is over, the process exits and leaves nothing unsettled.
- **Browser.** `start()` awaits the server and the microphone while its socket lives
  on its own; requests of several tabs interleave at every `await`. Correct: the page
  shows what is true, and a password that was replaced opens nothing.

## 2. The modules

The relay and the pages are JavaScript event loops, so an action is the part of a
handler from one `await` to the next, with every call in it. In `Meter`, where one
handler has several awaits, nothing from outside is taken while one holds the loop
(`OnLoop`). What comes back from an `await` is an action that may happen at any later
time; in the web app and its database, where requests run in parallel, a handler is
one action per statement.

| Module | Models | State and actions against the code |
|---|---|---|
| `Meter` | one session's billing clock | Fields of `Meter` keep their names. `Tick` = `tick()` up to the top-up; `AskReserve`, `ReserveAnswered`, `ReserveFails` = `maybeTopUp`; `MaybeFlush`, `TickEntrySettles` = `maybeFlush`/`flushNow`; `FinishTick` = `emitCredits` and `checkGrace`; `Close`, `CloseEntrySettles`, `Release`, `ReleaseAnswered` = `performClose`; `TickSkipped` = `onTick` while a tick is in flight |
| `BillOnce` | what the clock promises | a credit is consumed, then billed or forgiven for good |
| `SpendPlan` | `planSpend`, `totalAvailable` | functions over the three buckets |
| `Account` | one user's sessions on one account | a call is `Busy` between its reads and writes: `ReadsBuckets`, `ReadsHold`, `TakesHold` (`reserve`), `Commits` (the transaction of `flush`), `Unholds`, `Fails` at any point; `HoldExpires` = the TTL |
| `Billing` | grants and the balance made from them | `Applies`, `Sums`, `Writes` = the three statements of a webhook handler; `Deliver` again and in any order; `FailsAnswered`, `WebhookFails`; `SendsLink`...`MarksTrial` = the verification link; `FlushReads`, `FlushCommits` = the relay's flush before and after its transaction begins; `Passes` = the end of a period |
| `Tariff` | prices, estimates, gates, voice | exact integer functions, in 1/10000 credits |
| `Engine` | cards of the caption engine | live and settled cards; no `Next` of its own |
| `Captions` | what the engine makes of the words | stable prefixes over an adaptive window, line breaking, what is merged and read aloud; on top of the cards of `Engine` |
| `CaptionStore` | the page's reducer | cards, and the events that change them |
| `Projector` | wire, attach, page | `Emits` = an engine event with all its frames; `Attach` = snapshot or backfill; `Deliver` = the page's reducer; `LoseLink`, `Reconnect`, `Reload` |
| `Screen` | what a viewer sees | `Speaking`, `Settling`, `Pausing` = engine events with their frames; `Paint` = a render of React; `Swapped` = the end of the crossfade; `Resync` = a snapshot |
| `Layout` | what is put where | functions: `cardBlocks`, `toLines`, the lines shown, query parameters |
| `Translations` | the translate queue | `Hears`, `Settles`, `GoesQuiet` = engine events that enqueue; `Answers`, `Fails` by slot; `Drain`, `EndSession` |
| `SttClient` | the transcription upstream | `CannotConnect`, `Breaks`, `Opens` = socket events; `TimerFires`, `Refused`, `SessionEnds` |
| `Voice` | the voice, from sentence to loudspeaker | `Speak`, `Opens`, `Errors`, `Closes`, `TimerFires`, `SessionEnds` = the client; `Receives` = an audio message and its frame; `RunsTask` = one link of the page's promise chain |
| `Relay` | sessions from the start route to their end, and the drain | a session's phase; `Start`...`Settled`; `SlotsExpire`; `StartDrain`...`Exit` = `shutdown` and `closeAll` |
| `Access` | who gets at a session | `Start`, `Rotate` = the two routes; `Hello`, `Claims`, `Selects`, `Creates`, `Inserts`, `Capped` = the handshake up to the actor; `Dials`, `Attach`, `Reads`, `Found` = `handleProjector`; `Closes` = the end of a session; `TimePasses` for two clocks |
| `Login` | the web sessions of one account | `Ask`, `Slide`, then the statements of each handler: `Verify`, `Update`, `Revoke`, `Destroy`, `Mint`, `Work`, `Insert`, `Erase`; `Answer` sets the cookies, `Fail` throws; `Forgot`, `Reset` |
| `Studio` | the studio page and both ends of its socket | `Start`, `NotStarted`, `Connect`, `MicOpens`, `MicFails` = `start()` between its awaits; `Stop`, `Leave`; `MicCloses` = what follows the await of `teardown()`, of which `Teardown` is the part before; `SocketOpens`, `SocketCloses`, `Deliver`; `Handshake`, `ActorEnds`, `RelaySeesClose` = the relay's end |
| `StudioForm` | the settings form | functions: what is restored, what each control does, what the server refuses |
| `Frames` | the microphone's resampler and the binary frames | functions: `Process` = one call of the worklet |
| `Limits` | what is bounded | functions: handshake and rate limits, back-off, warnings, context, cache, reading speed, length of answers, glossary terms |

How they compose. `Projector`, `Translations` and `Captions` extend `Engine` and react
to the operations its actions return; `Screen` extends `Captions` and `CaptionStore`, so
that what is spoken is followed to what is painted. `Meter` and `Account` look at the
same calls from their two ends: `Meter` lets the gateway answer anything an account can
answer (any free balance, any covered part of an entry, a failure before or after the
commit), and `Account` reduces a session to what it reserved, spent and has not flushed.
`Account` and `Billing` extend `SpendPlan` and share the buckets: `Account` splits a
flush into its round trips; `Billing` keeps the read and the transaction of it, next to
the statements of the webhooks.
`Relay`, `Access` and `Studio` look at one handshake: `Relay` counts sessions and drains,
`Access` follows the token and the link, `Studio` the socket. `Relay` reduces
everything inside a running session to "draining until settled", which `Meter`'s
`ClosingSettles` backs. `StudioForm` extends `Tariff` and `Layout`. `Meter` is shown to
implement `BillOnce`.

Modules whose proofs stand together give their specifications names of their own:
`SttSpec`, `RelaySpec`, `LoginSpec`, `TranslateSpec`, `ScreenSpec`, `BillingSpec`;
the others are `Spec`.

| Proofs | Of |
|---|---|
| `RelayProofs` | `Meter`, `SttClient`, `Relay` |
| `LedgerProofs` | `Tariff`, `SpendPlan`, `Account`, `Billing` |
| `EngineProofs` | `Engine`, `CaptionStore`: the lemmas of the next two |
| `SessionProofs` | `Translations`, `Projector` |
| `ScreenProofs` | `Captions`, `Screen` |
| `VoiceProofs` | `Voice` |
| `AccessProofs` | `Access` |
| `WebProofs` | `Studio`, `Frames`, `Login` |

A definition commented "Faulty variant" is a plausible bug in the definition that
follows it. It belongs to no specification; it is there to show that a property fails
when the code is wrong in that way.

## 3. The runs

| Run | Properties | What it shows |
|---|---|---|
| `meter` (MCMeter) | `EveryCreditOnce HoldCoversSession CrashLossBounded`; `ClosingSettles BillsOnce` | a slow or failing gateway loses, duplicates or over-promises no credit of the session, and every close ends |
| `account` (MCAccount) | `BooksBalance HoldCovers HoldSettles` | two sessions, all interleavings of their reads and writes: balance and ledger agree, and the hold covers what is promised until it expires |
| `billing` (MCBilling) | `RowIsLedger GrantedOnce DebtHasCause`; `PurchaseArrives` | what is granted when Paddle delivers again, that what was bought arrives, why a balance row may differ from the ledger, and how far a bucket may be in debt |
| `projector` (MCProjector) | `NeverAGap ScreenAgrees`; `EveryFrameArrives` | reattaching by backfill or snapshot loses and repeats nothing |
| `screen` (MCScreen) | `NewestOnAir GhostIsRevision EverySentenceSpoken`; `SolidGivesWay` | from the words to the painted page: the newest sentence is on the air, what fades out is a revision of it, no sentence is lost or read twice, solid text is taken back only for a reason |
| `translations` (MCTranslations) | `CommitsAreTranslated`; `QueueDrains` | speculative requests never stand in for final ones, no slot is lost |
| `stt` (SttClient) | `OverIsOver HeardOrOver` | overlapping drops and timers neither outlive the session nor leave it deaf |
| `voice` (Voice) | `OneConnection LabelledRight LossIsLocal`; `SpokenIsSent` | one connection however sentences and timers overlap; audio bears its own card until a connection has been lost; a decode that fails costs its own sentence |
| `relay` (MCRelay) | `LimitHeld DrainSettles`; `DrainEnds` | how far the plan limit can be exceeded, and what an exit leaves behind |
| `access` (MCAccess) | `OpensOnce NobodyWatchesInVain`; `OldLinkAttachesNobody` | replayed tokens and replaced links |
| `login` (MCLogin) | `OldSessionsDie`; `DeadStaysDead ClosedAccountRests` | which sessions outlive the password they were opened with, and what a closed account may gain |
| `studio` (MCStudio) | `HeardUnbroken ScreenIsTrue`; `GoneIsClosed` | what the actor hears, what the page says, what is left open |

Properties after a semicolon are temporal. Several of them hold under a condition that
names how the code departs from the plain promise: `CrashLossBounded` excepts ticks cut
short, `HoldCovers` ends with the TTL, `LimitHeld` counts what overlaps, `LabelledRight`
ends with a lost connection, `RowIsLedger` and `DebtHasCause` name the causes seen,
`OldSessionsDie` two kinds of session, `ScreenIsTrue` five ways in which the page is wrong,
`HeardUnbroken` the limit of a second, `NewestOnAir` the cards that have ended. Section 6
says what happens beyond the condition.

### Functions checked as assumptions

Modules without state are checked by named `ASSUME`s, which TLC evaluates over bounded
inputs at the start of the run whose module holds them.

| Module of the run | Assumption, and what it says |
|---|---|
| `MCAccount` (`Tariff`) | `EstimatesHold` seconds promised can be paid; `SalesPageIsClose` how far the sales page is off; `CeilingCoversPrices` the key's ceiling covers the session; `GatesHold` the route refuses what the plan does not have; `VoicePaidIsHeard` when a paid voice is silent; `AdviceIsCheapest` the plan advised |
| `MCAccount` (`StudioForm`) | `FormMirrorsGates` the controls offer only what the server accepts; `StaleSettingsLockOut` restored settings may not be; `LastChangeMends` when the controls get out of it; `PreviewIsLatest` the preview's text |
| `MCTranslations` (`Limits`) | `NoBurst`, `RetryIsHonest`, `FramesUpToTwice` the limiters; `WarningsAreSpaced`, `RetriesBackOff`; `ContextIsLatest`, `CacheKeepsRecent`, `PercentileDivides`; `CardsAreReadable` display time; `AnswersAreWhole` the token cap; `GlossaryArrives` the terms passed on |
| `MCStudio` (`Frames`) | `SeamsAreSilent` blocks join without a lost sample; `FastDevicesRunAhead` beyond twice the wire rate they do not; `FramesAreRead` a frame is read as it was made |
| `MCScreen` (`Captions`, `Layout`) | `NothingIsCut`, `LinesAreReadable` line breaking; `LinesAreTheText`, `NewestLineShows`, `LanguageIsKept`, `AddressWins` the page |

### Bounds

- **Meter**: the constants keep the order of the real ones: a third of the window
  outlasts the flush interval, and every timer is a few ticks. `MaxClock` 5 lets two
  flushes, a full grace period and a close overlap. The account is dry or grants a full
  window, as it is when a reservation fails after it took the hold.
- **Account**: two sessions (a race needs two; four callers, since tick and close of a
  session overlap), a window of one credit, one credit in each of two buckets, at most
  `MaxReserved` 4 reserved together, twice the balance. Sessions are symmetric; the
  run has no liveness property.
- **Billing**: two handlers are enough for one to overtake the other, two links for the
  trial to be granted side by side, two flushes for one to commit between the other's read
  and its transaction, which puts a bucket in debt. A purchase with a plan, a pack, an
  add-on that names no plan and an item the catalogue does not list; two periods, of which
  the first ends the plan's credits and the second the pack's; one failure or repetition. A
  second event multiplies the states by fifty: cancellations, changes of a subscription and
  failed payments are in the module and in its theorems, and in no run; they grant nothing,
  and no property is about the plan.
- **Projector**: the page's room is backlog + 2, as in the code (8 = 6 + 2).
  `HistoryLimit` 2 is below `MaxSeq` 5, so both ways of reattaching occur.
- **Screen**: four cards on a page with room for two, so that each is cut off once;
  three texts, of which one extends another and one differs. The window of the rewrites
  runs full, and with it the length of the stable prefix changes within a card.
- **Translations**: three cards, two languages, two requests in flight, one
  speculative request per card: more jobs than slots, and overtaking. One text is
  enough, because a card is committed once.
- **SttClient**: the real budget of 3; connections may open six times, which lets the
  budget be reset and exhausted with old timers pending.
- **Voice**: three sentences, two connections that open, two retry delays, up to two
  chunks of audio each: a sentence is lost between two others, and a timer fires into
  each state of the socket. The page holds two chunks back, so that a flush may find those
  of two sentences. What drops a sentence for its length alone needs four chunks of it;
  that case is the theorem's (section 4). It was also run once with two sentences of three
  chunks and a limit of one, where it occurs.
- **Relay**: a plan of two and four sessions: the limit can be exceeded by one, and
  without the gate by two.
- **Access**: a token lives one unit and clocks differ by up to one; three units let it
  be presented after its marker has gone. Two sessions and two tabs: a handshake is
  overtaken by another of the same token, and by one of the user's other session.
- **Login**: a tab in each of two browsers. A lifetime of two slides is the shortest in
  which a session can be due to slide and still live. Three sessions, two passwords, one
  fault.
- **Studio**: two attempts, so that callbacks of the first, and the end of its microphone, act
  on the second. A buffer of one of four frames overflows, and two frames to a second let
  a row be heard, cut off and heard again.

`CHECK_DEADLOCK FALSE` is set in every cfg: sessions close, processes exit, users leave,
and bounded runs end with their last frame.

### Fairness

- The event loop runs a started handler to its end, and calls of the gateway come back
  (`Meter`, `Relay`): Postgres and Redis clients answer or raise.
- Requests to the translator come back (`Translations`). The code sets no deadline of
  its own (`index.ts:171`), so `QueueDrains` rests on the HTTP client's.
- The page always reconnects and a live link delivers (`Projector`): the socket hook has
  no retry limit and a watchdog. Links and reloads stop disturbing at some point.
- Connection attempts end and timers fire (`SttClient`, `Voice`); a broken socket reports
  its close. The voice provider need not answer.
- Handshakes time out, and shutdown runs to its end (`Relay`).
- Paddle delivers an event until it is answered, and a handler that has started goes on
  or fails (`FairBilling` of `Billing`). Faults are bounded: they do not go on for ever.
- What is in flight on a studio socket arrives while it lasts, and the relay learns of
  its end (`Studio`).
- Nothing makes audio arrive, a studio hang up, a session close, a user press anything or
  time pass. `Account`, `Screen`, `Login` and `Access` state no fairness.

### Assumptions about what is outside `src/`

`ws` reports a connection that could not be made by `error` and then `close`. A close of
the studio socket by the relay takes effect at once in `Relay` and `Access`; `Studio` lets
it travel. The TTL of the slots is longer than a start and the life of its token.
Projector sockets only delay an exit. A WebSocket keeps order and loses what is in flight
when it breaks; a browser delivers nothing after its own `close()`. Round trips to Redis
and single statements of Postgres are atomic, transactions all-or-nothing. Next.js drops
the cookies of a handler that throws. The voice provider answers the sentences of a
connection in order. Signatures cannot be forged, hashes do not collide.

## 4. The proofs

Every safety invariant of the runs is a theorem, and so are their step properties
`BillsOnce`, `OverIsOver`, `OldLinkAttachesNobody`, `DeadStaysDead`, `ClosedAccountRests` and
`SolidGivesWay`. They hold for every value of the constants that the modules' named `ASSUME`s allow: naturals,
positive where the code divides or counts by them, finite sets of sessions and
connections, any texts and words. Few assumptions relate constants to each other or say
more than a type, and all are the code's:

- `Access`: no session bears one of the names that stand for "none" (`SessionNames`).
- `Billing`: what the catalogue sells has credits (`loadCatalog` skips the rest,
  `lib/server/paddle.ts:34-35`), an event's id names one event, and `Never`, which stands
  for no expiry at all, lies beyond every time a run reaches
  (`MaxNow + TopUpValidity < Never`).
- `CaptionStore`: the page has room for the live card and one more than the engine keeps
  settled, `MaxCards >= Backlog + 2` (`caption-store.ts:31-32`).
- `Captions`: no text is empty and no word has no width; the history holds two
  hypotheses more than the window asks for.
- `Translations`: no language is asked for twice.

- **Billing clock** (`RelayProofs`). `EveryCreditOnce` alone is not inductive: the two
  writers, tick and close, must hold an entry only while they write it (`WritersInv`),
  and the hold has to be tied to the ledger (`HoldInv`). `CreditInv` = `TypeOK`,
  `ClockInv`, `WritersInv`, `EveryCreditOnce`, `HoldInv` is preserved by each action
  (`CreditStep`) and gives `MeterTypes`, `MeterEveryCreditOnce` and
  `MeterHoldCoversSession`. `TimeInv` adds `FlushInv` (what is pending is no older than
  the last flush), `GraceInv` (grace is entered only when the reservation is short) and
  `SilenceInv` (what was charged and what is still to be charged is at most what was
  heard or stalled), for `MeterCrashLossBounded`, `MeterGraceIsShort` and
  `MeterSilenceIsFree`. `MeterBillsOnce` proves the refinement of `BillOnce`: every step
  consumes, settles or stutters.
- **Money between sessions** (`LedgerProofs`), for any number of sessions. The module
  reaches four, of which `Billing` is renamed where it shares a name with `Account`.
  - The arithmetic, for every balance, rate and number of languages:
    `EstimateNeverOverPromises`, `SecondsComeBack`, `MinuteIsClose`. `PlanSpendIsHonest`: for
    all balances, negative ones included, and all amounts, a plan takes no more than a
    bucket has, covers what can be covered and empties what expires first.
  - *Sums.* The books are sums over sessions and over the ledger, defined by a fold. The
    library's induction takes an operator as a parameter, so the facts about sums are
    proved by smallest counterexample instead: were there a finite set without a sum,
    there would be a smallest by inclusion (`Smallest`). `SumWithout`, `SumChanges` and
    `SumAlike` are what the steps use.
  - `Account`: `LedgerInv` holds the types, what each call in flight may amount to, and
    the books. The hold cannot be compared with what is promised, since a flush that has
    committed is billed and on hold until `Unholds`: the invariant compares it with what is
    due, such calls included. From it `AccountTypes`, `AccountBooksBalance`,
    `AccountHoldCovers` and `AccountHoldSettles`.
  - `Billing`: `BillingInv` has one part per promise. `Forms` says what each entry of the
    ledger is and that a key is taken once. `PurchaseInv` says that a handler past its
    transaction, and an answer given, mean that the event is applied; `TrialInv` the same of
    the trial; together they give `BillingGrantedOnce`. `BalanceInv` compares the row with
    the ledger, in two halves: `Fits`, that they agree unless something moved the ledger
    since the sums that the row was written from, which makes `BillingRowIsLedger`; and
    `Debts`, for `BillingDebtHasCause`: of a bucket without an expired grant neither the row
    nor the sums a refresh has read promise more than the ledger has, unless they miss a
    flush, a plan that is not stale takes no more than the ledger still has, and so only the
    stale ones, which `overdrawn` adds up, take a bucket below zero.
- **Studio** (`WebProofs`). `SoundInv` follows what is on the way of each socket: hello
  comes first, the frames in the page's buffer and in the socket are one unbroken row, and
  what the actor has heard is one but where its limit has cut it: as many of the last
  frames heard as the second has let pass are unbroken (`Heeded`), and the last one read
  was heard unless the second is full (`Follows`). From it `StudioHeardUnbroken`.
  `MicsInv` says that a microphone whose end is awaited is off and its attempt over,
  `CalmInv` which attempts, clients and ends of microphones may be unfinished while the
  page shows each of its four states (`StudioScreenIsTrue`).
  `PlaceIsKept` is of `Frames`: for devices up to twice the wire's rate the next sample
  lies within what the worklet keeps, whatever the sizes of its blocks.
- **Voice** (`VoiceProofs`), for any number of sentences, chunks and connections.
  `VoiceOneConnection` needs the client's flags to follow the connection (`ConnInv`): a
  client that is neither closed nor given up, and has no socket, has no connection left.
  Timers need no counting, as a timer asks for that too. `VoiceLabelledRight` needs the
  client's queue to be what the provider has, followed by what is still to be written
  (`LabelInv`). `VoiceLossIsLocal` follows what the page holds back and has still to
  decode as one sequence (`StreamInv`): between two flushes the chunks of a sentence
  follow one another, a sentence followed by another was cut off, a flush follows a
  whole chunk, and what is held back of one sentence alone is all torn. `QueueInv` and
  `EndInv` say which sentence may come next. The attempt to prove it found that a
  sentence torn for longer than the limit is lost in part, which the bounds of `voice`
  do not reach: the property names that sentence now (`Oversized`).
- **Speech-to-text client** (`RelayProofs`). `GivesUpLate` needs the number of drops
  bounded by the number of failed connections: `BudgetInv` says at most two drops per
  failure, and that a connection that opens resets both. `SttOverIsOver` is proved of
  each step from the types.
- **Relay and drain** (`RelayProofs`). `LimitHeld` needs to count sessions that have not
  reached the gate: those on their way are at most the slots taken (`CountInv`), which
  with the gate keeps `Active` below twice the limit, and at or below it until the slots
  have expired. `DrainInv` says what each stage of the drain leaves in the registry, for
  `RelayDrainSettles`.
- **Tokens and links** (`AccessProofs`). `OpensOnce` is about the past, so `TokenInv`
  ties it to what is still there: a token that was claimed has a marker or has expired
  for the relay's clock (`MarkerInv`, which needs the bound of `ExpiryInv` on when
  tokens end), each handshake past the claim has claimed (`ClaimInv`), and no two carry
  the same token (`SingleInv`). `NobodyWatchesInVain` needs what a page asks for and
  what it was attached to to belong to the same session (`AskInv`, `LinkInv`).
  `AccessOldLinkAttachesNobody` is proved of each step.
- **Web sessions** (`WebProofs`). `OldSessionsDie` is inductive with the types
  (`LoginTypes`). `LoginClosedAccountRests` and `LoginDeadStaysDead` are proved of each step:
  of a closed account, that nobody is let in, and that a request which adds a glossary stops
  being one that may.

- **Engine** (`EngineProofs`). The cards' ids only grow, no two cards have the same, and the
  live one has the last (`EngineInv`). `WithCard`, the page's reducer, is given card by
  card. Folds and other recursive definitions are functions given by `CHOOSE`; that there
  is one to be chosen is shown, as for the sums of `LedgerProofs`, by the least
  counterexample (`LeastIn`, `FoldExists`).
- **Translate queue** (`SessionProofs`). `CommitsAreTranslated` says nothing of what an
  answer will say, so `TrInv` adds it: every job, waiting or at the translator, is about a
  card that was opened, a final one carries the text its card was committed with, and two
  jobs in the queue are never for the same card and language (`JobsInv`, `QueueTypes`).
  `PutKeeps` is the heart of it: only a final job takes a final job's place. The fold
  of a commit over the languages asks for each (`RequestQueued`), and filling the free
  slots moves the oldest jobs and drops none (`EveryPlace`, `PumpKeeps`).
- **Wire and page** (`SessionProofs`). `WireInv` is `NeverAGap` with what it needs: the wire
  numbers its frames without a gap, and a snapshot's number is one of them. Its lemmas say
  what a page has not seen of two lists one after the other (`UnseenConcat`), after
  its first message (`UnseenFirst`), and beyond what a bounded history still has
  (`TailConcat`, `BackfillIs`).
  `ScreenAgrees` is about a page that has caught up, and a page that is behind says nothing
  about itself. `PageInv` therefore follows the page it would be if it had read the rest of
  the wire (`Ends`, `Fits`). That page agrees with the engine as it is now, has no card
  twice, and still has the live card with none after it but settled ones that the engine
  has too (`Good`). The last part is what makes it inductive. A frame about a card that was
  cut off puts it back at the end and cuts off the oldest, and if that were the live card,
  its translations would be lost to a page that is told only of new ones. The page's
  extra room prevents it (`OnAirSurvives`).
- **Viewer** (`ScreenProofs`). `ScreenEverySentenceSpoken` needs only that a joined list
  grows at its end (`FlattenAppend`). `ScreenNewestOnAir` needs the page to hold the newest
  cards by id without a gap, of which only the last may be live, as long as every card was
  committed (`OnPage`, `NewestInv`); the frames of each engine event and a snapshot both
  give it that. `ScreenSolidGivesWay` is about a search for the longest prefix on which the
  last few hypotheses agree, over a window that changes its size (`StablePrefixIs`). What
  is solid was agreed on within the hypothesis it came from and left its tail free
  (`SolidInv`), and where each hypothesis begins with the one before, those words are
  agreed on again, however the window grew or the history was cut (`NothingDoubted`).
  `ScreenGhostIsRevision` is inductive as it stands.

Model-checked only: the liveness properties, which rest on fairness and `ENABLED`
(`ClosingSettles`, `EveryFrameArrives`, `QueueDrains`, `HeardOrOver`, `DrainEnds`,
`SpokenIsSent`, `PurchaseArrives`, `GoneIsClosed`), and the functions of section 3, apart
from those of `Tariff`, `SpendPlan` and `Frames` that this section names: what a recursive
one computes for every input is an induction over data. The `TypeOK` of `Meter`, `SttClient`,
`Relay`, `Account`, `Voice` and `Translations` are proved, and the other proofs have types of
their own, as weak as they need.

## 5. An empty band

The page prefers a stale caption to an empty one (`caption-store.ts:13-15`,
`use-projector-socket.ts:18-20`). `NewestOnAir` is what it keeps of that, and holds only
while every card that was opened is committed or still spoken (`AllCommitted`). Beyond it
the band can become empty, or show an older sentence:

- The end of a card that the page has already cut off its list adds the card back, blank,
  as the newest (`caption-store.ts:89`). The page keeps exactly as many cards as it needs
  (`:31-32`), so one card given up in a silence is enough.
- A translation of such a card adds it back as the newest too, and cuts off another
  (`:95-111`). `ScreenAgrees` holds as it compares the cards the page has.
- A pop-on page whose last committed card has ended shows the card that is being spoken,
  before it is committed (`:118`).
- A snapshot starts the revisions again, which fades the same text into itself.
- With `showSource` off the band is empty from the first word of a card until its
  translation arrives.

## 6. Where the code and its documents differ

Met while modelling; the models do what the code does.

**Money.** A `reserve` that rejects ends the tick before its flush (`metering.ts:201`), so
while it keeps failing more than one interval is at risk (against `:87-88`). The start
route prices the opening window from the balance and puts nothing on hold
(`start/route.ts:122`), so two sessions can be promised the same credits (against
`metering.ts:317-318`); so can two reservations that read the
hold before either takes it (`:328-333`). A flush plans from buckets it reads before its
transaction (`:341-344`), so that two of them, or one and a refresh, take a bucket below zero. The trial grant never refreshes `credit_balances`, the row the
relay reads. What was spent from a grant that has expired counts against the next one. A
refresh that was overtaken writes older sums over newer ones (`paddle.ts:160`). An
event that has been answered is applied again when it is delivered again, and sets the plan
anew: a purchase after the cancellation makes plan and subscription active (`:115`,
against `docs/BILLING.md:122`). A cancellation takes the plan at once and
not at the end of the period (`packages/billing/src/paddle.ts:94`, against
`docs/BILLING.md:118`). A failed payment for a top-up
sets the plan to the trial and adds a subscription row (`packages/billing/src/paddle.ts:106`).
A refund takes nothing back (`webhooks/paddle/route.ts:66`). A grant for a customer without
an account is acknowledged and lost. A handler that fails after the address is verified
loses the trial. The sales page promises up to two seconds in a thousand more than is
billed (`format.ts:40-41`). A voice can be paid for and silent (`index.ts:207-208, 226`). The
refund after an outage (`docs/PRODUCT.md:123`) is not implemented.

**Captions, translations and voice.** A partial that takes back a word painted solid takes it
off the screen, with no commit and no retract (`engine.ts:105-112`,
against `docs/CAPTION-ENGINE.md:51-54`); `SolidGivesWay` is what the code keeps of the
promise. Voice follows the order in which translations are
answered (`engine.ts:250`), not that of a FIFO queue (`docs/CAPTION-ENGINE.md:125`). A
speculative translation answered after its card has settled travels in a frame the page
takes for final (`session-actor.ts:378`). The translation of a commit that fails is not
asked for again (`:421`). Sentences beyond 1024 characters may be translated in part, and
an empty answer counts as a translation. Lines the engine breaks never reach the wire, and
overflow is ignored (`engine.ts:113, 168`). The engine itself asks for speech only in a
session without translation, which the relay never gives a voice: `EverySentenceSpoken` is
the engine's own contract. Nothing takes from its speech queue. Sentences lost with a
voice connection stay pending, so that later audio bears their labels
(`elevenlabs-tts.ts:90-92` against `162-177`). A connection that cannot be made ends the
voice at the first error, so the retries with back-off never happen; one that opens and
closes again resets the attempts, and is tried for ever. `displayMs`, `TranslationCache`
and the version of a glossary are computed and read by nobody.

**Session control.** Two failed connections can exhaust three tries, as `error` and
`close` each count (`elevenlabs-stt.ts:182`; `elevenlabs-stt.test.ts:87`,
`docs/PRODUCT.md:123`). A slot is given back only when the start route fails
(`start/route.ts:172`; `docs/ARCHITECTURE.md:133`): after a session it stays until its TTL. A
studio socket that closes during `createSession` leaves an actor that only a drain, a lost
upstream or the end of its credits closes. Sessions registered after the drain's last
look are not awaited. The start burns the token when the assembly fails, and a runtime
key whose insert fails stays upstream. `caption_sessions.ended_at` and the revocation of a
token that `auth.ts` looks up are written nowhere. Replacing a link disconnects nobody; a
page with an old link retries for ever. A lookup that never answers leaves a page
attached to nothing. The handshake limiter forgets no address, and the audio limit counts
fixed seconds: a burst after a stall of the network loses frames in the middle of what is
heard (`session-actor.ts:455-464`), though the microphone made no more than the limit.

**Browser.** The page slides the row of a session before the cookie is looked at, so that
the cookie is not issued anew (`session.ts:115-116`, `docs/SECURITY.md:41`). A login under way
survives a change of password, and so do all sessions when the call that drops them
fails. A reset link opened in the wrong browser is used up. The data of a deleted account
do not all go at once: a glossary that a request let in before adds after
`account/delete/route.ts:53` stays for good (against `:23`).
`ClosedAccountRests` is what is kept: such requests are only those that were under way. A
session that ends while the microphone is awaited turns live; a connection lost while live
leaves the microphone on; the late `onclose` of one attempt ends the next
(`studio-client.tsx:199-216`). During every STOP the page shows live without a client, until
the microphone is closed (`:230-231`). If START is pressed after the end of a session and
before that, what awaited the microphone ends the new attempt on the screen, or clears
`micRef` of the new microphone, which then nothing stops (`:146-147`); and if the new one is
refused by then, the second `stop()` of the old one rejects (`mic.ts:88`), the catch does
not go on, and the page shows starting for good. Leaving the
page during a start opens socket and microphone afterwards. Reconnection of the studio
(`docs/PRODUCT.md:119`) is not implemented. Settings restored from the browser may be
refused by the server with no control to mend them (`studio-client.tsx:98-101`). Changes and
`bye` that arrive before the actor exists are dropped. Beyond twice the wire's rate the
microphone's samples run ahead (`worklet.ts:59-61`).

## 7. Not modelled, and why

- **Checkout route, account export, middleware, guard scripts**: one request, one answer,
  no state that later steps read.
- **Passwords' hashing, signatures, `crypto.ts`, TOTP, Google sign-in**: external, or a
  refusal in one step. The session that a verification link opens is like a login's.
- **Editing a glossary**: replaces one row; nothing reads its version.
- **Prompts and averages of metrics**: text and numbers that no decision depends on.
- **Sound scheduling and ducking, fonts, colours, animation curves**: what the browser's
  engine does with what the models end at.
- **Schema validation** beyond the fields the models have.
- **Site, legal pages, panel, infrastructure**: no state of their own.

## 8. Plan

Done: money (`Meter`, `Account`, `Billing`, `Tariff`), what the audience sees (`Engine`,
`Captions`, `Projector`, `Screen`, `Layout`, `Translations`, `Voice`), upstreams and control
(`SttClient`, `Relay`, `Access`), browser (`Login`, `Studio`, `StudioForm`, `Frames`), limits
(`Limits`), with proofs of every safety invariant and step property of the runs.

Left, in this order:

1. The session a verification link opens, as one more operation of `Login`.
2. One specification of `Meter` and `Account` together, so that the gateway's answers are
   the account's and not any answer at all.
