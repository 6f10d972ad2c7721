------------------------------- MODULE Tariff -------------------------------
(***************************************************************************)
(* What things cost, and which configuration of a session a plan allows    *)
(* (packages/billing/src/plans.ts and pricing.ts; the gates of             *)
(* apps/web/app/api/session/start/route.ts; the ceiling and the voice of   *)
(* apps/relay/src/index.ts; the pricing page's airtime).                   *)
(*                                                                         *)
(* There is no state here.  Credits are whole numbers of 1/10000, which is *)
(* what round4 rounds to; prices are net, in cents; rounding half up and   *)
(* rounding down are those of Math.round and Math.floor.  Arithmetic is    *)
(* exact, where the code's is binary floating point.                       *)
(***************************************************************************)
EXTENDS Integers, FiniteSetsExt, Sequences

Credit == 10000
Second == 60    \* seconds of a minute

RateCaptions == Credit           \* RATE_CAPTIONS_PER_MIN
RateTranslation == Credit \div 2    \* RATE_TRANSLATION_PER_LANG_PER_MIN
RateVoice == 3 * Credit       \* RATE_VOICE_PER_MIN

Offer(credits, eur, sessions, langs, extras) ==
  [credits |-> credits * Credit, eur |-> eur, maxConcurrentSessions |-> sessions,
   maxTargetLanguages |-> langs, voiceEnabled |-> extras, glossaryEnabled |-> extras]

\* PLANS, by month; a year costs ten months.
Plans ==
  [trial   |-> Offer(10, 0, 1, 1, FALSE),
   starter |-> Offer(300, 900, 1, 1, FALSE),
   creator |-> Offer(1000, 2300, 2, 3, TRUE),
   pro     |-> Offer(3000, 5900, 4, 5, TRUE)]

\* TOPUP_PACKS
Packs ==
  {[credits |-> 250 * Credit, eur |-> 900], [credits |-> 1000 * Credit, eur |-> 2900],
   [credits |-> 4000 * Credit, eur |-> 10500]}

\* planOf(): a code that is not known is the trial.
PlanOf(code) == IF code \in DOMAIN Plans THEN Plans[code] ELSE Plans.trial

-----------------------------------------------------------------------------
(* Rates: a BurnConfig is [targetLanguages, voiceEnabled]                  *)

BurnConfigs(languages) == [targetLanguages : languages, voiceEnabled : BOOLEAN]

\* burnRatePerMinute()
BurnRatePerMinute(burn) ==
  RateCaptions + burn.targetLanguages * RateTranslation
    + (IF burn.voiceEnabled THEN RateVoice ELSE 0)

\* burnRatePerSecond(): rounded half up to 1/10000, and what the relay bills by.
BurnRatePerSecond(burn) == (BurnRatePerMinute(burn) + Second \div 2) \div Second

\* estimateSeconds()
EstimateSeconds(credits, burn) == credits \div BurnRatePerSecond(burn)

\* creditsForSeconds()
CreditsForSeconds(seconds, burn) == seconds * BurnRatePerSecond(burn)

\* airtimeSeconds(), of the pages that sell credits.
AirtimeSeconds(credits, burn) == (credits * Second) \div BurnRatePerMinute(burn)

\* smallestPlanCovering(): "none" is the advice to buy credits on top.
SmallestPlanCovering(credits) ==
  CASE Plans.starter.credits >= credits -> "starter"
    [] Plans.creator.credits >= credits -> "creator"
    [] Plans.pro.credits >= credits     -> "pro"
    [] OTHER                            -> "none"

\* providerKeyCeilingUsd(), in whole dollars, of whole credits: the dearest pack's price of
\* a credit, of which the code takes a euro for a dollar.
ProviderKeyCeilingUsd(whole) ==
  LET cents(p) == 100 * (p.credits \div Credit)
      atPrice(p) == (whole * p.eur + cents(p) - 1) \div cents(p)
  IN  Max({1} \cup {atPrice(p) : p \in Packs})

-----------------------------------------------------------------------------
(* Starting a session: a SessionConfig is [dstLangs, voice, lang, voiceId, *)
(* glossary], where lang is the voice's or NoLang, voiceId says whether    *)
(* one was chosen, and glossary is one of Glossaries                       *)

NoLang == "none"
Glossaries == {"none", "own", "unknown"}

InUse(langs) == {langs[i] : i \in 1..Len(langs)}

BurnOf(cfg) == [targetLanguages |-> Len(cfg.dstLangs), voiceEnabled |-> cfg.voice]

\* checkConfigAgainstPlan()
FitsPlan(plan, burn) ==
  /\ burn.voiceEnabled => plan.voiceEnabled
  /\ burn.targetLanguages <= plan.maxTargetLanguages

\* The gates of POST, in their order, for a user who is signed in and verified.
Verdict(plan, cfg, available) ==
  CASE ~FitsPlan(plan, BurnOf(cfg))                        -> "PLAN_FEATURE_LOCKED"
    [] cfg.glossary # "none" /\ ~plan.glossaryEnabled      -> "PLAN_FEATURE_LOCKED"
    [] cfg.glossary = "unknown"                            -> "INVALID_CONFIG"
    [] cfg.voice /\ cfg.lang \notin InUse(cfg.dstLangs) \cup {NoLang} -> "INVALID_CONFIG"
    [] available <= 0                                      -> "INSUFFICIENT_CREDITS"
    [] OTHER                                               -> "ok"

\* What the session opens with: at most one window.
OpeningReserve(available, burn) == Min({available, CreditsForSeconds(60, burn)})

\* resolveVoiceLang()
ResolveVoiceLang(cfg) ==
  IF ~cfg.voice THEN NoLang
  ELSE IF cfg.lang # NoLang THEN cfg.lang
  ELSE IF cfg.dstLangs # <<>> THEN cfg.dstLangs[1] ELSE NoLang

\* createTts(): whether the session has a voice at all.
HasVoice(cfg) == cfg.voice /\ cfg.voiceId /\ ResolveVoiceLang(cfg) # NoLang
=============================================================================
