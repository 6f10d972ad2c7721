----------------------------- MODULE MCAccount -----------------------------
(***************************************************************************)
(* Two sessions of one user, whose trial and top-up credits are worth a    *)
(* window each; what the tariff promises, over every configuration of up   *)
(* to five languages and a range of balances; and what the form of the     *)
(* studio can be brought to.                                               *)
(***************************************************************************)
EXTENDS Account, StudioForm, TLC

CONSTANTS s1, s2

MCSessions == {s1, s2}
MCGranted == [b \in Buckets |-> CASE b = "trial" -> 1 [] b = "subscription" -> 0 [] b = "topup" -> 1]
MCSymmetry == Permutations(MCSessions)

-----------------------------------------------------------------------------
Burns == BurnConfigs(0..5)

\* Balances around the credits of the trial, whole and broken.
Balances == {0, 1, 166, 167, 9999, 99999, 100000, 100001, 3000000}

Configs ==
  [dstLangs : {<<>>, <<"en">>, <<"en", "de">>, <<"en", "en">>, <<"en", "de", "fr", "es">>},
   voice : BOOLEAN, lang : {NoLang, "en", "de"}, voiceId : BOOLEAN, glossary : Glossaries]

\* The airtime a session is told it has, is never more than the relay bills its credits
\* for, and does not change when it is bought back (pricing.ts:27-36, pricing.test.ts:47-51).
ASSUME EstimatesHold ==
  \A credits \in Balances, burn \in Burns :
    LET seconds == EstimateSeconds(credits, burn)
    IN  /\ CreditsForSeconds(seconds, burn) <= credits
        /\ CreditsForSeconds(seconds + 1, burn) > credits
        /\ EstimateSeconds(CreditsForSeconds(seconds, burn), burn) = seconds

\* The pages that sell credits divide by the rate of a minute, and promise up to two
\* seconds in a thousand more than the relay gives (format.ts:32-45).
ASSUME SalesPageIsClose ==
  \A credits \in Balances, burn \in Burns :
    LET drift == AirtimeSeconds(credits, burn) - EstimateSeconds(credits, burn)
    IN  1000 * drift <= 2 * AirtimeSeconds(credits, burn) + 1000
        /\ -1000 * drift <= 2 * AirtimeSeconds(credits, burn) + 1000

\* A month of a plan and a pack cost no more than the ceiling of the key their credits
\* pay for, a euro being a dollar (index.ts:279-284).
ASSUME CeilingCoversPrices ==
  \A sold \in Packs \cup {Plans[code] : code \in DOMAIN Plans} :
    100 * ProviderKeyCeilingUsd(sold.credits \div Credit) >= sold.eur

\* Whoever is let in has what the plan sells, and opens with credits of his own, at most
\* those of a minute (start/route.ts:120-122).
ASSUME GatesHold ==
  \A code \in DOMAIN Plans, cfg \in Configs, available \in Balances :
    Verdict(PlanOf(code), cfg, available) = "ok" =>
      /\ Len(cfg.dstLangs) <= Plans[code].maxTargetLanguages
      /\ (cfg.voice \/ cfg.glossary # "none") => code \in {"creator", "pro"}
      /\ OpeningReserve(available, BurnOf(cfg)) \in 1..available

\* Whoever pays for a voice, has chosen one and has a language to translate into, hears it
\* in one of the languages on the screen.  Without either of the two the voice is paid for
\* and there is none (index.ts:207-208, 226-230).
ASSUME VoicePaidIsHeard ==
  \A code \in DOMAIN Plans, cfg \in Configs :
    Verdict(PlanOf(code), cfg, 1) = "ok" /\ cfg.voice =>
      (HasVoice(cfg) <=> cfg.voiceId /\ cfg.dstLangs # <<>>)
      /\ (HasVoice(cfg) => ResolveVoiceLang(cfg) \in InUse(cfg.dstLangs))

\* The plan the calculator advises has the credits it was asked for, and no cheaper one has.
ASSUME AdviceIsCheapest ==
  \A credits \in {0, 100, 300, 301, 1000, 1001, 3000, 3001} :
    LET advice == SmallestPlanCovering(credits * Credit)
    IN  \A code \in {"starter", "creator", "pro"} :
          Plans[code].credits >= credits * Credit =>
            advice # "none" /\ Plans[advice].credits >= credits * Credit
              /\ Plans[advice].eur <= Plans[code].eur

-----------------------------------------------------------------------------
Codes == DOMAIN Plans

\* What the form makes of the defaults, with two languages more than the trial has.
Buttons == {"en", "de", "fr"}
Made(code) == Within(Page(Plans[code], Buttons, {"own"}), DefaultConfig("en"), 6)

\* With the plan and the glossary it was made with, the form makes no settings that START
\* is refused for (pricing.ts:44, "the studio UI only mirrors it").
ASSUME FormMirrorsGates ==
  \A code \in Codes : \A cfg \in Made(code) :
    Cardinality(Made(code)) > 1 /\ Verdict(Plans[code], cfg, 1) = "ok"

\* Settings that outlive their plan, or the glossary they name, can be mended with the
\* controls of the form, except for these: a voice or a glossary the plan has no more, whose
\* control is disabled or gone, and a deleted glossary that was the last, which the list
\* displays as none.  START is then refused, whatever is pressed; the comment at
\* studio-client.tsx:98-101 counts on the schema to prevent it.
ASSUME StaleSettingsLockOut ==
  \A before, code \in Codes, deleted, another \in BOOLEAN :
    LET plan == Plans[code]
        page == Page(plan, Buttons, IF another \/ ~deleted THEN {"own"} ELSE {})
        kept(cfg) == [cfg EXCEPT !.glossary = IF @ = "own" /\ deleted THEN "unknown" ELSE @]
        locked(cfg) == \/ cfg.voice /\ ~plan.voiceEnabled
                       \/ cfg.glossary # "none" /\ ~plan.glossaryEnabled
                       \/ cfg.glossary = "unknown" /\ ~another
    IN  \A made \in Made(before) :
          LET cfg == Restored(kept(made), "en")
          IN  locked(cfg) <=> \A c \in Within(page, cfg, 4) : Verdict(plan, c, 1) # "ok"

\* Each control of the captions offers what the relay accepts, and all of it; and a change
\* that arrives mends those before it that were lost, as those made before the relay had the
\* session are (studio-client.tsx:136-141, server.ts:206-241, session-actor.ts:229-236).
Changes == [field : {"style", "maxLines"}, arrives : BOOLEAN]
ASSUME LastChangeMends ==
  /\ Offered = RenderConfig
  /\ \A changes \in BoundedSeq(Changes, 4) :
       LET opened == [style |-> 0, maxLines |-> 0]
           made(at, i) ==
             LET form == PatchRender(at.form, changes[i].field, i)
             IN  [form |-> form,
                  relay |-> IF changes[i].arrives THEN ApplyConfigure(at.relay, form) ELSE at.relay]
           after == FoldLeft(made, [form |-> opened, relay |-> opened], [i \in 1..Len(changes) |-> i])
       IN  changes # <<>> /\ Last(changes).arrives => after.relay = after.form

\* The preview ends with the card that was spoken of last and has at most one more, the
\* one before it: an old card that is corrected takes the place of one being said.
ASSUME PreviewIsLatest ==
  \A ids \in BoundedSeq(1..3, 5) :
    LET shown == FoldLeft(LAMBDA cards, id : UpsertCard(cards, [id |-> id]), <<>>, ids)
        last(id) == Max({i \in 1..Len(ids) : ids[i] = id} \cup {0})
        newer(id) == {other \in 1..3 : last(other) > last(id)}
    IN  /\ Len(shown) = Min({2, Cardinality(ToSet(ids))})
        /\ \A i \in 1..Len(shown) : Cardinality(newer(shown[i].id)) = Len(shown) - i
=============================================================================
