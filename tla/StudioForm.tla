----------------------------- MODULE StudioForm -----------------------------
(***************************************************************************)
(* The settings of the studio                                              *)
(* (apps/web/app/(app)/app/studio/studio-client.tsx, page.tsx): what is    *)
(* remembered of them in the browser, what each control makes of them, and *)
(* which controls a plan leaves enabled; and the preview under them.       *)
(*                                                                         *)
(* There is no state here.  A SessionConfig is that of Tariff; a page is   *)
(* [plan, langs, held]: the user's plan, the languages there are buttons   *)
(* for, and whether he has a glossary.  The settings are kept in the       *)
(* browser, and outlive the plan and the glossary they were made with.     *)
(***************************************************************************)
EXTENDS Tariff, Layout, Folds

SchemaLanguages == 5   \* SessionConfig: dstLangs, max(5)

\* defaultConfig(), with `first` for English.
DefaultConfig(first) ==
  [dstLangs |-> <<first>>, voice |-> FALSE, lang |-> NoLang, voiceId |-> FALSE,
   glossary |-> "none"]

\* The effect that restores: what the schema refuses is thrown away.  The schema knows
\* neither the plan nor the user's glossaries.
Restored(stored, first) ==
  IF Len(stored.dstLangs) <= SchemaLanguages THEN stored ELSE DefaultConfig(first)

\* StudioPage: what the form is given.
Page(plan, langs, glossaries) ==
  [plan |-> plan, langs |-> langs, held |-> plan.glossaryEnabled /\ glossaries # {}]

\* A language button: pressed it releases, released it presses unless the plan is full.
LanguageButton(page, cfg, lang) ==
  IF lang \in InUse(cfg.dstLangs)
  THEN {[cfg EXCEPT !.dstLangs = SelectSeq(@, LAMBDA l : l # lang)]}
  ELSE IF Len(cfg.dstLangs) >= page.plan.maxTargetLanguages THEN {}
  ELSE {[cfg EXCEPT !.dstLangs = Append(@, lang)]}

\* The voice's checkbox; there is no voice to choose, so the list of them is disabled.
VoiceBox(page, cfg) ==
  IF page.plan.voiceEnabled THEN {[cfg EXCEPT !.voice = ~@]} ELSE {}

\* The glossary's list, of a plan that has one.  A value that is not listed is displayed as
\* the first option, and choosing what is displayed changes nothing.
GlossaryList(page, cfg) ==
  LET listed    == {"none"} \cup (IF page.held THEN {"own"} ELSE {})
      displayed == IF cfg.glossary \in listed THEN cfg.glossary ELSE "none"
  IN  IF page.plan.glossaryEnabled
      THEN {[cfg EXCEPT !.glossary = g] : g \in listed \ {displayed}} ELSE {}

\* What one use of a control can make of the settings.
Controls(page, cfg) ==
  UNION {LanguageButton(page, cfg, lang) : lang \in page.langs}
    \cup VoiceBox(page, cfg) \cup GlossaryList(page, cfg)

\* All that `uses` uses of the controls can make of it.
Within(page, cfg, uses) ==
  FoldLeft(LAMBDA found, n : found \cup UNION {Controls(page, c) : c \in found},
           {cfg}, [n \in 1..uses |-> n])

\* RenderConfig, of the contract.
RenderConfig ==
  [style |-> Styles, mode |-> {"rollup", "popon"}, tail |-> {"ghost", "hide"},
   maxLines |-> 1..3, maxCharsPerLine |-> 24..60, fontSize |-> 20..96, safeAreaPct |-> 0..15,
   showSource |-> BOOLEAN, showTranslation |-> BOOLEAN]

\* The controls of the captions, each change of which is sent to a running session.
Offered ==
  [style |-> {"clean", "broadcast", "minimal", "karaoke"}, mode |-> {"rollup", "popon"},
   tail |-> {"ghost", "hide"}, maxLines |-> 1..3, maxCharsPerLine |-> 24..60,
   fontSize |-> 20..96, safeAreaPct |-> 0..15, showSource |-> BOOLEAN,
   showTranslation |-> BOOLEAN]

\* patchRender(): the form's settings with one changed, which is also what is sent.
PatchRender(render, field, value) == [render EXCEPT ![field] = value]

\* applyConfigure(), of the relay: what a message makes of the settings of its session.
ApplyConfigure(render, sent) == sent @@ render

\* upsertCard(): the preview has the last two cards that something was said of.
UpsertCard(cards, card) ==
  LET grown == Append(SelectSeq(cards, LAMBDA c : c.id # card.id), card)
  IN  SubSeq(grown, Max({1, Len(grown) - 1}), Len(grown))
=============================================================================
