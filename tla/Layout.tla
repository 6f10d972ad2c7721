------------------------------- MODULE Layout -------------------------------
(***************************************************************************)
(* What the projector page puts where, of the card it has selected:        *)
(* apps/web/app/projector/lib/caption-store.ts (cardBlocks, toLines,       *)
(* readOverrides) and app/projector/[token]/page.tsx (LineStack, Line).    *)
(*                                                                         *)
(* There is no state here.  A text is a sequence of characters, of which   *)
(* Break is the newline; a card is [text, stable, tr, trFinal], where tr   *)
(* is a sequence of [lang, text], in the order they came.                  *)
(***************************************************************************)
EXTENDS Integers, Sequences, SequencesExt, FiniteSetsExt

AnyLang == "any"
Break == "/"

\* pickTranslation(): a sequence of at most one.
PickTranslation(card, lang) ==
  LET asked == SelectSeq(card.tr, LAMBDA t : lang \in {AnyLang, t.lang})
  IN  IF asked # <<>> /\ Head(asked).text # <<>> THEN <<Head(asked).text>> ELSE <<>>

\* cardBlocks(): the source above its translation; one that is speculative is all tail.
CardBlocks(card, render, lang) ==
  LET translation == IF render.showTranslation THEN PickTranslation(card, lang) ELSE <<>>
  IN  (IF render.showSource /\ card.text # <<>>
       THEN <<[text |-> card.text, stable |-> card.stable]>> ELSE <<>>)
      \o [i \in 1..Len(translation) |->
            [text |-> translation[i],
             stable |-> IF card.trFinal THEN Len(translation[i]) ELSE 0]]

\* toLines(): a break counts as one character of those that are stable.
ToLines(block) ==
  LET ends == SetToSortSeq({i \in 1..Len(block.text) : block.text[i] = Break}
                             \cup {Len(block.text) + 1}, <)
      offset(n) == IF n = 1 THEN 0 ELSE ends[n - 1]
      shown(n) == Min({Max({block.stable, offset(n)}), ends[n] - 1})
  IN  [n \in 1..Len(ends) |->
         [stable |-> SubSeq(block.text, offset(n) + 1, shown(n)),
          tail   |-> SubSeq(block.text, shown(n) + 1, ends[n] - 1)]]

\* LineStack: the last lines, under the one that is rolling out.
VisibleLines(lines, visible) ==
  SubSeq(lines, Max({1, Len(lines) - visible}), Len(lines))

\* Line: what is written of it.
Written(line, tail) == line.stable \o (IF tail = "ghost" THEN line.tail ELSE <<>>)

-----------------------------------------------------------------------------
(* The address of the page may set what the relay would: an option is its  *)
(* value or Unset, as the address has it                                   *)

Unset == -1
Styles == {"clean", "broadcast", "minimal", "karaoke"}

\* readOverrides(): what is missing or out of its range is left to the relay.
ReadOverrides(query) ==
  (IF query.style \in Styles THEN {"style"} ELSE {})
    \cup (IF query.maxLines \in 1..3 THEN {"maxLines"} ELSE {})
    \cup (IF query.fontSize \in 20..96 THEN {"fontSize"} ELSE {})
    \cup (IF query.safeAreaPct \in 0..15 THEN {"safeAreaPct"} ELSE {})

\* resolveRender()
ResolveRender(base, query) ==
  [f \in DOMAIN base |-> IF f \in ReadOverrides(query) THEN query[f] ELSE base[f]]

\* stylePreset(), maxLines: the style "minimal" has one line, whatever is asked for.
LineBudget(render) == IF render.style = "minimal" THEN 1 ELSE render.maxLines
=============================================================================
