----------------------------- MODULE MCScreen ------------------------------
(***************************************************************************)
(* A recogniser that appends, corrects itself, and says less than it did,  *)
(* sentences that are too short to be read alone, and a page with room for *)
(* two of its four cards.  The windows are shorter than the real ones (20  *)
(* rewrites, 8 hypotheses, 8 cards), so that they run full; lines are      *)
(* broken at 10 characters, and every sequence of up to five words of      *)
(* every sort is broken once, when the constants are evaluated.            *)
(***************************************************************************)
EXTENDS Screen, Layout

MCWords ==
  [yes |-> <<"so">>,
   two |-> <<"so", "we", "go">>,
   other |-> <<"so", "he", "go", "on">>]

MCWidth == [so |-> 2, we |-> 3, he |-> 3, go |-> 4, on |-> 6]
MCClass == [so |-> "plain", we |-> "number", he |-> "leading", go |-> "comma", on |-> "end"]

Lines == BoundedSeq(DOMAIN MCWidth, 5)

\* Lines end where words do, each one further, and all words are on a line or left over
\* (linebreak.ts:30-35, 45-58).
ASSUME NothingIsCut ==
  \A words \in Lines :
    LET ends == LineEnds(words)
    IN  /\ Len(ends) <= MaxLines
        /\ \A n \in 1..Len(ends) : ends[n] \in (IF n = 1 THEN 1 ELSE ends[n - 1] + 1)..Len(words)
        /\ Len(ends) < MaxLines => words = <<>> \/ Last(ends) = Len(words)

\* A line is as wide as it may be, unless it is one word, and it is broken after a number
\* only where no other break was left (linebreak.ts:61-84, 93-94).
ASSUME LinesAreReadable ==
  \A words \in Lines :
    \A n \in 1..Len(LineEnds(words)) :
      LET from == IF n = 1 THEN 0 ELSE LineEnds(words)[n - 1]
          end  == LineEnds(words)[n]
      IN  /\ end > from + 1 => Chars(SubSeq(words, from + 1, end)) <= MaxChars
          /\ Class[words[end]] = "number" /\ end < Len(words) =>
               \A i \in from + 1..end - 1 :
                 Class[words[i]] = "number" \/ 10 * Chars(SubSeq(words, from + 1, i)) < 6 * MaxChars

-----------------------------------------------------------------------------
Chars3 == {"a", "b", Break}
Blocks == [text : BoundedSeq(Chars3, 4), stable : 0..5]

\* The lines of a block are its text, and what is stable of them are its first characters:
\* nothing is lost between the two, or painted solid that is not (caption-store.ts:188-207).
ASSUME LinesAreTheText ==
  \A block \in Blocks :
    LET lines == ToLines(block)
        joined(f(_)) == FoldLeft(LAMBDA out, i : (IF i = 1 THEN out ELSE Append(out, Break)) \o f(i),
                                 <<>>, [i \in 1..Len(lines) |-> i])
        letters(text) == SelectSeq(text, LAMBDA c : c # Break)
    IN  /\ joined(LAMBDA i : Written(lines[i], "ghost")) = block.text
        /\ letters(joined(LAMBDA i : Written(lines[i], "hide"))) =
             letters(SubSeq(block.text, 1, Min({block.stable, Len(block.text)})))
        /\ \A i \in 1..Len(lines), j \in 1..Len(lines) :
             i < j /\ lines[i].tail # <<>> => lines[j].stable = <<>>

\* The newest line is never clipped, and at most one is rolling out (page.tsx:114-125).
ASSUME NewestLineShows ==
  \A block \in Blocks, visible \in 1..3 :
    LET lines == ToLines(block)
        seen  == VisibleLines(lines, visible)
    IN  /\ seen # <<>> /\ Last(seen) = Last(lines)
        /\ Len(seen) = Min({Len(lines), visible + 1})

\* A page that asks for one language never shows another, and of a translation that is not
\* final nothing is solid (caption-store.ts:153-165, 174-177).
Translated3 == [lang : {"en", "de"}, text : {<<>>, <<"a">>}]
ASSUME LanguageIsKept ==
  \A tr \in BoundedSeq(Translated3, 2), final \in BOOLEAN, lang \in {AnyLang, "en", "de"} :
    LET card  == [text |-> <<"b">>, stable |-> 1, tr |-> tr, trFinal |-> final]
        shown == CardBlocks(card, [showSource |-> FALSE, showTranslation |-> TRUE], lang)
    IN  \A i \in 1..Len(shown) :
          /\ \E t \in ToSet(tr) : t.text = shown[i].text /\ lang \in {AnyLang, t.lang}
          /\ ToLines(shown[i])[1].stable = <<>> \/ final

\* An address without an option, or with one out of its range, changes nothing; a valid one
\* wins over the relay, but for the lines of the style that has one (caption-store.ts:221-252,
\* styles.ts:13).
Base == [style |-> "clean", maxLines |-> 2, fontSize |-> 44, safeAreaPct |-> 5]
Queries ==
  [style : {"none", "clean", "minimal"}, maxLines : {Unset, 0, 1, 3, 4},
   fontSize : {Unset, 19, 20, 96, 97}, safeAreaPct : {Unset, 0, 15, 16}]
ASSUME AddressWins ==
  \A query \in Queries :
    LET render == ResolveRender(Base, query)
    IN  /\ render.style \in Styles /\ render.maxLines \in 1..3
        /\ render.fontSize \in 20..96 /\ render.safeAreaPct \in 0..15
        /\ \A f \in DOMAIN Base : render[f] \in {Base[f], query[f]}
        /\ query.maxLines \in 1..3 =>
             LineBudget(render) = IF query.style = "minimal" THEN 1 ELSE query.maxLines
=============================================================================
