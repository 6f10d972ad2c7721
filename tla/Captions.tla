------------------------------ MODULE Captions ------------------------------
(***************************************************************************)
(* What the caption engine makes of the words                              *)
(* (packages/caption-engine/src/stability.ts, linebreak.ts, speech.ts and  *)
(* the parts of engine.ts that use them), on top of the cards of Engine.   *)
(*                                                                         *)
(* A hypothesis is a member of Texts, and Words says of which words it     *)
(* consists; a word is known by its width and by the sort of break that    *)
(* may follow it.  The session speaks without translating (Langs = {}):    *)
(* the engine itself asks for a sentence to be read only then.             *)
(*                                                                         *)
(* Speculative requests are Translations' business, and the averages of    *)
(* metrics() are left out.                                                 *)
(***************************************************************************)
EXTENDS Engine, SequencesExt

CONSTANTS
  Words,          \* the words of a text
  Width,          \* the characters of a word
  Class,          \* the sort of a word, one of Classes
  Frames,         \* stabilityFrames
  VolatileTail,   \* volatileTailTokens
  Threshold,      \* adaptiveRewriteThreshold, in percent
  RewriteWindow,  \* capacity of RewriteTracker
  HistoryLimit,   \* hypotheses a live card remembers
  ContextSize,    \* contextSentences
  SpeechLimit,    \* capacity of SpeechQueue
  MinWords,       \* minWordsForSpeech
  MaxChars,       \* maxCharsPerLine
  MaxLines        \* maxLines

Classes == {"plain", "leading", "comma", "pause", "end", "number"}

ASSUME CaptionsAssumption ==
  /\ Langs = {}
  /\ \A t \in Texts : Words[t] \in Seq(DOMAIN Width) /\ Words[t] # <<>>
  /\ \A w \in DOMAIN Width : Width[w] \in Nat \ {0} /\ Class[w] \in Classes
  /\ Frames \in Nat \ {0} /\ HistoryLimit \in Nat /\ HistoryLimit >= Frames + 2
  /\ VolatileTail \in Nat /\ Threshold \in 0..100 /\ RewriteWindow \in Nat \ {0}
  /\ ContextSize \in Nat /\ SpeechLimit \in Nat \ {0} /\ MinWords \in Nat
  /\ MaxChars \in Nat \ {0} /\ MaxLines \in Nat \ {0}

VARIABLES
  history,    \* LiveCard.history: the hypotheses of the live card, newest last
  rewrites,   \* RewriteTracker.window
  stable,     \* leading words of the live card that are painted solid
  context,    \* ContextWindow.sentences
  waiting,    \* pendingSpeech: sentences too short to be read on their own
  queued,     \* SpeechQueue, which nothing empties: sentences in it, and dropped
  spoken,     \* the sentences the voice was asked to read, each with its fragments
  said        \* history: every sentence committed

heardVars == <<history, rewrites, stable>>
voiceVars == <<context, waiting, queued, spoken, said>>
vars == <<engineVars, heardVars, voiceVars>>

Init ==
  /\ EngineInit
  /\ history = <<>> /\ rewrites = <<>> /\ stable = 0
  /\ context = <<>> /\ waiting = <<>> /\ queued = [depth |-> 0, dropped |-> 0]
  /\ spoken = <<>> /\ said = <<>>

Least(S) == CHOOSE n \in S : \A m \in S : n <= m
Greatest(S) == CHOOSE n \in S : \A m \in S : n >= m

\* The characters of words written with spaces between them.
Chars(words) ==
  FoldLeft(LAMBDA n, w : n + Width[w], 0, words) + (IF words = <<>> THEN 0 ELSE Len(words) - 1)

-----------------------------------------------------------------------------
(* Stability                                                               *)

\* The leading words two hypotheses share.
Shared(v, w) == Greatest({n \in 0..Len(v) : n <= Len(w) /\ \A i \in 1..n : v[i] = w[i]})

\* RewriteTracker.record(): a word that was there is another one now.
Rewrote(before, now) == Shared(before, now) < Least({Len(before), Len(now)})

\* adaptiveFrames(), at the rate of the window.
FramesFor(window) ==
  IF Len(SelectSeq(window, LAMBDA r : r)) * 100 > Threshold * Len(window) THEN Frames + 1 ELSE Frames

\* stablePrefixTokens(): what the last `frames` hypotheses agree about, without the
\* words the recogniser is still guessing.
StablePrefix(texts, frames) ==
  LET words  == Words[Last(texts)]
      agreed == {Shared(words, Words[texts[i]]) : i \in (Len(texts) - frames + 1)..Len(texts)}
  IN  IF Len(texts) < frames THEN 0
      ELSE Greatest({0, Least(agreed \cup {Len(words) - VolatileTail})})

\* Faulty variant: a history that is full starts again.
RememberedAfresh(texts, text) ==
  IF Len(texts) = HistoryLimit THEN <<text>> ELSE Append(texts, text)

\* The history of a card, of which the oldest goes.
Remembered(texts, text) == Newest(HistoryLimit, Append(texts, text))

\* onPartial()
Hears(text) ==
  /\ Partial(text)
  /\ LET before == IF history = <<>> THEN <<>> ELSE Words[Last(history)]
     IN  rewrites' = Newest(RewriteWindow, Append(rewrites, Rewrote(before, Words[text])))
  /\ history' = Remembered(history, text)
  /\ stable' = StablePrefix(history', FramesFor(rewrites'))
  /\ UNCHANGED voiceVars

\* The live card is gone: rewrites.reset(), and its history with it.
Forgotten == history' = <<>> /\ rewrites' = <<>> /\ stable' = 0

-----------------------------------------------------------------------------
(* Speech                                                                  *)

\* countWords(), of several sentences written one after the other.
CountWords(texts) == FoldLeft(LAMBDA n, t : n + Len(Words[t]), 0, texts)

\* shouldMergeForward()
TooShort(texts) == CountWords(texts) < MinWords

\* SpeechQueue.push(): the oldest goes.
Pushed(q) ==
  IF q.depth < SpeechLimit THEN [q EXCEPT !.depth = @ + 1] ELSE [q EXCEPT !.dropped = @ + 1]

\* Faulty variant: a sentence long enough is read without what waits for it.
ReadsAlone(text) ==
  LET merged == Append(waiting, text)
  IN  IF TooShort(merged)
      THEN waiting' = merged /\ UNCHANGED <<queued, spoken>>
      ELSE waiting' = <<>> /\ queued' = Pushed(queued) /\ spoken' = Append(spoken, <<text>>)

\* A sentence waits for the next one, or is read together with those that wait.
Reads(text) ==
  LET merged == Append(waiting, text)
  IN  IF TooShort(merged)
      THEN waiting' = merged /\ UNCHANGED <<queued, spoken>>
      ELSE waiting' = <<>> /\ queued' = Pushed(queued) /\ spoken' = Append(spoken, merged)

\* onCommitted()
Settles(text) ==
  /\ Commit(text)
  /\ Reads(text)
  /\ context' = Newest(ContextSize, Append(context, text))
  /\ said' = Append(said, text)
  /\ Forgotten

\* onSilence(), or a commit without a text, which the client of the recogniser makes a
\* silence of.
GoesQuiet ==
  /\ CloseLive
  /\ Forgotten
  /\ UNCHANGED voiceVars

-----------------------------------------------------------------------------
(* Lines                                                                   *)

\* boundaryScore(), doubled: how good a break after word i is.
BoundaryScore(words, i) ==
  CASE i = Len(words)                      -> 10
    [] Class[words[i]] = "number"          -> 0
    [] Class[words[i]] = "end"             -> 8
    [] Class[words[i]] = "pause"           -> 6
    [] Class[words[i]] = "comma"           -> 4
    [] Class[words[i + 1]] = "leading"     -> 2
    [] OTHER                               -> 1

\* chooseBreak(): the best of the breaks in the back part of the line, or its last
\* word; a word that is wider than a line has one to itself.
ChooseBreak(words, from) ==
  LET wide(i) == Chars(SubSeq(words, from + 1, i))
      fitting == {i \in from + 1..Len(words) : wide(i) <= MaxChars}
      usable  == {i \in fitting : wide(i) * 10 >= MaxChars * 6 /\ BoundaryScore(words, i) > 0}
      best    == {i \in usable : \A j \in usable : BoundaryScore(words, j) <= BoundaryScore(words, i)}
  IN  IF fitting = {} THEN from + 1
      ELSE IF usable = {} THEN Greatest(fitting)
      ELSE Greatest(best)

\* breakIntoLines(): where the lines end.  What is after the last of them is `overflow`.
LineEnds(words) ==
  FoldLeft(LAMBDA ends, n :
             LET from == IF ends = <<>> THEN 0 ELSE Last(ends)
             IN  IF from = Len(words) THEN ends ELSE Append(ends, ChooseBreak(words, from)),
           <<>>, [n \in 1..MaxLines |-> n])

-----------------------------------------------------------------------------
Next ==
  \/ \E text \in Texts : Hears(text) \/ Settles(text)
  \/ GoesQuiet

Spec == Init /\ [][Next]_vars

-----------------------------------------------------------------------------
(* Properties                                                              *)

\* Types.
TypeOK ==
  /\ EngineTypeOK
  /\ history \in Seq(Texts) /\ Len(history) <= HistoryLimit
  /\ rewrites \in Seq(BOOLEAN) /\ Len(rewrites) <= RewriteWindow
  /\ stable \in Nat
  /\ context \in Seq(Texts) /\ waiting \in Seq(Texts) /\ said \in Seq(Texts)
  /\ queued \in [depth : 0..SpeechLimit, dropped : Nat]
  /\ spoken \in Seq(Seq(Texts))

\* The recogniser has taken back a word it had said, in a hypothesis that still counts.
Doubted(texts) ==
  \E n \in 2..Len(texts) :
    n >= Len(texts) - Frames /\ ~IsPrefix(Words[texts[n - 1]], Words[texts[n]])

\* What is solid gives way only to doubt: while a card is spoken its solid part becomes
\* shorter only if the recogniser has just taken a word back, in a partial as well as in
\* a commit.  A window that grows, and a history that forgets, take nothing back
\* (stability.ts:82-89, engine.ts:94-105).  It is less than docs/CAPTION-ENGINE.md:51-54
\* promises, where only a commit takes solid text back; README, section 6.
SolidGivesWay ==
  [][live.id = live'.id /\ stable' < stable => Doubted(history')]_vars

\* No sentence is lost, read twice or read out of turn, and none is read that is too
\* short on its own: what the voice was asked to read and what still waits is what was
\* said, through any run of short and long sentences (speech.ts:32-38, engine.ts:193-206).
EverySentenceSpoken ==
  /\ FlattenSeq(spoken) \o waiting = said
  /\ \A i \in 1..Len(spoken) : ~TooShort(spoken[i])
=============================================================================
