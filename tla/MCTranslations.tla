-------------------------- MODULE MCTranslations --------------------------
(***************************************************************************)
(* Three cards, two target languages, two requests at a time; and the      *)
(* limits of the code, over every history of up to six calls at seven      *)
(* instants, with windows of three and limits of two.                      *)
(***************************************************************************)
EXTENDS Translations, Limits

MCDstLangs == <<"en", "de">>

-----------------------------------------------------------------------------
Window == 3
Limit == 2

\* Histories of calls, in the order of time.
Histories == {h \in BoundedSeq(0..6, 6) : \A i \in 1..Len(h) - 1 : h[i] <= h[i + 1]}

\* How many of the calls that were let in are younger than a window when the i-th is made.
Burst(history, allowed, i) ==
  Cardinality({j \in 1..i : allowed[j] /\ history[j] > history[i] - Window})

\* No window holds more handshakes of an address, or more attempts at a form, than the
\* limit, wherever it begins (server.ts:381, rate-limit.ts:28-32); whoever is refused has a
\* window full before him, and the two limiters say the same.
ASSUME NoBurst ==
  \A history \in Histories :
    LET allowed  == RunOf(LAMBDA hits, now : Allow(Window, Limit, hits, now), <<>>, history).answers
        consumed == RunOf(LAMBDA hits, now : Consume(Window, Limit, hits, now), <<>>, history).answers
    IN  \A i \in 1..Len(history) :
          /\ Burst(history, allowed, i) <= Limit
          /\ allowed[i] \/ Burst(history, allowed, i) = Limit
          /\ consumed[i].allowed = allowed[i]
          /\ allowed[i] => consumed[i].remaining = Limit - Burst(history, allowed, i)

\* Who waits as long as he is told is let in, if nobody came before him; a moment earlier
\* he is not (rate-limit.ts:39-43).
ASSUME RetryIsHonest ==
  \A history \in Histories :
    LET run(h) == RunOf(LAMBDA hits, now : Consume(Window, Limit, hits, now), <<>>, h).answers
    IN  history # <<>> /\ ~Last(run(history)).allowed =>
          LET wait(n) == Append(history, Last(history) + n)
              told    == Last(run(history)).retryAfter
          IN  told > 0 /\ Last(run(wait(told))).allowed /\ ~Last(run(wait(told - 1))).allowed

\* Audio frames are counted in buckets, so a window may hold twice the limit and no more
\* (session-actor.ts:455-464; rate-limit.ts:13-20 lists them as a limit of the same kind).
FramesIn(history) ==
  RunOf(LAMBDA bucket, now : AcceptFrame(Window, Limit, bucket, now), [start |-> 0, frames |-> 0],
        history).answers
ASSUME FramesUpToTwice ==
  /\ \A history \in Histories : \A i \in 1..Len(history) :
       Burst(history, FramesIn(history), i) <= 2 * Limit
  /\ \E history \in Histories : \E i \in 1..Len(history) :
       Burst(history, FramesIn(history), i) = 2 * Limit

\* The same warning is not given twice within its cooldown, and is given when it is due
\* (session-actor.ts:537-543).
ASSUME WarningsAreSpaced ==
  \A history \in Histories :
    LET sent == RunOf(LAMBDA last, now : Noticed(Window, last, now), {}, history).answers
    IN  \A i \in 1..Len(history) :
          sent[i] <=> \A j \in 1..i - 1 : sent[j] => history[i] - history[j] >= Window

\* The recogniser's client waits at most four seconds, and never less than it might have
\* waited before, up to there; the page may wait less than the last time, by a tenth
\* (elevenlabs-stt.ts:53-63, use-projector-socket.ts:47-64).
ASSUME RetriesBackOff ==
  \A attempt \in 1..8, j \in 0..4, k \in 0..4 :
    /\ BackoffDelayMs(attempt, j) \in 125..4000
    /\ attempt < 5 => BackoffDelayMs(attempt + 1, j) >= BackoffDelayMs(attempt, k)
    /\ BackoffDelay(attempt, j) \in 250..8000
    /\ attempt < 4 => 10 * BackoffDelay(attempt + 1, j) + 10 >= 9 * BackoffDelay(attempt, k)

\* The translator is given the last sentences that say something (translation.ts:33-49).
Sentences == [text : 1..3, blank : BOOLEAN]
ASSUME ContextIsLatest ==
  \A said \in BoundedSeq(Sentences, 4) :
    LET spoken == SelectSeq(said, LAMBDA s : ~s.blank)
        kept   == RunOf(LAMBDA k, s : PushContext(2, k, s), <<>>, said).kept
    IN  /\ Len(kept) = Min({2, Len(spoken)})
        /\ \A i \in 1..Len(kept) : kept[i] = spoken[Len(spoken) - Len(kept) + i].text

\* The cache keeps the keys that were used last, be it by a hit or by a write, and answers
\* with those only (translation.ts:60-95).
CacheCalls == [key : 1..3, sets : BOOLEAN]
ASSUME CacheKeepsRecent ==
  \A calls \in BoundedSeq(CacheCalls, 5) :
    LET run     == RunOf(LAMBDA k, c : UseCache(2, k, c), <<>>, calls)
        used    == {i \in 1..Len(calls) : calls[i].sets \/ run.answers[i]}
        last(k) == Max({i \in used : calls[i].key = k} \cup {0})
        newer(k) == {l \in 1..3 : last(l) > last(k)}
    IN  ToSet(run.kept) = {k \in 1..3 : last(k) > 0 /\ Cardinality(newer(k)) < 2}

\* A percentile has no more than its share of the latest samples below it, and at least
\* its share up to it (governor.ts:42-59).
ASSUME PercentileDivides ==
  \A values \in BoundedSeq(1..3, 5), p \in {0, 50, 95, 100} :
    LET samples == FoldLeft(LAMBDA s, v : AddSample(4, s, v), <<>>, values)
        number(test(_)) == Cardinality({i \in 1..Len(samples) : test(samples[i])})
        at == PercentileAt(samples, p)
    IN  samples # <<>> =>
          /\ 100 * number(LAMBDA v : v < at) <= p * Len(samples)
          /\ 100 * number(LAMBDA v : v <= at) >= p * Len(samples)

\* A card is shown long enough to be read unless it would stay for more than six seconds:
\* 102 characters are the most that 17 a second allow (governor.ts:16-22).
ASSUME CardsAreReadable ==
  LET cfg == [maxCps |-> 17, minCardMs |-> 1000, maxCardMs |-> 6000]
  IN  \A chars \in 0..240 :
        LET ms == DisplayMs(chars, cfg)
        IN  ms \in 1000..6000 /\ (chars <= 102 <=> chars * 1000 <= 17 * ms + 17)

\* A translation is as long as the model made it unless that is three times its source, and
\* the model may make one of its source's length, at two characters a token, of up to 1024
\* characters; of a longer sentence the beginning is taken for the whole, and an answer
\* without a character for a translation (openrouter.ts:46-65, 97-118).
ASSUME AnswersAreWhole ==
  \A chars \in {1, 39, 40, 41, 127, 128, 1023, 1024, 1025, 2000} :
    LET made == Min({chars, 2 * MaxTokensFor(chars)})
    IN  /\ Translate(chars, [ok |-> TRUE, content |-> {made}]) = {chars} <=> chars <= 1024
        /\ \A length \in {0, 2 * chars, 3 * chars} :
             Translate(chars, [ok |-> TRUE, content |-> {length}]) = {length}
        /\ Translate(chars, [ok |-> FALSE, content |-> {chars}]) = {}

\* A glossary the site accepts reaches the recogniser as it is, whatever was typed
\* (glossary.ts:3-8, elevenlabs-stt.ts:65-79).
Terms == [word : {"a", "b", "c"}, size : {0, 1, 3, 4}]
ASSUME GlossaryArrives ==
  \A raw \in BoundedSeq(Terms, 4) :
    LET accepted == NormaliseTerms(2, 3, raw)
    IN  ~accepted.error => SanitiseKeyterms(2, 3, accepted.terms) = accepted.terms
=============================================================================
