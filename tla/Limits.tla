------------------------------- MODULE Limits -------------------------------
(***************************************************************************)
(* The bounded things of the code: who is let in how often, how long a     *)
(* retry waits, what is kept of the past, and which glossary terms pass.   *)
(*                                                                         *)
(* There is no state here: each operator is one call, from what was kept   *)
(* before it to what is kept after, and RunOf makes a history of calls.    *)
(* Instants and widths are natural numbers; limits are parameters, because *)
(* the code's (30 handshakes a minute, 60 frames a second, 50 terms) are   *)
(* too large to fill.                                                      *)
(***************************************************************************)
EXTENDS Integers, Sequences, SequencesExt, FiniteSetsExt, Folds, TLC

\* The answers to calls, one after another: call(kept, c) is [kept, answer].
RunOf(call(_, _), first, calls) ==
  FoldLeft(LAMBDA run, c : LET now == call(run.kept, c)
                           IN  [kept |-> now.kept, answers |-> Append(run.answers, now.answer)],
           [kept |-> first, answers |-> <<>>], calls)

-----------------------------------------------------------------------------
(* Windows over the instants of earlier calls, oldest first                *)

\* HandshakeLimiter.allow(), for one address.
Allow(window, limit, hits, now) ==
  LET recent == SelectSeq(hits, LAMBDA at : at > now - window)
      room   == Len(recent) < limit
  IN  [kept |-> IF room THEN Append(recent, now) ELSE recent, answer |-> room]

\* The SLIDING_WINDOW script and consumeRateLimit(): a refusal says when to come again.
\* The key lives for a window after the last call let in.
Consume(window, limit, hits, now) ==
  LET live == IF hits = <<>> \/ Last(hits) + window <= now THEN <<>>
              ELSE SelectSeq(hits, LAMBDA at : at > now - window)
  IN  IF Len(live) >= limit
      THEN [kept |-> live,
            answer |-> [allowed |-> FALSE, remaining |-> 0, retryAfter |-> Head(live) + window - now]]
      ELSE [kept |-> Append(live, now),
            answer |-> [allowed |-> TRUE, remaining |-> limit - Len(live) - 1, retryAfter |-> 0]]

\* SessionActor.acceptFrame(): buckets, each begun by the first frame after the last is over.
AcceptFrame(window, limit, bucket, now) ==
  LET fresh  == now - bucket.start >= window
      frames == IF fresh THEN 1 ELSE bucket.frames + 1
  IN  [kept |-> [start |-> IF fresh THEN now ELSE bucket.start, frames |-> frames],
       answer |-> frames <= limit]

\* SessionActor.notice(), for one code: kept is {} or the instant of the last one sent.
Noticed(cooldown, last, now) ==
  LET due == \A at \in last : now - at >= cooldown
  IN  [kept |-> IF due THEN {now} ELSE last, answer |-> due]

-----------------------------------------------------------------------------
(* Retries, in milliseconds; jitter is in quarters of its range            *)

Rounded(n, d) == (2 * n + d) \div (2 * d)

\* backoffDelayMs(), of the recogniser's client.
BackoffDelayMs(attempt, jitter) ==
  LET window == Min({4000, 250 * 2 ^ Max({0, attempt - 1})})
  IN  Rounded(window * (4 + jitter), 8)

\* backoffDelay(), of the projector's page: a factor of 9/5, past the ceiling from the fifth.
BackoffDelay(attempt, jitter) ==
  LET n       == Min({5, attempt})
      ceiling == Min({8000 * 5 ^ n, 500 * 9 ^ n})
  IN  Rounded(ceiling * (4 + jitter), 8 * 5 ^ n)

-----------------------------------------------------------------------------
(* What is kept of the past                                                *)

\* ContextWindow.push(): a sentence is [text, blank].
PushContext(size, kept, sentence) ==
  LET grown == IF sentence.blank THEN kept ELSE Append(kept, sentence.text)
  IN  [kept |-> SubSeq(grown, Max({1, Len(grown) - size + 1}), Len(grown)), answer |-> grown]

\* TranslationCache: a call is [key, sets], a lookup or a write.  The most recent key is last.
UseCache(capacity, kept, call) ==
  LET others == SelectSeq(kept, LAMBDA k : k # call.key)
      hit    == Len(others) < Len(kept)
      used   == IF hit \/ call.sets THEN Append(others, call.key) ELSE kept
  IN  [kept |-> IF Len(used) > capacity THEN Tail(used) ELSE used,
       answer |-> hit]

\* Percentile.add(), at()
AddSample(capacity, samples, value) ==
  LET grown == Append(samples, value)
  IN  IF Len(grown) > capacity THEN Tail(grown) ELSE grown
PercentileAt(samples, p) ==
  IF samples = <<>> THEN 0
  ELSE SortSeq(samples, <)[Min({Len(samples) - 1, (p * Len(samples)) \div 100}) + 1]

\* displayMs(), which the engine only measures by.
DisplayMs(chars, cfg) ==
  IF chars = 0 THEN cfg.minCardMs
  ELSE Min({cfg.maxCardMs, Max({cfg.minCardMs, Rounded(chars * 1000, cfg.maxCps)})})

-----------------------------------------------------------------------------
(* The translator's answers, by their length in characters                 *)

\* sanitiseTranslation(), maxTokensFor()
TranslationLimit(chars) == Max({120, 3 * chars})
MaxTokensFor(chars) == Min({512, Max({64, (chars + 1) \div 2})})

\* translate(): a set of at most one translation.  A reply is [ok, content], where content is
\* a set of at most one text; why the model stopped is not looked at.
Translate(chars, reply) ==
  IF reply.ok THEN {Min({length, TranslationLimit(chars)}) : length \in reply.content} ELSE {}

-----------------------------------------------------------------------------
(* Glossaries: a term is [word, size], as trimmed; two that differ in case *)
(* only have the same word                                                 *)

Distinct(terms) ==
  FoldLeft(LAMBDA out, term : IF \E i \in 1..Len(out) : out[i].word = term.word
                              THEN out ELSE Append(out, term), <<>>, terms)

\* normaliseTerms(), of the site: all of the terms, or an error.
NormaliseTerms(maxTerms, maxSize, raw) ==
  LET terms == Distinct(SelectSeq(raw, LAMBDA term : term.size > 0))
  IN  IF (\E i \in 1..Len(raw) : raw[i].size > maxSize) \/ Len(terms) > maxTerms
      THEN [error |-> TRUE, terms |-> <<>>] ELSE [error |-> FALSE, terms |-> terms]

\* sanitiseKeyterms(), of the relay: those the recogniser takes.
SanitiseKeyterms(maxTerms, maxSize, raw) ==
  LET terms == Distinct(SelectSeq(raw, LAMBDA term : term.size \in 1..maxSize))
  IN  SubSeq(terms, 1, Min({maxTerms, Len(terms)}))
=============================================================================
