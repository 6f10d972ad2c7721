--------------------------- MODULE Translations ---------------------------
(***************************************************************************)
(* The translate queue of one session                                      *)
(* (apps/relay/src/session-actor.ts, enqueueTranslation to                 *)
(* runTranslation), between the engine that asks and the engine that is    *)
(* answered.                                                               *)
(*                                                                         *)
(* At most MaxInflight requests are at the translator.  They answer or     *)
(* fail in any order, and the engine moves on meanwhile.                   *)
(***************************************************************************)
EXTENDS Engine, SequencesExt, FiniteSets

CONSTANTS
  DstLangs,          \* config.dstLangs, in order
  MaxInflight,       \* MAX_INFLIGHT_TRANSLATIONS
  MaxSpeculations    \* bound on the speculative requests of a card: each needs a
                     \* longer stable prefix than the one before it

ASSUME TranslationsAssumption ==
  /\ DstLangs \in Seq(Langs) /\ \A l \in Langs : \E i \in 1..Len(DstLangs) : DstLangs[i] = l
  /\ \A i, j \in 1..Len(DstLangs) : DstLangs[i] = DstLangs[j] => i = j
  /\ MaxInflight \in Nat \ {0}
  /\ MaxSpeculations \in Nat

Slots == 1..MaxInflight

VARIABLES
  state,        \* SessionState
  speculated,   \* speculative requests made for the live card
  pending,      \* pendingTranslations: a JavaScript Map keeps the order of insertion
  inflight,     \* the jobs at the translator, by slot
  failed        \* history: cards and languages whose final request failed

queueVars == <<pending, inflight>>
translateVars == <<engineVars, state, speculated, queueVars, failed>>

Job(card, lang, text, speculative) ==
  [card |-> card, lang |-> lang, text |-> text, speculative |-> speculative]

NoJob == Job(0, "", NoText, FALSE)

TranslateInit ==
  /\ EngineInit
  /\ state = "RUNNING" /\ speculated = 0
  /\ pending = <<>> /\ inflight = [s \in Slots |-> NoJob]
  /\ failed = {}

-----------------------------------------------------------------------------
(* The queue                                                               *)

SameKey(j, k) == j.card = k.card /\ j.lang = k.lang

\* Faulty variant: a job that is already queued is left as it is.
PutOnce(queue, job) ==
  IF \E i \in 1..Len(queue) : SameKey(queue[i], job) THEN queue ELSE Append(queue, job)

\* A job takes the place in the queue of the one for the same card and language,
\* unless that one is for the commit and this one is not.
Put(queue, job) ==
  IF \E i \in 1..Len(queue) : SameKey(queue[i], job)
  THEN [i \in 1..Len(queue) |->
          IF SameKey(queue[i], job) /\ (queue[i].speculative \/ ~job.speculative)
          THEN job ELSE queue[i]]
  ELSE Append(queue, job)

Enqueued(card, text, speculative) ==
  FoldLeft(LAMBDA queue, lang : Put(queue, Job(card, lang, text, speculative)), pending, DstLangs)

Free(flying) == {s \in Slots : flying[s] = NoJob}

\* The place of a free slot in the order in which they are filled.
Place(flying, s) == Cardinality({t \in Free(flying) : t <= s})

\* pumpTranslations(): the oldest jobs start, one per free slot.
Pumped(queue, flying) ==
  LET started == IF Cardinality(Free(flying)) < Len(queue) THEN Cardinality(Free(flying)) ELSE Len(queue)
  IN  /\ pending' = SubSeq(queue, started + 1, Len(queue))
      /\ inflight' = [s \in Slots |-> IF s \in Free(flying) /\ Place(flying, s) <= started
                                      THEN queue[Place(flying, s)] ELSE flying[s]]

Asks(card, text, speculative) == Pumped(Enqueued(card, text, speculative), inflight)

-----------------------------------------------------------------------------
(* The engine asks                                                         *)

\* Transcripts are taken until the session is CLOSED, the drain included.
PartialAsks(text) ==
  /\ state # "CLOSED"
  /\ Partial(text)
  /\ LET before == IF live = NoCard THEN 0 ELSE speculated
     IN  \/ UNCHANGED queueVars /\ speculated' = before
         \/ /\ before < MaxSpeculations
            /\ speculated' = before + 1
            /\ Asks(Current.id, text, TRUE)
  /\ UNCHANGED <<state, failed>>

CommitAsks(text) ==
  /\ state # "CLOSED"
  /\ Commit(text)
  /\ Asks(Current.id, text, FALSE)
  /\ speculated' = 0
  /\ UNCHANGED <<state, failed>>

SilenceCloses ==
  /\ state # "CLOSED"
  /\ CloseLive
  /\ speculated' = 0
  /\ UNCHANGED <<state, queueVars, failed>>

-----------------------------------------------------------------------------
(* The translator answers                                                  *)

\* The engine still has the card, and the result does not downgrade it.
Takes(job) ==
  \E c \in SettledCards \cup {live} : c # NoCard /\ c.id = job.card /\ Accepts(c, ~job.speculative)

\* Faulty variant: the queue does not move up.
FreedOnly(s) == inflight' = [inflight EXCEPT ![s] = NoJob] /\ UNCHANGED pending

\* A slot is free again, and the queue moves up.
Freed(s) ==
  IF state # "CLOSED"
  THEN Pumped(pending, [inflight EXCEPT ![s] = NoJob])
  ELSE inflight' = [inflight EXCEPT ![s] = NoJob] /\ UNCHANGED pending

Answers(s) ==
  LET job == inflight[s]
  IN  /\ job # NoJob
      /\ IF state # "CLOSED" /\ Takes(job)
         THEN ApplyTranslation(job.card, job.lang, job.text, ~job.speculative)
         ELSE UNCHANGED engineVars
      /\ Freed(s)
      /\ UNCHANGED <<state, speculated, failed>>

\* The request fails.  It is not made again.
Fails(s) ==
  LET job == inflight[s]
  IN  /\ job # NoJob
      /\ failed' = IF job.speculative THEN failed ELSE failed \cup {<<job.card, job.lang>>}
      /\ Freed(s)
      /\ UNCHANGED <<engineVars, state, speculated>>

-----------------------------------------------------------------------------
(* The session ends                                                        *)

\* performClose() up to the last settlement with the ledger: the queue is dropped.
Drain ==
  /\ state = "RUNNING"
  /\ state' = "DRAINING"
  /\ pending' = <<>>
  /\ UNCHANGED <<engineVars, speculated, inflight, failed>>

EndSession ==
  /\ state = "DRAINING"
  /\ state' = "CLOSED"
  /\ UNCHANGED <<engineVars, speculated, queueVars, failed>>

-----------------------------------------------------------------------------
TranslateNext ==
  \/ \E text \in Texts : PartialAsks(text) \/ CommitAsks(text)
  \/ SilenceCloses
  \/ \E s \in Slots : Answers(s) \/ Fails(s)
  \/ Drain \/ EndSession

TranslateSpec == TranslateInit /\ [][TranslateNext]_translateVars

\* Every request comes back in the end, with an answer or with an error.
TranslateFairSpec == TranslateSpec /\ \A s \in Slots : WF_translateVars(Answers(s) \/ Fails(s))

-----------------------------------------------------------------------------
(* Properties                                                              *)

Jobs == [card : Nat, lang : Langs, text : Texts, speculative : BOOLEAN]

\* Types.
TranslateTypeOK ==
  /\ EngineTypeOK
  /\ state \in {"RUNNING", "DRAINING", "CLOSED"}
  /\ speculated \in 0..MaxSpeculations
  /\ pending \in Seq(Jobs)
  /\ \A i, j \in 1..Len(pending) : SameKey(pending[i], pending[j]) => i = j
  /\ inflight \in [Slots -> Jobs \cup {NoJob}]
  /\ failed \subseteq (Nat \X Langs)

Underway(id, lang) ==
  \E j \in {pending[i] : i \in 1..Len(pending)} \cup {inflight[s] : s \in Slots} :
    j.card = id /\ j.lang = lang /\ ~j.speculative

\* A committed card the engine still has gets its own translation in every language:
\* it has it, it is queued or at the translator, or the translator has failed.  A
\* speculative request for the card, queued or in flight, never stands in for it
\* (session-actor.ts:387, translation.ts:4-7).
CommitsAreTranslated ==
  state = "RUNNING" =>
    \A c \in SettledCards, l \in Langs :
      \/ c.tr[l] = [of |-> c.text, final |-> TRUE]
      \/ Underway(c.id, l)
      \/ <<c.id, l>> \in failed

\* Under FairSpec the request of every commit comes to an end: it is answered, it
\* fails, or it goes with the session (session-actor.ts:415-430).
QueueDrains ==
  \A id \in 1..CardBound, l \in Langs :
    Underway(id, l) ~> ~Underway(id, l) \/ state = "CLOSED"
=============================================================================
