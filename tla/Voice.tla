------------------------------- MODULE Voice -------------------------------
(***************************************************************************)
(* The voice track of one session: the text-to-speech upstream             *)
(* (apps/relay/src/providers/elevenlabs-tts.ts over providers/socket.ts),  *)
(* the frames the actor makes of its audio (session-actor.ts, onTtsAudio)  *)
(* and the audio-only projector that plays them (apps/web/app/projector/   *)
(* [token]/voice/page.tsx and lib/audio-queue.ts).                         *)
(*                                                                         *)
(* `ws` reports a connection that cannot be made, or that fails, by        *)
(* 'error' and then 'close', and one that the provider ends by 'close'     *)
(* alone.  The provider answers the sentences of a connection in order, in *)
(* audio chunks and a last message, and does not say which is which.       *)
(*                                                                         *)
(* The link to the page is Projector's subject: here it delivers at once.  *)
(* A chunk may end in the middle of an MP3 frame; its last one does not.   *)
(***************************************************************************)
EXTENDS Integers, Sequences, SequencesExt

CONSTANTS
  Delays,      \* how many RECONNECT_DELAYS_MS there are
  MaxHeld,     \* MAX_PENDING_BYTES, in chunks
  MaxCards,    \* bound on the sentences of a run, for model checking only
  MaxChunks,   \* bound on the audio chunks of a sentence, for model checking only
  MaxOpens     \* bound on the connections that open, for model checking only

ASSUME VoiceAssumption ==
  /\ Delays \in Nat /\ MaxHeld \in Nat
  /\ MaxCards \in Nat /\ MaxChunks \in Nat /\ MaxOpens \in Nat

VARIABLES
  session,    \* SessionState
  tts,        \* the client's fields, one record:
              \*   socket       this.socket is not null
              \*   opened, closed, unavailable, attempts
              \*   pending      cards whose audio is awaited, oldest first
              \*   backlog      cards written while there was no open connection
              \*   handle       retryTimer is not null
  timers,     \* retry timers that will fire, the one of `handle` included
  conn,       \* the newest connection, as `ws` sees it
  alive,      \* connections that exist
  upstream,   \* what the provider has of that connection: cards not answered, in order
  chunks,     \* audio chunks it has sent of the first of them
  opens,      \* connections that have opened
  spoken,     \* sentences given to the client so far: cards are numbered in this order
  chain,      \* AudioQueue.chain: what the page still has to decode
  held,       \* AudioQueue.pending: chunks that did not decode
  played,     \* chunks scheduled on the page's audio clock
  \* History, for the properties only:
  frames,     \* the frames emitted: what each was labelled, and what it was
  cut         \* cards unanswered when their connection ended

clientVars == <<tts, timers>>
pageVars == <<chain, held, played>>
vars == <<session, clientVars, conn, alive, upstream, chunks, opens, spoken, pageVars,
          frames, cut>>

Cards == 1..MaxCards
Chunk(of, n, whole) == [of |-> of, n |-> n, whole |-> whole]
Flush == [of |-> 0, n |-> 0, whole |-> TRUE]

Fresh == [socket |-> FALSE, opened |-> FALSE, closed |-> FALSE, unavailable |-> FALSE,
          attempts |-> 0, pending |-> <<>>, backlog |-> <<>>, handle |-> FALSE]

\* SessionActor.start() has started the client.
Init ==
  /\ session = "RUNNING"
  /\ tts = [Fresh EXCEPT !.socket = TRUE] /\ timers = 0
  /\ conn = "connecting" /\ alive = 1
  /\ upstream = <<>> /\ chunks = 0 /\ opens = 0 /\ spoken = 0
  /\ chain = <<>> /\ held = <<>> /\ played = <<>>
  /\ frames = {} /\ cut = {}

-----------------------------------------------------------------------------
(* The client                                                              *)

\* Faulty variant: a second connection may be made over the first.
MayStartAgain(c) == ~c.closed /\ ~c.unavailable

\* Faulty variant: a client that has lost its connection does not make another.
MayStartOnce(c) == ~c.socket /\ ~c.closed /\ ~c.unavailable /\ c.attempts = 0

\* The first line of start().
MayStart(c) == ~c.socket /\ ~c.closed /\ ~c.unavailable

\* start(), from a client in state c: a connection is made unless there is one.
Starts(c) ==
  IF MayStart(c)
  THEN tts' = [c EXCEPT !.socket = TRUE] /\ conn' = "connecting" /\ alive' = alive + 1
  ELSE tts' = c /\ UNCHANGED <<conn, alive>>

\* cancelRetry(): only the timer retryTimer stands for.
CancelRetry == timers' = IF tts.handle THEN timers - 1 ELSE timers

\* markUnavailable(), for good.
Unavailable(c) ==
  [c EXCEPT !.unavailable = TRUE, !.opened = FALSE, !.socket = FALSE, !.pending = <<>>,
            !.backlog = <<>>, !.handle = FALSE]

\* write(): sent, or kept until there is a connection; without one start() makes one
\* at once, whatever a retry timer is waiting for.
Writes(c, card) ==
  IF c.opened
  THEN tts' = c /\ upstream' = Append(upstream, card) /\ UNCHANGED <<conn, alive>>
  ELSE Starts([c EXCEPT !.backlog = Append(@, card)]) /\ UNCHANGED upstream

\* The actor's 'speak' operation and speak(): the sentence joins the queue of awaited
\* audio and is written.
Speak ==
  LET card == spoken + 1
  IN  /\ session = "RUNNING"
      /\ spoken < MaxCards
      /\ spoken' = card
      /\ IF tts.closed \/ tts.unavailable
         THEN UNCHANGED <<tts, conn, alive, upstream>>
         ELSE Writes([tts EXCEPT !.pending = Append(@, card)], card)
      /\ UNCHANGED <<session, timers, chunks, opens, pageVars, frames, cut>>

\* handleOpen().
Opened(c) == [c EXCEPT !.opened = TRUE, !.attempts = 0, !.backlog = <<>>]

Opens ==
  /\ conn = "connecting"
  /\ opens < MaxOpens
  /\ opens' = opens + 1
  /\ conn' = "open"
  /\ tts' = Opened(tts)
  /\ upstream' = tts.backlog
  /\ UNCHANGED <<session, timers, alive, chunks, spoken, pageVars, frames, cut>>

\* What was asked of a connection that has ended is not answered.
Lost ==
  /\ cut' = cut \cup ToSet(upstream)
  /\ upstream' = <<>> /\ chunks' = 0

\* 'error': the voice is given up; a connection being closed before it was made
\* ends in this way too.
Errors ==
  /\ conn \in {"connecting", "open", "aborting"}
  /\ conn' = "broken"
  /\ CancelRetry
  /\ tts' = Unavailable(tts)
  /\ Lost
  /\ UNCHANGED <<session, alive, opens, spoken, pageVars, frames>>

\* 'close', and handleClose(): a retry in a while, as long as there is a delay left.
\* A timer that is already pending goes on, unknown to the client.
Closes ==
  /\ conn \in {"open", "broken", "closing"}
  /\ conn' = "none"
  /\ alive' = alive - 1
  /\ LET down == [tts EXCEPT !.opened = FALSE, !.socket = FALSE]
     IN  IF tts.closed \/ tts.unavailable
         THEN tts' = down /\ UNCHANGED timers
         ELSE IF tts.attempts < Delays
         THEN /\ tts' = [down EXCEPT !.attempts = @ + 1, !.handle = TRUE]
              /\ timers' = timers + 1
         ELSE tts' = Unavailable(tts) /\ CancelRetry
  /\ Lost
  /\ UNCHANGED <<session, opens, spoken, pageVars, frames>>

\* The first line of the timer's callback.
Fired(c) == [c EXCEPT !.handle = FALSE]

\* A retry timer fires, the newest or an older one, and takes the handle with it.
TimerFires ==
  /\ timers > 0
  /\ timers' = timers - 1
  /\ Starts(Fired(tts))
  /\ UNCHANGED <<session, upstream, chunks, opens, spoken, pageVars, frames, cut>>

\* The session closes, and close() with it.
SessionCloses ==
  /\ session = "RUNNING"
  /\ session' = "DRAINING"
  /\ tts' = [tts EXCEPT !.closed = TRUE, !.socket = FALSE, !.opened = FALSE, !.handle = FALSE]
  /\ CancelRetry
  /\ conn' = CASE tts.socket /\ conn = "connecting" -> "aborting"
               [] tts.socket /\ conn = "open" -> "closing"
               [] OTHER -> conn
  /\ UNCHANGED <<alive, upstream, chunks, opens, spoken, pageVars, frames, cut>>

\* performClose() has settled.
SessionEnds ==
  /\ session = "DRAINING"
  /\ session' = "CLOSED"
  /\ UNCHANGED <<clientVars, conn, alive, upstream, chunks, opens, spoken, pageVars, frames, cut>>

-----------------------------------------------------------------------------
(* Audio                                                                   *)

\* Faulty variant: every message retires the head.
RetiredAtOnce(final) == Tail(tts.pending)

Retired(final) == IF final THEN Tail(tts.pending) ELSE tts.pending

\* The page's onMessage: the chunk is pushed, and the queue flushed after a last one.
Plays(chunk, final) == chain' = Append(chain, chunk) \o (IF final THEN <<Flush>> ELSE <<>>)

\* onTtsAudio(): a frame, unless the session has ended.
Emits(card, chunk, final) ==
  IF session = "CLOSED"
  THEN UNCHANGED <<frames, chain>>
  ELSE frames' = frames \cup {[label |-> card, chunk |-> chunk]} /\ Plays(chunk, final)

\* handleMessage(): audio belongs to the head of `pending`.
Receives(chunk, final) ==
  IF tts.pending = <<>>
  THEN UNCHANGED <<tts, frames, chain>>
  ELSE tts' = [tts EXCEPT !.pending = Retired(final)] /\ Emits(Head(tts.pending), chunk, final)

\* The provider sends a chunk of the first sentence it has not answered in full.
Answers ==
  \E whole, final \in BOOLEAN :
    /\ conn \in {"open", "closing"}
    /\ upstream # <<>> /\ chunks < MaxChunks
    /\ final => whole
    /\ Receives(Chunk(Head(upstream), chunks + 1, whole), final)
    /\ chunks' = IF final THEN 0 ELSE chunks + 1
    /\ upstream' = IF final THEN Tail(upstream) ELSE upstream
    /\ UNCHANGED <<session, timers, conn, alive, opens, spoken, held, played, cut>>

\* decodeAudioData: bytes that end in the middle of a frame do not decode, and bytes
\* that hold the torn end of another sentence may or may not.
Decodes(bytes) ==
  IF bytes = <<>> \/ ~Last(bytes).whole THEN {FALSE}
  ELSE IF \A i \in 1..Len(bytes) : bytes[i].of = Last(bytes).of THEN {TRUE}
  ELSE BOOLEAN

\* Faulty variant: what cannot be decoded at the end of a sentence is kept.
FlushedKept(ok) == IF ok THEN <<>> ELSE held

\* flush(): what was held back is gone, whether it can be decoded or not.
Flushed(ok) == <<>>

\* decodeAndSchedule(): what did not decode waits for the next chunk, up to a limit.
HeldBack(ok, bytes) == IF ok \/ Len(bytes) > MaxHeld THEN <<>> ELSE bytes

\* decodeAndSchedule() or flush(), in the order of arrival.
RunsTask ==
  /\ chain # <<>>
  /\ chain' = Tail(chain)
  /\ LET flush == Head(chain) = Flush
         bytes == IF flush THEN held ELSE Append(held, Head(chain))
     IN  \E ok \in Decodes(bytes) :
           /\ played' = IF ok THEN played \o bytes ELSE played
           /\ held' = IF flush THEN Flushed(ok) ELSE HeldBack(ok, bytes)
  /\ UNCHANGED <<session, clientVars, conn, alive, upstream, chunks, opens, spoken, frames, cut>>

-----------------------------------------------------------------------------
Next ==
  \/ Speak \/ Opens \/ Errors \/ Closes \/ TimerFires \/ SessionCloses \/ SessionEnds
  \/ Answers \/ RunsTask

Spec == Init /\ [][Next]_vars

\* A connection attempt ends in one way or the other, and so does a broken one;
\* timers fire.  Nothing makes the provider answer, or a session close.
FairSpec == Spec /\ WF_vars(Opens \/ Errors) /\ WF_vars(conn = "broken" /\ Closes) /\ WF_vars(TimerFires)

-----------------------------------------------------------------------------
(* Properties                                                              *)

\* Types.
TypeOK ==
  /\ session \in {"RUNNING", "DRAINING", "CLOSED"}
  /\ tts \in [socket : BOOLEAN, opened : BOOLEAN, closed : BOOLEAN, unavailable : BOOLEAN,
              attempts : 0..Delays, pending : Seq(Cards), backlog : Seq(Cards), handle : BOOLEAN]
  /\ timers \in Nat /\ tts.handle => timers > 0
  /\ conn \in {"none", "connecting", "open", "broken", "aborting", "closing"}
  /\ alive \in Nat /\ opens \in 0..MaxOpens /\ spoken \in 0..MaxCards
  /\ upstream \in Seq(Cards) /\ chunks \in 0..MaxChunks /\ cut \subseteq Cards

\* "ONE socket for the whole session" (elevenlabs-tts.ts:8): sentences that bypass
\* the retry timers and timers nobody cancels never make a second connection, and
\* none is left without its close once the voice is over.
OneConnection == alive <= 1 /\ (tts.socket => alive = 1)

\* The awaited audio and what is to be answered agree, so that audio is labelled with
\* its own card, as long as no connection has ended with a sentence unanswered
\* (elevenlabs-tts.ts:89-93).
LabelledRight == cut = {} => \A f \in frames : f.label = f.chunk.of

\* What the page could not decode costs one sentence: once it has caught up, every
\* sentence that was answered in full is played, unless it comes right after one that
\* was cut off in the middle, or ran torn for longer than the page holds bytes back
\* (audio-queue.ts:19-27, 78-79, 119-129).
Finished == {c \in Cards : c \notin cut /\ c \notin ToSet(upstream) /\ \E f \in frames : f.chunk.of = c}
Oversized(c) ==
  \E n \in 1..MaxChunks : \A i \in 0..MaxHeld : \E f \in frames : f.chunk = Chunk(c, n + i, FALSE)
LossIsLocal ==
  chain = <<>> /\ session = "RUNNING" =>
    \A c \in Finished : c - 1 \notin cut /\ ~Oversized(c) =>
      \A f \in frames : f.chunk.of = c => f.chunk \in ToSet(played)

\* Under FairSpec what was spoken while there was no connection is sent, or the voice
\* is given up for good (elevenlabs-tts.ts:20-24, 159).
SpokenIsSent == tts.backlog # <<>> ~> tts.backlog = <<>> \/ tts.closed
=============================================================================
