----------------------------- MODULE Projector -----------------------------
(***************************************************************************)
(* From the engine to the screen: the wire of a RUNNING session and one    *)
(* captions projector (apps/relay/src/session-actor.ts, emit, remember,    *)
(* attachProjector, backfillFrom; apps/web/app/projector/lib/              *)
(* caption-store.ts and use-projector-socket.ts).                          *)
(*                                                                         *)
(* Every handler of the relay runs to its end before the next one, so an   *)
(* action emits all its frames at once.  The link is a WebSocket: it keeps *)
(* the order and loses nothing while it is up, and loses everything in     *)
(* flight when it goes down.  The page may be slow, may lose its link, and *)
(* may be reloaded by OBS, which loses the page's memory too.              *)
(*                                                                         *)
(* Style changes (`render`), which are frames like any other but about no  *)
(* card, are left out.                                                     *)
(***************************************************************************)
EXTENDS CaptionStore, SequencesExt

CONSTANTS
  HistoryLimit,   \* HISTORY_LIMIT: frames the relay keeps for a reattaching page
  MaxSeq          \* bound on the frames of a run, for model checking only

ASSUME ProjectorAssumption ==
  /\ HistoryLimit \in Nat \ {0}
  /\ MaxSeq \in Nat

None == -1    \* lastSeqRef.current === null

VARIABLES
  wire,     \* every numbered frame the session has emitted; the last one's is `seq`
  phase,    \* the page's connection
  link,     \* messages on their way to the page
  resume,   \* lastSeqRef
  cards,    \* ProjectorState.cards
  lastSeq   \* ProjectorState.lastSeq

relayVars == <<engineVars, wire>>
pageVars  == <<resume, cards, lastSeq>>
vars == <<relayVars, phase, link, pageVars>>

seq == Len(wire)

Init ==
  /\ EngineInit
  /\ wire = <<>>
  /\ phase = "down" /\ link = <<>>
  /\ resume = None /\ cards = <<>> /\ lastSeq = 0

-----------------------------------------------------------------------------
(* The relay                                                               *)

\* Voice audio is for the /voice page only, but it shares the numbering.
ForCaptions(frame) == frame.kind # "tts"

\* The frames for the page after the one with number `from`.
Unseen(from, frames) ==
  FoldLeft(LAMBDA out, f : IF f.seq > from /\ ForCaptions(f) THEN Append(out, f) ELSE out,
           <<>>, frames)

Numbered(frame, n) ==
  [kind |-> frame.kind, card |-> frame.card, text |-> frame.text, tr |-> frame.tr, seq |-> n]

\* emit(): the frames are numbered, remembered, and sent to an attached projector.
Emit(frames) ==
  LET numbered == [i \in 1..Len(frames) |-> Numbered(frames[i], seq + i)]
  IN  /\ seq + Len(frames) <= MaxSeq
      /\ wire' = wire \o numbered
      /\ link' = IF phase = "attached" THEN link \o Unseen(seq, numbered) ELSE link
      /\ UNCHANGED <<phase, pageVars>>

\* onSttEvent(): a partial transcript, a committed one, silence.
Hears(text) == Partial(text) /\ Emit(WhenHeard(text))
Settles(text) == Commit(text) /\ Emit(WhenSettled(text))
GoesQuiet == CloseLive /\ Emit(WhenQuiet)

\* A result of the translator for a card the engine still has (Translations says
\* which results there can be): the card is restated with its translations.
Restates(id, lang, text, final) ==
  /\ ApplyTranslation(id, lang, text, final)
  /\ \E c \in {live'} \cup {settled'[i] : i \in 1..Len(settled')} :
       /\ c.id = id
       /\ Emit(<<Frame(IF c.state = "live" THEN "partial" ELSE "retract", id, c.text, c.tr)>>)

\* The commit of a card asks for the translation of its text; a speculative request
\* was for an earlier hypothesis.
Translates ==
  \E c \in SettledCards \cup {live}, lang \in Langs, text \in Texts, final \in BOOLEAN :
    /\ c # NoCard
    /\ final => c.state = "settled" /\ text = c.text /\ ~c.tr[lang].final
    /\ Restates(c.id, lang, text, final)

\* The voice speaks.
Speaks ==
  /\ Emit(<<Frame("tts", 0, NoText, NoTr)>>)
  /\ UNCHANGED engineVars

\* buildSnapshot(): the current seq, not a new one.
Snapshot == [kind |-> "snapshot", seq |-> seq, cards |-> EngineCards]

\* The frames still remembered.
History == Newest(HistoryLimit, wire)

\* Faulty variant: off by one.
CanBackfillLate(from) == from # None /\ from <= seq /\ Len(wire) > 0 /\ History[1].seq <= from + 2

\* backfillFrom() has every frame after the last one the page has seen.
CanBackfill(from) == from # None /\ from <= seq /\ Len(wire) > 0 /\ History[1].seq <= from + 1

\* attachProjector(), once the token has been resolved: what the page missed, or
\* everything.  From here on emit() finds the projector.
Attach ==
  /\ phase = "asking"
  /\ phase' = "attached"
  /\ link' = IF CanBackfill(resume) THEN Unseen(resume, History) ELSE <<Snapshot>>
  /\ UNCHANGED <<relayVars, pageVars>>

-----------------------------------------------------------------------------
(* The page                                                                *)

\* ws.onmessage: lastSeqRef follows every numbered message, the store ignores the
\* ones it already has.
Deliver ==
  /\ link # <<>>
  /\ LET msg == Head(link)
     IN  /\ resume' = msg.seq
         /\ IF msg.kind = "snapshot"
            THEN cards' = Newest(MaxCards, msg.cards) /\ lastSeq' = msg.seq
            ELSE IF msg.seq <= lastSeq THEN UNCHANGED <<cards, lastSeq>>
            ELSE /\ lastSeq' = msg.seq
                 /\ cards' = WithCard(cards, msg)
  /\ link' = Tail(link)
  /\ UNCHANGED <<relayVars, phase>>

\* The backoff has passed, the socket opens and asks to resume.
Reconnect ==
  /\ phase = "down"
  /\ phase' = "asking"
  /\ UNCHANGED <<relayVars, link, pageVars>>

\* Faulty variant: a half-open socket is never noticed.
StaysHalfOpen ==
  /\ phase # "down"
  /\ phase' = "halfOpen"
  /\ link' = <<>>
  /\ UNCHANGED <<relayVars, pageVars>>

\* The link goes down, or is silent for so long that the watchdog closes it.  What
\* was on its way is lost; the page keeps what it shows.
LoseLink ==
  /\ phase # "down"
  /\ phase' = "down"
  /\ link' = <<>>
  /\ UNCHANGED <<relayVars, pageVars>>

\* OBS reloads the browser source: the page starts from INITIAL_STATE.
Reload ==
  /\ phase' = "down" /\ link' = <<>>
  /\ resume' = None /\ cards' = <<>> /\ lastSeq' = 0
  /\ UNCHANGED relayVars

-----------------------------------------------------------------------------
Emits ==
  \/ \E text \in Texts : Hears(text) \/ Settles(text)
  \/ GoesQuiet \/ Translates \/ Speaks

Next == Emits \/ Attach \/ Deliver \/ Reconnect \/ LoseLink \/ Reload

Spec == Init /\ [][Next]_vars

\* The page always reconnects, the relay always answers an attach, a link that is
\* up delivers, and links stop failing at some time.
FairSpec ==
  /\ Spec
  /\ WF_vars(Attach) /\ WF_vars(Deliver) /\ WF_vars(Reconnect)
  /\ <>[][~(LoseLink \/ Reload)]_vars

-----------------------------------------------------------------------------
(* Properties                                                              *)

Frames == [kind : {"partial", "commit", "retract", "cardEnd", "tts"}, card : Nat,
           text : Texts \cup {NoText}, tr : [Langs -> Translation], seq : Nat]

Shown == [id : Nat, text : Texts \cup {NoText}, state : {"live", "settled", "fading"},
          tr : [Langs -> Translation], trFinal : BOOLEAN]

\* Types.
TypeOK ==
  /\ EngineTypeOK
  /\ wire \in Seq(Frames)
  /\ phase \in {"down", "asking", "attached"}
  /\ \A i \in 1..Len(link) : link[i] \in Frames \/ link[i].kind = "snapshot"
  /\ cards \in Seq(Shown) /\ Len(cards) <= MaxCards
  /\ resume \in Nat \cup {None} /\ lastSeq \in Nat

StartsAfresh == link # <<>> /\ link[1].kind = "snapshot"

\* A reattaching projector gets exactly the frames it missed, or the whole state and
\* the frames after it: what is on its way to an attached page is every frame for it
\* since the last one it has seen, once, in order (session-actor.ts:240-243).
NeverAGap ==
  phase = "attached" =>
    LET since == IF StartsAfresh THEN link[1].seq ELSE resume
    IN  /\ since # None
        /\ (IF StartsAfresh THEN Tail(link) ELSE link) = Unseen(since, wire)

CaughtUp == phase = "attached" /\ link = <<>>

\* A page that is caught up agrees with the engine about every card both have,
\* whether it saw each frame, was backfilled or started from a snapshot, and
\* whatever it had thrown away in between (caption-store.ts:42-93).
ScreenAgrees ==
  CaughtUp =>
    \A i \in 1..Len(cards), c \in SettledCards \cup {live} :
      cards[i].id = c.id =>
        cards[i].text = c.text /\ cards[i].state = c.state /\ cards[i].tr = c.tr

\* Under FairSpec every frame for the page reaches it, itself or in a snapshot, whatever the link
\* and the page go through meanwhile (use-projector-socket.ts:17-24).
EveryFrameArrives ==
  \A n \in 1..MaxSeq : seq >= n /\ ForCaptions(wire[n]) ~> resume >= n
=============================================================================
