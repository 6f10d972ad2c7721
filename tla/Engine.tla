------------------------------- MODULE Engine -------------------------------
(***************************************************************************)
(* The cards of the caption engine                                         *)
(* (packages/caption-engine/src/engine.ts, class CaptionEngine).           *)
(*                                                                         *)
(* The engine is pure and synchronous: one event in, operations out.  The  *)
(* actions below are its state changes; the modules that extend this one   *)
(* (Projector, Translations) say what becomes of the operations.           *)
(*                                                                         *)
(* A hypothesis of the recogniser is a member of Texts, any of which may   *)
(* replace any other.  Line breaking, reading rate and the exact stable    *)
(* prefix are left out: they decide how a card looks, and when a           *)
(* speculative translation is asked for, which is a free choice here.      *)
(***************************************************************************)
EXTENDS Integers, Sequences

CONSTANTS
  Texts,      \* what the recogniser may hear
  Langs,      \* config.dstLangs
  Backlog,    \* settled cards beyond which the oldest is dropped (backlogAction)
  CardBound   \* bound on the cards of a run, for model checking only

\* "" is the text of a card that has none.
NoText == ""

ASSUME EngineAssumption ==
  /\ NoText \notin Texts
  /\ Backlog \in Nat
  /\ CardBound \in Nat

VARIABLES
  live,      \* the card being spoken, or NoCard
  settled,   \* committed cards, oldest first
  opened     \* cards opened so far; ids are handed out in this order

engineVars == <<live, settled, opened>>

\* A translation: the text it translates, and whether it answers the request of
\* the commit or a speculative one.
Translation == [of : Texts \cup {NoText}, final : BOOLEAN]
NoTranslation == [of |-> NoText, final |-> FALSE]

NewCard(id) == [id |-> id, text |-> NoText, state |-> "live",
                tr |-> [l \in Langs |-> NoTranslation], trFinal |-> FALSE]
NoCard == NewCard(0)

EngineInit == live = NoCard /\ settled = <<>> /\ opened = 0

\* What is left when a list of which the oldest go is cut to n.
Newest(n, s) == IF Len(s) <= n THEN s ELSE SubSeq(s, Len(s) - n + 1, Len(s))

SettledCards == {settled[i] : i \in 1..Len(settled)}

\* The cards a snapshot carries: settled ones first, the live one last.
EngineCards == IF live = NoCard THEN settled ELSE Append(settled, live)

-----------------------------------------------------------------------------
\* The card an event is about: the live one, or a new one.
Current == IF live = NoCard THEN NewCard(opened + 1) ELSE live

OpensIfNone ==
  /\ Current.id <= CardBound
  /\ opened' = Current.id

\* onPartial(): the hypothesis replaces the text of the live card.
Partial(text) ==
  /\ OpensIfNone
  /\ live' = [Current EXCEPT !.text = text]
  /\ UNCHANGED settled

\* backlogAction(settled.length) = 'drop-oldest'
Backlogged == Len(settled) > Backlog

\* onCommitted(): the card is settled with the committed text, and the oldest
\* settled card makes room for it if there are too many.
Commit(text) ==
  /\ OpensIfNone
  /\ settled' = Append(IF Backlogged THEN Tail(settled) ELSE settled,
                       [Current EXCEPT !.text = text, !.state = "settled"])
  /\ live' = NoCard

\* closeLive(), on silence or on an empty commit: a card that was never committed
\* is forgotten.
CloseLive ==
  /\ live # NoCard
  /\ live' = NoCard
  /\ UNCHANGED <<settled, opened>>

\* applyTranslation() never downgrades a final translation; what counts as final is
\* the card, and not the language.
Accepts(card, final) == final \/ ~card.trFinal

Translated(card, lang, text, final) ==
  [card EXCEPT !.tr[lang] = [of |-> text, final |-> final], !.trFinal = final]

\* applyTranslation(), for a card the engine still has.
ApplyTranslation(id, lang, text, final) ==
  /\ \/ /\ live.id = id
        /\ Accepts(live, final)
        /\ live' = Translated(live, lang, text, final)
        /\ UNCHANGED settled
     \/ \E i \in 1..Len(settled) :
          /\ settled[i].id = id
          /\ Accepts(settled[i], final)
          /\ settled' = [settled EXCEPT ![i] = Translated(@, lang, text, final)]
          /\ UNCHANGED live
  /\ UNCHANGED opened

Card == [id : Nat, text : Texts \cup {NoText}, state : {"live", "settled"},
         tr : [Langs -> Translation], trFinal : BOOLEAN]

EngineTypeOK ==
  /\ live \in Card /\ live.state = "live"
  /\ settled \in Seq(Card) /\ \A c \in SettledCards : c.state = "settled" /\ c.text # NoText
  /\ opened \in Nat
=============================================================================
