---------------------------- MODULE CaptionStore ----------------------------
(***************************************************************************)
(* The frames about cards, and what the captions page makes of one         *)
(* (apps/relay/src/session-actor.ts, applyOps; apps/web/app/projector/lib/ *)
(* caption-store.ts).  Projector puts an unreliable link between the two,  *)
(* and Screen says what of the page's cards a viewer sees.                 *)
(***************************************************************************)
EXTENDS Engine

CONSTANT MaxCards    \* MAX_CARDS: cards the page keeps

\* The page has room for every card the engine can hold at once, one more than the
\* backlog settled and one live: 8 against a backlog of 6.
ASSUME CaptionStoreAssumption == MaxCards \in Nat /\ MaxCards >= Backlog + 2

NoTr == [l \in Langs |-> NoTranslation]

Frame(kind, id, text, tr) == [kind |-> kind, card |-> id, text |-> text, tr |-> tr]

-----------------------------------------------------------------------------
(* What the relay says, in the state before the step                       *)

\* A partial transcript.
WhenHeard(text) == <<Frame("partial", Current.id, text, NoTr)>>

\* A committed transcript: `commit`, or `retract` when it differs from what is on
\* screen, and a `cardEnd` for the card that makes room.
WhenSettled(text) ==
  LET kind  == IF Current.text \in {NoText, text} THEN "commit" ELSE "retract"
      ended == IF Backlogged THEN <<Frame("cardEnd", Head(settled).id, NoText, NoTr)>> ELSE <<>>
  IN  <<Frame(kind, Current.id, text, NoTr)>> \o ended

\* Silence, or an empty commit.
WhenQuiet == <<Frame("cardEnd", live.id, NoText, NoTr)>>

-----------------------------------------------------------------------------
(* The store                                                               *)

BlankCard(id) == NewCard(id)

HasTr(msg) == \E l \in Langs : msg.tr[l] # NoTranslation

\* Faulty variant: a frame without translations removes them.
UpdatedWithoutTr(card, msg) ==
  IF msg.kind = "cardEnd" THEN [card EXCEPT !.state = "fading"]
  ELSE [card EXCEPT !.text = msg.text, !.tr = msg.tr,
                    !.state = IF msg.kind = "partial" THEN "live" ELSE "settled",
                    !.trFinal = IF msg.kind = "partial" THEN FALSE ELSE HasTr(msg) \/ @]

\* applyRelayMessage(), for one card.
Updated(card, msg) ==
  IF msg.kind = "cardEnd" THEN [card EXCEPT !.state = "fading"]
  ELSE [card EXCEPT !.text = msg.text,
                    !.tr = IF HasTr(msg) THEN msg.tr ELSE @,
                    !.state = IF msg.kind = "partial" THEN "live" ELSE "settled",
                    !.trFinal = IF msg.kind = "partial" THEN FALSE ELSE HasTr(msg) \/ @]

Has(store, id) == \E i \in 1..Len(store) : store[i].id = id

\* Faulty variant: the card a frame is about moves to the end.
WithCardLast(store, msg) ==
  LET others == SelectSeq(store, LAMBDA c : c.id # msg.card)
      card   == IF Has(store, msg.card) THEN SelectSeq(store, LAMBDA c : c.id = msg.card)[1]
                ELSE BlankCard(msg.card)
  IN  Newest(MaxCards, Append(others, Updated(card, msg)))

\* withCard(): a card the page does not know is appended, and the oldest goes.
WithCard(store, msg) ==
  IF Has(store, msg.card)
  THEN [i \in 1..Len(store) |-> IF store[i].id = msg.card THEN Updated(store[i], msg) ELSE store[i]]
  ELSE Newest(MaxCards, Append(store, Updated(BlankCard(msg.card), msg)))
=============================================================================
