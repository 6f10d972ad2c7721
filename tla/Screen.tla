------------------------------- MODULE Screen -------------------------------
(***************************************************************************)
(* What a viewer sees of what the engine hears: the captions page of the   *)
(* projector on a link that works                                          *)
(* (apps/web/app/projector/[token]/page.tsx; Projector is about links that *)
(* do not).                                                                *)
(*                                                                         *)
(* React paints when it finds the time: several frames may have arrived    *)
(* since it last did.  A revised sentence is crossfaded: the page keeps    *)
(* the old revision, its `ghost`, for CARD_SWAP_MS.                        *)
(*                                                                         *)
(* The page paints the source text; blocks in other languages, styles and  *)
(* the query parameters are left out.                                      *)
(***************************************************************************)
EXTENDS Captions, CaptionStore

VARIABLES
  mode,    \* render.mode, which the session is started with
  cards,   \* ProjectorState.cards
  revs,    \* ProjectorCard.rev, of the card with an id; 0 for one the page does not have
  top,     \* the card React has painted last, which `previous` holds
  ghost    \* useRetractGhost(): the revision that fades out, and has a timer

screenVars == <<mode, cards, revs, top, ghost>>
allVars == <<vars, screenVars>>

Modes == {"rollup", "popon"}
Nothing == [id |-> 0, rev |-> 0, text |-> NoText]

ScreenInit ==
  /\ Init
  /\ mode \in Modes
  /\ cards = <<>> /\ revs = [id \in 1..CardBound |-> 0]
  /\ top = Nothing /\ ghost = Nothing

-----------------------------------------------------------------------------
\* A retract of a card bumps its revision.
Revised(rs, store, msg) ==
  [id \in 1..CardBound |->
     IF ~Has(store, id) THEN 0
     ELSE IF msg.kind = "retract" /\ msg.card = id THEN rs[id] + 1 ELSE rs[id]]

\* applyRelayMessage(), for each of the frames.
Arrive(frames) ==
  LET after == FoldLeft(LAMBDA s, msg :
                          LET store == WithCard(s.cards, msg)
                          IN  [cards |-> store, revs |-> Revised(s.revs, store, msg)],
                        [cards |-> cards, revs |-> revs], frames)
  IN  /\ cards' = after.cards
      /\ revs' = after.revs
      /\ UNCHANGED <<mode, top, ghost>>

Speaking(text) == Hears(text) /\ Arrive(WhenHeard(text))
Settling(text) == Settles(text) /\ Arrive(WhenSettled(text))
Pausing == GoesQuiet /\ Arrive(WhenQuiet)

\* A page that missed too much is given a snapshot, whose cards have no revisions.
Resync ==
  /\ cards' = Newest(MaxCards, EngineCards)
  /\ revs' = [id \in 1..CardBound |-> 0]
  /\ UNCHANGED <<vars, mode, top, ghost>>

\* selectActiveCard(): pop-on does not show a card that is still spoken.
Selected ==
  LET showable == {i \in 1..Len(cards) : mode = "rollup" \/ cards[i].state # "live"}
      card     == cards[Greatest(showable)]
  IN  IF showable = {} THEN Nothing
      ELSE [id |-> card.id, rev |-> revs[card.id], text |-> card.text]

\* Faulty variant: when the effect is cleaned up, only its timer is.
GhostKept ==
  IF Selected.id = top.id /\ Selected.rev # top.rev THEN top ELSE ghost

\* The effect of useRetractGhost(): another revision of the painted card leaves the old
\* one behind; with any other change of card the crossfade that was going on is over.
GhostAfter ==
  IF Selected.id = top.id THEN (IF Selected.rev = top.rev THEN ghost ELSE top) ELSE Nothing

Paint ==
  /\ Selected # top
  /\ top' = Selected
  /\ ghost' = GhostAfter
  /\ UNCHANGED <<vars, mode, cards, revs>>

\* The timer of the crossfade.
Swapped ==
  /\ ghost # Nothing
  /\ ghost' = Nothing
  /\ UNCHANGED <<vars, mode, cards, revs, top>>

-----------------------------------------------------------------------------
ScreenNext ==
  \/ \E text \in Texts : Speaking(text) \/ Settling(text)
  \/ Pausing \/ Resync \/ Paint \/ Swapped

ScreenSpec == ScreenInit /\ [][ScreenNext]_allVars

-----------------------------------------------------------------------------
(* Properties                                                              *)

\* Types.
ScreenTypeOK ==
  /\ TypeOK
  /\ mode \in Modes
  /\ \A i \in 1..Len(cards) : cards[i].id \in 1..CardBound
  /\ Len(cards) <= MaxCards
  /\ revs \in [1..CardBound -> Nat]
  /\ {top, ghost} \subseteq [id : 0..CardBound, rev : Nat, text : Texts \cup {NoText}]

\* Every card was ended by a commit, but for the one being spoken.
AllCommitted == opened = Len(said) + (IF live = NoCard THEN 0 ELSE 1)

\* The newest sentence is on the air, whatever number of cards came before: the one
\* being spoken, or in pop-on the last one committed (caption-store.ts:117-131).  The
\* page keeps as many cards as this needs and not one more (caption-store.ts:31-32), so
\* it holds only while no card is given up in a silence; README, "An empty band", has
\* what happens then.
NewestOnAir ==
  AllCommitted /\ top = Selected => top.id = (IF mode = "popon" THEN Len(said) ELSE opened)

\* What fades out is another revision of the card on the air, and never an earlier
\* sentence "overlapping whatever comes next" (page.tsx:183-189), whatever arrives while
\* it fades.
GhostIsRevision ==
  ghost # Nothing => ghost.id = top.id /\ ghost.rev # top.rev
=============================================================================
