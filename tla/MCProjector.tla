---------------------------- MODULE MCProjector ----------------------------
(***************************************************************************)
(* A short session: two hypotheses, one target language.  The page has     *)
(* exactly the room the engine can need at once, one card more than the    *)
(* backlog and the live one, like the real one (8 = 6 + 2), and the relay  *)
(* remembers fewer frames than the run has, so that both ways of           *)
(* reattaching occur.                                                      *)
(***************************************************************************)
EXTENDS Projector

MCTexts == {"a", "b"}
=============================================================================
