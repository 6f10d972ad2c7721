---------------------------- MODULE EngineProofs ----------------------------
(***************************************************************************)
(* Proofs about the cards of the caption engine and of the captions page,  *)
(* and about the folds, greatest and least elements that the proofs of     *)
(* their users need.                                                       *)
(*                                                                         *)
(* The cards of the engine are told apart by their ids, which only grow,   *)
(* and every operation of Engine keeps them so (EngineInv). What a frame   *)
(* does to the page's store is given card by card (Restated, Added):       *)
(* SessionProofs follows one page over its link, ScreenProofs what a       *)
(* viewer sees of it.                                                      *)
(*                                                                         *)
(* A recursive definition, a fold among them, is given by CHOOSE: that     *)
(* there is a function to be chosen is shown by its least counterexample,  *)
(* of which a set of numbers always has one (LeastIn).                     *)
(***************************************************************************)
EXTENDS CaptionStore, SequencesExt, FiniteSetTheorems, SequenceTheorems, TLAPS

\* Every set of numbers that has one has a least one.
LEMMA LeastIn ==
  ASSUME NEW B, B \subseteq Nat, B # {}
  PROVE  \E n \in B : \A m \in B : n <= m
<1>1. PICK n \in B : \A m \in B : <<m, n>> \notin OpToRel(<, Nat)
  BY NatLessThanWellFounded, WFMin
<1>2. OpToRel(<, Nat) = {ss \in Nat \X Nat : ss[1] < ss[2]}
  BY DEF OpToRel
<1>3. ASSUME NEW m \in B, m < n PROVE FALSE
  <2>1. <<m, n>> \in {ss \in Nat \X Nat : ss[1] < ss[2]}
    BY <1>3
  <2>2. QED
    BY <1>1, <1>2, <2>1, Zenon
<1>4. QED
  BY <1>3

\* Induction from one number up to another.
LEMMA Climbs ==
  ASSUME NEW low \in Nat, NEW high \in Nat, NEW S, low \in S,
         \A m \in low + 1..high : m - 1 \in S => m \in S
  PROVE  \A m \in low..high : m \in S
<1> DEFINE B == {m \in low..high : m \notin S}
<1>1. SUFFICES ASSUME B # {} PROVE FALSE
  OBVIOUS
<1>2. PICK m \in B : \A k \in B : m <= k
  <2>1. B \subseteq Nat
    OBVIOUS
  <2> HIDE DEF B
  <2>2. QED
    BY <1>1, <2>1, LeastIn
<1>3. m \in low + 1..high /\ m - 1 \in low..high /\ ~(m <= m - 1)
  OBVIOUS
<1>4. m - 1 \in S
  BY <1>2, <1>3
<1>5. QED
  BY <1>3, <1>4

\* A set of numbers up to n that has one has a greatest one.
LEMMA GreatestIn ==
  ASSUME NEW n \in Nat, NEW S \in SUBSET (1..n), S # {}
  PROVE  /\ Max(S) \in S
         /\ \A m \in S : m <= Max(S)
<1> DEFINE B == {b \in 0..n : n - b \in S}
<1>1. B \subseteq Nat /\ B # {}
  <2>1. PICK m \in S : TRUE
    OBVIOUS
  <2>2. m \in 1..n /\ n - m \in 0..n /\ n - (n - m) = m
    BY <2>1
  <2>3. n - m \in {b \in 0..n : n - b \in S}
    BY <2>1, <2>2, Zenon
  <2>4. B # {}
    BY <2>3
  <2>5. \A b \in B : b \in Nat
    OBVIOUS
  <2>6. QED
    BY <2>4, <2>5
<1>2. PICK b \in B : \A c \in B : b <= c
  <2> HIDE DEF B
  <2>1. QED
    BY <1>1, LeastIn
<1>3. n - b \in S /\ b \in 0..n
  OBVIOUS
<1>4. ASSUME NEW m \in S PROVE n - b >= m
  <2>1. m \in 1..n /\ n - m \in 0..n /\ n - (n - m) = m
    OBVIOUS
  <2>2. n - m \in B
    BY <2>1
  <2>3. QED
    BY <1>2, <1>3, <2>1, <2>2
<1>5. QED
  <2>1. \E x \in S : \A y \in S : x >= y
    BY <1>3, <1>4
  <2>2. Max(S) \in S /\ \A y \in S : Max(S) >= y
    BY <2>1, Zenon DEF Max
  <2>3. QED
    BY <2>2

\* The greatest of the first numbers.
LEMMA GreatestUpTo ==
  ASSUME NEW m \in Nat \ {0}
  PROVE  Max(1..m) = m /\ 1..m # {} /\ (1..m) \ {m} = 1..m - 1
<1>1. 1..m \in SUBSET (1..m) /\ m \in 1..m
  OBVIOUS
<1>2. Max(1..m) \in 1..m /\ \A k \in 1..m : k <= Max(1..m)
  BY <1>1, GreatestIn
<1>3. (1..m) \ {m} = 1..m - 1
  OBVIOUS
<1>4. QED
  BY <1>1, <1>2, <1>3

FoldsTo(f, n, step, base) ==
  \A S \in SUBSET (1..n) :
    f[S] = IF S = {} THEN base ELSE step[<<Max(S), f[S \ {Max(S)}]>>]

\* A fold over positions exists.
LEMMA FoldExists ==
  ASSUME NEW X, NEW base \in X, NEW n \in Nat, NEW step \in [(1..n) \X X -> X]
  PROVE  \E f \in [SUBSET (1..n) -> X] : FoldsTo(f, n, step, base)
<1> DEFINE Done(m) == \E f \in [SUBSET (1..m) -> X] : FoldsTo(f, m, step, base)
           B == {m \in 0..n : ~Done(m)}
<1>1. SUFFICES ASSUME B # {} PROVE FALSE
  <2>1. n \in 0..n
    OBVIOUS
  <2>2. QED
    BY <2>1
<1>2. PICK m \in B : \A k \in B : m <= k
  <2>1. B \subseteq Nat
    OBVIOUS
  <2> HIDE DEF B
  <2>2. QED
    BY <1>1, <2>1, LeastIn
<1>3. Done(0)
  <2> DEFINE f == [S \in SUBSET (1..0) |-> base]
  <2>1. \A S \in SUBSET (1..0) : S = {}
    OBVIOUS
  <2>2. f \in [SUBSET (1..0) -> X]
    OBVIOUS
  <2>3. \A S \in SUBSET (1..0) : f[S] = base
    OBVIOUS
  <2> HIDE DEF f
  <2>4. FoldsTo(f, 0, step, base)
    BY <2>1, <2>3 DEF FoldsTo
  <2>5. QED
    BY <2>2, <2>4
<1>4. m \in 1..n /\ m \in Nat /\ m - 1 \in 0..n /\ ~(m <= m - 1)
  <2> HIDE DEF Done
  <2>1. m \in 0..n /\ m # 0
    BY <1>2, <1>3
  <2>2. QED
    BY <2>1
<1>5. Done(m - 1)
  <2> HIDE DEF Done
  <2>1. m - 1 \notin B
    <3> HIDE DEF B
    <3>1. QED
      BY <1>2, <1>4
  <2>2. QED
    BY <1>4, <2>1
<1>6. PICK g \in [SUBSET (1..m - 1) -> X] : FoldsTo(g, m - 1, step, base)
  BY <1>5
<1> DEFINE f == [S \in SUBSET (1..m) |-> IF m \in S THEN step[<<m, g[S \ {m}]>>] ELSE g[S]]
<1> HIDE DEF B, Done
<1>7. ASSUME NEW S \in SUBSET (1..m) PROVE S \ {m} \in SUBSET (1..m - 1)
  BY <1>4
<1>8. ASSUME NEW S \in SUBSET (1..m - 1) PROVE S \in SUBSET (1..m) /\ m \notin S
  BY <1>4
<1>9. f \in [SUBSET (1..m) -> X]
  <2>1. SUFFICES ASSUME NEW S \in SUBSET (1..m)
                 PROVE  (IF m \in S THEN step[<<m, g[S \ {m}]>>] ELSE g[S]) \in X
    OBVIOUS
  <2>2. CASE m \in S
    <3>1. g[S \ {m}] \in X
      BY <1>7
    <3>2. QED
      BY <1>4, <2>2, <3>1
  <2>3. CASE m \notin S
    <3>1. S \in SUBSET (1..m - 1)
      BY <1>7, <2>3
    <3>2. QED
      BY <2>3, <3>1
  <2>4. QED
    BY <2>2, <2>3
<1>10. ASSUME NEW S \in SUBSET (1..m - 1) PROVE f[S] = g[S]
  BY <1>8
<1>11. ASSUME NEW S \in SUBSET (1..m)
       PROVE  f[S] = IF S = {} THEN base ELSE step[<<Max(S), f[S \ {Max(S)}]>>]
  <2>1. CASE S = {}
    <3>1. S \in SUBSET (1..m - 1)
      BY <2>1
    <3>2. g[S] = base
      BY <1>6, <2>1, <3>1 DEF FoldsTo
    <3>3. QED
      BY <1>10, <2>1, <3>1, <3>2
  <2>2. CASE m \in S
    <3>1. Max(S) = m
      <4>1. m \in Nat /\ S # {}
        BY <1>4, <2>2
      <4>2. Max(S) \in S /\ \A k \in S : k <= Max(S)
        BY <4>1, GreatestIn
      <4>3. Max(S) \in 1..m /\ m <= Max(S)
        BY <2>2, <4>2
      <4>4. QED
        BY <4>1, <4>3
    <3>2. f[S] = step[<<m, g[S \ {m}]>>]
      BY <2>2
    <3>3. f[S \ {m}] = g[S \ {m}]
      BY <1>7, <1>10
    <3> HIDE DEF f
    <3>4. QED
      BY <2>2, <3>1, <3>2, <3>3
  <2>3. CASE S # {} /\ m \notin S
    <3>1. S \in SUBSET (1..m - 1)
      BY <1>7, <2>3
    <3>2. S \ {Max(S)} \in SUBSET (1..m - 1)
      BY <3>1
    <3>3. g[S] = step[<<Max(S), g[S \ {Max(S)}]>>]
      BY <1>6, <2>3, <3>1 DEF FoldsTo
    <3>4. f[S] = g[S] /\ f[S \ {Max(S)}] = g[S \ {Max(S)}]
      BY <1>10, <3>1, <3>2
    <3> HIDE DEF f
    <3>5. QED
      BY <2>3, <3>3, <3>4
  <2>4. QED
    BY <2>1, <2>2, <2>3
<1>12. Done(m)
  <2> HIDE DEF f
  <2>1. FoldsTo(f, m, step, base)
    BY <1>11 DEF FoldsTo
  <2>2. QED
    BY <1>9, <2>1 DEF Done
<1>13. QED
  BY <1>2, <1>12 DEF B

\* Of s the first d are gone, down to n.
IsCut(r, s, n, d) ==
  /\ Len(r) = Len(s) - d
  /\ d = 0 \/ Len(s) - d = n
  /\ \A i \in 1..Len(s) - d : d + i \in 1..Len(s) /\ r[i] = s[d + i]

\* Newest cuts a list at its beginning.
LEMMA NewestIs ==
  ASSUME NEW X, NEW n \in Nat, NEW s \in Seq(X)
  PROVE  Newest(n, s) \in Seq(X) /\ \E d \in 0..Len(s) : IsCut(Newest(n, s), s, n, d)
<1>1. Len(s) \in Nat /\ \A i \in 1..Len(s) : s[i] \in X
  OBVIOUS
<1>2. CASE Len(s) <= n
  <2>1. Newest(n, s) = s
    BY <1>2 DEF Newest
  <2>2. IsCut(Newest(n, s), s, n, 0) /\ 0 \in 0..Len(s)
    BY <1>1, <2>1 DEF IsCut
  <2>3. QED
    BY <2>1, <2>2
<1>3. CASE ~(Len(s) <= n)
  <2> DEFINE d == Len(s) - n
  <2>1. d \in 0..Len(s) /\ d \in Nat /\ Len(s) - d = n
    BY <1>1, <1>3
  <2>2. Newest(n, s) = SubSeq(s, d + 1, Len(s))
    BY <1>3 DEF Newest
  <2> HIDE DEF d
  <2>3. d + 1 \in Int /\ Len(s) \in Int /\ \A i \in d + 1..Len(s) : s[i] \in X
    BY <1>1, <2>1
  <2>4. /\ Newest(n, s) \in Seq(X)
        /\ Len(Newest(n, s)) = IF d + 1 <= Len(s) THEN Len(s) - (d + 1) + 1 ELSE 0
        /\ \A i \in 1..Len(s) - (d + 1) + 1 : Newest(n, s)[i] = s[d + 1 + i - 1]
    BY <2>2, <2>3, SubSeqProperties
  <2>5. Len(Newest(n, s)) = Len(s) - d
    BY <1>1, <2>1, <2>4
  <2>6. ASSUME NEW i \in 1..Len(s) - d
        PROVE  d + i \in 1..Len(s) /\ Newest(n, s)[i] = s[d + i]
    <3>1. i \in 1..Len(s) - (d + 1) + 1 /\ d + 1 + i - 1 = d + i /\ d + i \in 1..Len(s)
      BY <1>1, <2>1
    <3>2. QED
      BY <2>4, <3>1
  <2>7. IsCut(Newest(n, s), s, n, d)
    BY <2>1, <2>5, <2>6 DEF IsCut
  <2>8. QED
    BY <2>1, <2>4, <2>7
<1>4. QED
  BY <1>2, <1>3

-----------------------------------------------------------------------------
(* The cards *)

\* Cards are told apart by their ids, and one with a final translation is final.
CardsInv ==
  /\ live = NoCard \/ (live.id = opened /\ opened # 0)
  /\ \A i \in 1..Len(settled) :
       /\ settled[i].id \in 1..opened
       /\ settled[i].id = live.id => live = NoCard
  /\ \A i, j \in 1..Len(settled) : settled[i].id = settled[j].id => i = j
  /\ \A c \in SettledCards \cup {live} : \A l \in Langs : c.tr[l].final => c.trFinal

EngineInv == EngineTypeOK /\ CardsInv

\* The fields of a card.
LEMMA CardFields ==
  ASSUME NEW c
  PROVE  c \in Card => /\ c.id \in Nat /\ c.text \in Texts \cup {NoText}
                       /\ c.state \in {"live", "settled"} /\ c.trFinal \in BOOLEAN
                       /\ c.tr \in [Langs -> Translation]
  BY DEF Card

\* A new card.
LEMMA NewCardIs ==
  ASSUME NEW id \in Nat
  PROVE  /\ NewCard(id) \in Card /\ NewCard(id).id = id /\ NewCard(id).state = "live"
         /\ \A l \in Langs : ~NewCard(id).tr[l].final
<1>1. NoTranslation \in Translation /\ ~NoTranslation.final
  BY DEF NoTranslation, Translation
<1>2. QED
  BY <1>1 DEF NewCard, Card

\* The card that is none.
LEMMA NoCardIs == NoCard \in Card /\ NoCard.id = 0 /\ NoCard.state = "live" /\ \A l \in Langs : ~NoCard.tr[l].final
  BY NewCardIs DEF NoCard

\* The card an event is about.
LEMMA CurrentIs ==
  ASSUME EngineInv
  PROVE  /\ Current \in Card /\ Current.id \in Nat \ {0} /\ Current.state = "live"
         /\ Current.id = (IF live = NoCard THEN opened + 1 ELSE opened)
         /\ \A l \in Langs : Current.tr[l].final => Current.trFinal
         /\ \A i \in 1..Len(settled) : settled[i].id # Current.id
<1>1. opened \in Nat /\ live \in Card /\ live.state = "live"
  BY DEF EngineInv, EngineTypeOK
<1>2. CASE live = NoCard
  <2>1. Current = NewCard(opened + 1) /\ opened + 1 \in Nat
    BY <1>1, <1>2 DEF Current
  <2>2. \A i \in 1..Len(settled) : settled[i].id \in 1..opened
    BY DEF EngineInv, CardsInv
  <2>3. Current \in Card /\ Current.id = opened + 1 /\ Current.state = "live" /\ \A l \in Langs : ~Current.tr[l].final
    BY <2>1, NewCardIs
  <2>4. QED
    BY <1>1, <1>2, <2>2, <2>3
<1>3. CASE live # NoCard
  <2>1. Current = live
    BY <1>3 DEF Current
  <2>2. QED
    BY <1>1, <1>3, <2>1 DEF EngineInv, CardsInv
<1>4. QED
  BY <1>2, <1>3

\* onPartial().
LEMMA PartialKeeps ==
  ASSUME EngineInv, NEW text \in Texts, Partial(text)
  PROVE  /\ EngineInv' /\ settled' = settled /\ live' # NoCard
         /\ opened' = Current.id /\ live'.id = Current.id
<1> DEFINE c == [Current EXCEPT !.text = text]
<1>1. live' = c /\ settled' = settled /\ opened' = Current.id
  BY DEF Partial, OpensIfNone
<1>2. /\ c \in Card /\ c.id = Current.id /\ c.state = "live" /\ c.tr = Current.tr /\ c.trFinal = Current.trFinal
  BY CurrentIs DEF Card
<1> HIDE DEF c
<1>3. live' # NoCard
  BY <1>1, <1>2, CurrentIs, NoCardIs
<1>4. EngineTypeOK'
  <2>1. live' \in Card /\ live'.state = "live" /\ opened' \in Nat
    BY <1>1, <1>2, CurrentIs
  <2>2. settled' \in Seq(Card) /\ \A k \in SettledCards' : k.state = "settled" /\ k.text # NoText
    BY <1>1 DEF EngineInv, EngineTypeOK, SettledCards
  <2>3. QED
    BY <2>1, <2>2 DEF EngineTypeOK
<1>5. CardsInv'
  <2>1. live'.id = opened' /\ opened' # 0
    BY <1>1, <1>2, CurrentIs
  <2>2. \A i \in 1..Len(settled') : settled'[i].id \in 1..opened' /\ settled'[i].id # live'.id
    <3>1. SUFFICES ASSUME NEW i \in 1..Len(settled)
                   PROVE  settled[i].id \in 1..Current.id /\ settled[i].id # Current.id
      BY <1>1, <1>2
    <3>2. settled[i].id \in 1..opened /\ opened \in Nat
      BY DEF EngineInv, CardsInv, EngineTypeOK
    <3>3. QED
      BY <3>2, CurrentIs
  <2>3. \A i, j \in 1..Len(settled') : settled'[i].id = settled'[j].id => i = j
    BY <1>1 DEF EngineInv, CardsInv
  <2>4. \A k \in SettledCards' \cup {live'} : \A l \in Langs : k.tr[l].final => k.trFinal
    <3>1. SettledCards' = SettledCards
      BY <1>1 DEF SettledCards
    <3>2. \A l \in Langs : live'.tr[l].final => live'.trFinal
      BY <1>1, <1>2, CurrentIs
    <3>3. \A k \in SettledCards : \A l \in Langs : k.tr[l].final => k.trFinal
      BY DEF EngineInv, CardsInv
    <3>4. QED
      BY <3>1, <3>2, <3>3
  <2>5. QED
    BY <2>1, <2>2, <2>3, <2>4 DEF CardsInv
<1>6. QED
  BY <1>1, <1>2, <1>3, <1>4, <1>5 DEF EngineInv

\* The settled cards less the oldest, if there are too many.
Kept == IF Backlogged THEN Tail(settled) ELSE settled

\* What a commit keeps.
LEMMA KeptAre ==
  ASSUME settled \in Seq(Card)
  PROVE  /\ Kept \in Seq(Card) /\ Len(Kept) \in Nat /\ Len(settled) \in Nat
         /\ \E n \in 0..1 : /\ Len(Kept) = Len(settled) - n
                            /\ \A i \in 1..Len(Kept) : n + i \in 1..Len(settled) /\ Kept[i] = settled[n + i]
<1> DEFINE Fits(n) == /\ Len(Kept) = Len(settled) - n
                      /\ \A i \in 1..Len(Kept) : n + i \in 1..Len(settled) /\ Kept[i] = settled[n + i]
<1>1. Len(settled) \in Nat
  OBVIOUS
<1>2. CASE Backlogged
  <2>1. settled # <<>>
    BY <1>1, <1>2, EngineAssumption DEF Backlogged
  <2>2. /\ Tail(settled) \in Seq(Card) /\ Len(Tail(settled)) = Len(settled) - 1
        /\ \A i \in 1..Len(Tail(settled)) : Tail(settled)[i] = settled[1 + i]
    BY <2>1, HeadTailProperties
  <2>3. Len(settled) # 0 /\ Kept = Tail(settled)
    BY <1>2, <2>1, EmptySeq DEF Kept
  <2>4. \A i \in 1..Len(settled) - 1 : 1 + i \in 1..Len(settled)
    BY <1>1
  <2>5. Fits(1)
    BY <2>2, <2>3, <2>4
  <2>6. Kept \in Seq(Card) /\ Len(Kept) \in Nat
    BY <2>2, <2>3
  <2> HIDE DEF Fits
  <2>7. QED
    BY <1>1, <2>5, <2>6 DEF Fits
<1>3. CASE ~Backlogged
  <2>1. Kept = settled /\ Len(settled) = Len(settled) - 0
    BY <1>1, <1>3 DEF Kept
  <2>2. \A i \in 1..Len(settled) : 0 + i = i
    BY <1>1
  <2>3. Fits(0)
    BY <1>1, <2>1, <2>2
  <2>4. \E n \in 0..1 : Fits(n)
    <3> HIDE DEF Fits
    <3>1. QED
      BY <2>3
  <2>5. Kept \in Seq(Card) /\ Len(Kept) \in Nat
    BY <1>1, <2>1
  <2>6. QED
    BY <1>1, <2>4, <2>5
<1>4. QED
  BY <1>2, <1>3

\* onCommitted().
LEMMA CommitKeeps ==
  ASSUME EngineInv, NEW text \in Texts, Commit(text)
  PROVE  /\ EngineInv' /\ live' = NoCard /\ opened' = Current.id
         /\ \E c \in Card : /\ c.id = Current.id /\ c.text = text
                            /\ c.state = "settled" /\ c.tr = Current.tr
                            /\ SettledCards' \subseteq SettledCards \cup {c}
<1> DEFINE c == [Current EXCEPT !.text = text, !.state = "settled"]
<1>1. live' = NoCard /\ settled' = Append(Kept, c) /\ opened' = Current.id
  BY DEF Commit, OpensIfNone, Kept
<1>2. /\ c \in Card /\ c.id = Current.id /\ c.text = text /\ c.state = "settled"
      /\ c.tr = Current.tr /\ c.trFinal = Current.trFinal
  BY CurrentIs DEF Card
<1> HIDE DEF c
<1>3. settled \in Seq(Card) /\ opened \in Nat
  BY DEF EngineInv, EngineTypeOK
<1>4. PICK n \in 0..1 :
        /\ Len(Kept) = Len(settled) - n
        /\ \A i \in 1..Len(Kept) : n + i \in 1..Len(settled) /\ Kept[i] = settled[n + i]
  BY <1>3, KeptAre
<1>5. /\ settled' \in Seq(Card) /\ Len(settled') = Len(Kept) + 1 /\ settled'[Len(Kept) + 1] = c
      /\ \A i \in 1..Len(Kept) : settled'[i] = Kept[i]
  BY <1>1, <1>2, <1>3, KeptAre, AppendProperties
<1>6. ASSUME NEW i \in 1..Len(settled')
      PROVE  \/ i = Len(Kept) + 1 /\ settled'[i] = c
             \/ i \in 1..Len(Kept) /\ n + i \in 1..Len(settled) /\ settled'[i] = settled[n + i]
  <2>1. Len(Kept) \in Nat /\ i \in 1..Len(Kept) + 1
    BY <1>3, <1>5, KeptAre
  <2>2. i = Len(Kept) + 1 \/ i \in 1..Len(Kept)
    BY <2>1
  <2>3. QED
    BY <1>4, <1>5, <2>2
<1>7. SettledCards' \subseteq SettledCards \cup {c}
  BY <1>6 DEF SettledCards
<1>8. EngineTypeOK'
  <2>1. \A k \in SettledCards' : k.state = "settled" /\ k.text # NoText
    BY <1>2, <1>7, EngineAssumption DEF EngineInv, EngineTypeOK
  <2>2. QED
    BY <1>1, <1>5, <2>1, CurrentIs, NoCardIs DEF EngineTypeOK
<1>9. ASSUME NEW i \in 1..Len(settled) PROVE settled[i].id \in 1..Current.id /\ settled[i].id # Current.id
  <2>1. settled[i].id \in 1..opened
    BY DEF EngineInv, CardsInv
  <2>2. QED
    BY <1>3, <2>1, CurrentIs
<1>10. CardsInv'
  <2>1. \A i \in 1..Len(settled') : settled'[i].id \in 1..opened'
    <3>1. Current.id \in 1..Current.id
      BY CurrentIs
    <3>2. QED
      BY <1>1, <1>2, <1>6, <1>9, <3>1
  <2>2. ASSUME NEW i \in 1..Len(settled'), NEW j \in 1..Len(settled'), settled'[i].id = settled'[j].id
        PROVE  i = j
    <3>1. CASE i = Len(Kept) + 1 /\ j = Len(Kept) + 1
      BY <3>1
    <3>2. CASE i \in 1..Len(Kept) /\ j \in 1..Len(Kept)
      <4>1. /\ settled'[i] = settled[n + i] /\ settled'[j] = settled[n + j]
            /\ n + i \in 1..Len(settled) /\ n + j \in 1..Len(settled)
        BY <1>4, <1>5, <3>2
      <4>2. n + i = n + j
        BY <2>2, <4>1 DEF EngineInv, CardsInv
      <4>3. QED
        BY <4>2, <3>2
    <3>3. CASE i = Len(Kept) + 1 /\ j \in 1..Len(Kept)
      BY <1>2, <1>4, <1>5, <1>9, <2>2, <3>3
    <3>4. CASE j = Len(Kept) + 1 /\ i \in 1..Len(Kept)
      BY <1>2, <1>4, <1>5, <1>9, <2>2, <3>4
    <3>5. QED
      BY <1>6, <3>1, <3>2, <3>3, <3>4
  <2>3. \A k \in SettledCards' \cup {live'} : \A l \in Langs : k.tr[l].final => k.trFinal
    <3>1. \A l \in Langs : c.tr[l].final => c.trFinal
      BY <1>2, CurrentIs
    <3>2. \A k \in SettledCards : \A l \in Langs : k.tr[l].final => k.trFinal
      BY DEF EngineInv, CardsInv
    <3>3. QED
      BY <1>1, <1>7, <3>1, <3>2, NoCardIs
  <2>4. QED
    BY <1>1, <2>1, <2>2, <2>3 DEF CardsInv
<1>11. QED
  BY <1>1, <1>2, <1>7, <1>8, <1>10 DEF EngineInv

\* closeLive().
LEMMA ClosingKeeps ==
  ASSUME EngineInv, CloseLive
  PROVE  EngineInv' /\ live' = NoCard /\ settled' = settled /\ opened' = opened
<1>1. live' = NoCard /\ settled' = settled /\ opened' = opened
  BY DEF CloseLive
<1>2. SettledCards' = SettledCards
  BY <1>1 DEF SettledCards
<1>3. EngineTypeOK'
  BY <1>1, <1>2, NoCardIs DEF EngineInv, EngineTypeOK
<1>4. CardsInv'
  BY <1>1, <1>2, NoCardIs DEF EngineInv, CardsInv
<1>5. QED
  BY <1>1, <1>3, <1>4 DEF EngineInv

\* What a translation does to its card.
LEMMA TranslatedIs ==
  ASSUME NEW c \in Card, NEW lang \in Langs, NEW text \in Texts, NEW final \in BOOLEAN
  PROVE  /\ Translated(c, lang, text, final) \in Card
         /\ Translated(c, lang, text, final).id = c.id
         /\ Translated(c, lang, text, final).text = c.text
         /\ Translated(c, lang, text, final).state = c.state
         /\ Translated(c, lang, text, final).tr[lang] = [of |-> text, final |-> final]
         /\ \A l \in Langs : l # lang => Translated(c, lang, text, final).tr[l] = c.tr[l]
<1>1. [of |-> text, final |-> final] \in Translation
  BY DEF Translation
<1>2. QED
  BY <1>1 DEF Translated, Card

\* Only a final translation replaces a final one.
LEMMA TranslatedKeeps ==
  ASSUME NEW c \in Card, NEW lang \in Langs, NEW text \in Texts, NEW final \in BOOLEAN,
         Accepts(c, final), \A l \in Langs : c.tr[l].final => c.trFinal
  PROVE  \A l \in Langs : Translated(c, lang, text, final).tr[l].final =>
                            Translated(c, lang, text, final).trFinal
<1> DEFINE t == Translated(c, lang, text, final)
<1>1. t.trFinal <=> final
  BY DEF Translated, Card
<1>2. t.tr[lang].final <=> final
  BY DEF Translated, Card
<1>3. \A l \in Langs : l # lang => t.tr[l] = c.tr[l]
  BY DEF Translated, Card
<1> HIDE DEF t
<1>4. SUFFICES ASSUME NEW l \in Langs, t.tr[l].final PROVE t.trFinal
  BY DEF t
<1>5. CASE l = lang
  BY <1>1, <1>2, <1>4, <1>5
<1>6. CASE l # lang
  BY <1>1, <1>3, <1>4, <1>6 DEF Accepts
<1>7. QED
  BY <1>5, <1>6

\* applyTranslation().
LEMMA ApplyKeeps ==
  ASSUME EngineInv, NEW id \in Nat \ {0}, NEW lang \in Langs, NEW text \in Texts, NEW final \in BOOLEAN,
         ApplyTranslation(id, lang, text, final)
  PROVE  /\ EngineInv' /\ opened' = opened /\ live'.id = live.id /\ (live' = NoCard <=> live = NoCard)
         /\ \A t \in SettledCards' : \E c \in SettledCards :
              /\ t.id = c.id /\ t.text = c.text
              /\ \/ t = c /\ c.id # id
                 \/ /\ c.id = id /\ Accepts(c, final)
                    /\ t.tr[lang] = [of |-> text, final |-> final]
                    /\ \A l \in Langs : l # lang => t.tr[l] = c.tr[l]
<1>1. /\ live \in Card /\ live.state = "live" /\ settled \in Seq(Card) /\ opened \in Nat
      /\ Len(settled) \in Nat /\ \A i \in 1..Len(settled) : settled[i] \in Card
      /\ \A c \in SettledCards : c.state = "settled" /\ c.text # NoText
  BY DEF EngineInv, EngineTypeOK
<1>2. /\ live = NoCard \/ (live.id = opened /\ opened # 0)
      /\ \A i \in 1..Len(settled) :
           /\ settled[i].id \in 1..opened
           /\ settled[i].id = live.id => live = NoCard
      /\ \A i, j \in 1..Len(settled) : settled[i].id = settled[j].id => i = j
      /\ \A c \in SettledCards \cup {live} : \A l \in Langs : c.tr[l].final => c.trFinal
  BY DEF EngineInv, CardsInv
<1>3. opened' = opened
  BY DEF ApplyTranslation
<1>4. CASE /\ live.id = id /\ Accepts(live, final)
           /\ live' = Translated(live, lang, text, final) /\ settled' = settled
  <2>1. live # NoCard
    BY <1>4, NoCardIs
  <2>2. live' \in Card /\ live'.id = live.id /\ live'.state = "live"
    <3>1. live' = Translated(live, lang, text, final) /\ live \in Card
      BY <1>1, <1>4
    <3>2. live' \in Card
      BY <3>1 DEF Translated, Card, Translation
    <3>3. live'.id = live.id /\ live'.state = live.state
      BY <3>1 DEF Translated, Card
    <3>4. QED
      BY <1>1, <3>2, <3>3
  <2>3. live' # NoCard
    BY <1>4, <2>2, NoCardIs
  <2>4. SettledCards' = SettledCards
    BY <1>4 DEF SettledCards
  <2>5. \A l \in Langs : live'.tr[l].final => live'.trFinal
    <3>1. \A l \in Langs : live.tr[l].final => live.trFinal
      BY <1>2
    <3>2. QED
      BY <1>1, <1>4, <3>1, TranslatedKeeps
  <2>6. EngineTypeOK'
    BY <1>1, <1>3, <1>4, <2>2, <2>4 DEF EngineTypeOK
  <2>7. CardsInv'
    <3>1. \A c \in SettledCards' \cup {live'} : \A l \in Langs : c.tr[l].final => c.trFinal
      BY <1>2, <2>4, <2>5
    <3>2. QED
      BY <1>2, <1>3, <1>4, <2>1, <2>2, <3>1 DEF CardsInv
  <2>8. ASSUME NEW t \in SettledCards PROVE t.id # id
    BY <1>2, <1>4, <2>1 DEF SettledCards
  <2>9. QED
    BY <1>3, <2>1, <2>2, <2>3, <2>4, <2>6, <2>7, <2>8 DEF EngineInv
<1>5. CASE /\ live' = live
           /\ \E i \in 1..Len(settled) :
                /\ settled[i].id = id
                /\ Accepts(settled[i], final)
                /\ settled' = [settled EXCEPT ![i] = Translated(@, lang, text, final)]
  <2>1. PICK i \in 1..Len(settled) :
          /\ settled[i].id = id
          /\ Accepts(settled[i], final)
          /\ settled' = [settled EXCEPT ![i] = Translated(@, lang, text, final)]
    BY <1>5
  <2> DEFINE t == Translated(settled[i], lang, text, final)
  <2>2. /\ t \in Card /\ t.id = id /\ t.text = settled[i].text /\ t.state = settled[i].state
        /\ t.tr[lang] = [of |-> text, final |-> final]
        /\ \A l \in Langs : l # lang => t.tr[l] = settled[i].tr[l]
    BY <1>1, <2>1, TranslatedIs
  <2>3. \A l \in Langs : t.tr[l].final => t.trFinal
    <3>1. settled[i] \in Card /\ \A l \in Langs : settled[i].tr[l].final => settled[i].trFinal
      BY <1>1, <1>2 DEF SettledCards
    <3>2. QED
      BY <2>1, <3>1, TranslatedKeeps
  <2>4. settled' = [settled EXCEPT ![i] = t]
    BY <2>1
  <2> HIDE DEF t
  <2>5. /\ settled' \in Seq(Card) /\ Len(settled') = Len(settled) /\ settled'[i] = t
        /\ \A j \in 1..Len(settled) : j # i => settled'[j] = settled[j]
    BY <1>1, <2>2, <2>4, ExceptSeq
  <2>6. ASSUME NEW k \in SettledCards'
        PROVE  \/ k = t
               \/ \E j \in 1..Len(settled) : j # i /\ k = settled[j]
    BY <2>5 DEF SettledCards
  <2>7. \A k \in SettledCards' : k.state = "settled" /\ k.text # NoText
    BY <1>1, <2>2, <2>6 DEF SettledCards
  <2>8. EngineTypeOK'
    BY <1>1, <1>3, <1>5, <2>5, <2>7 DEF EngineTypeOK
  <2>9. \A j \in 1..Len(settled') : settled'[j].id = settled[j].id
    BY <2>1, <2>2, <2>5
  <2>10. CardsInv'
    <3>1. \A c \in SettledCards' \cup {live'} : \A l \in Langs : c.tr[l].final => c.trFinal
      <4>1. \A c \in SettledCards' \cup {live'} : c = t \/ c \in SettledCards \cup {live}
        BY <1>5, <2>6 DEF SettledCards
      <4>2. QED
        BY <1>2, <2>3, <4>1
    <3>2. QED
      BY <1>2, <1>3, <1>5, <2>5, <2>9, <3>1 DEF CardsInv
  <2>11. ASSUME NEW k \in SettledCards'
         PROVE  \E c \in SettledCards :
                  /\ k.id = c.id /\ k.text = c.text
                  /\ \/ k = c /\ c.id # id
                     \/ /\ c.id = id /\ Accepts(c, final)
                        /\ k.tr[lang] = [of |-> text, final |-> final]
                        /\ \A l \in Langs : l # lang => k.tr[l] = c.tr[l]
    <3>1. CASE k = t
      BY <2>1, <2>2, <3>1 DEF SettledCards
    <3>2. CASE k # t
      <4>1. PICK j \in 1..Len(settled) : j # i /\ k = settled[j]
        BY <2>6, <3>2
      <4>2. settled[j].id # id
        BY <1>2, <2>1, <4>1
      <4>3. QED
        BY <4>1, <4>2 DEF SettledCards
    <3>3. QED
      BY <3>1, <3>2
  <2>12. QED
    BY <1>3, <1>5, <2>8, <2>10, <2>11 DEF EngineInv
<1>6. QED
  BY <1>4, <1>5 DEF ApplyTranslation

\* Settled cards have ids of their own.
LEMMA IdsAreReal ==
  ASSUME EngineInv, NEW c \in SettledCards
  PROVE  c.id \in Nat \ {0} /\ c # NoCard /\ c \in Card /\ c.id # Current.id
<1>1. PICK i \in 1..Len(settled) : c = settled[i]
  BY DEF SettledCards
<1>2. c.id \in 1..opened /\ opened \in Nat /\ c \in Card
  BY <1>1 DEF EngineInv, CardsInv, EngineTypeOK
<1>3. QED
  BY <1>1, <1>2, CurrentIs, NoCardIs

LiveCards == IF live = NoCard THEN 0 ELSE 1

-----------------------------------------------------------------------------
(* The page *)

PageCard == [id : Nat, text : Texts \cup {NoText}, state : {"live", "settled", "fading"},
             tr : [Langs -> Translation], trFinal : BOOLEAN]

Messages == [kind : {"partial", "commit", "retract", "cardEnd"}, card : Nat,
             text : Texts \cup {NoText}, tr : [Langs -> Translation]]

\* A frame about a card.
LEMMA FrameIs ==
  ASSUME NEW kind \in {"partial", "commit", "retract", "cardEnd"}, NEW id \in Nat,
         NEW text \in Texts \cup {NoText}
  PROVE  /\ Frame(kind, id, text, NoTr) \in Messages
         /\ Frame(kind, id, text, NoTr).kind = kind /\ Frame(kind, id, text, NoTr).card = id
<1>1. NoTr \in [Langs -> Translation]
  BY DEF NoTr, NoTranslation, Translation
<1>2. QED
  BY <1>1 DEF Frame, Messages

\* A card of the page after a frame.
LEMMA UpdatedIs ==
  ASSUME NEW c \in PageCard, NEW msg \in Messages
  PROVE  /\ Updated(c, msg) \in PageCard
         /\ Updated(c, msg).id = c.id
         /\ Updated(c, msg).state = IF msg.kind = "cardEnd" THEN "fading"
                                    ELSE IF msg.kind = "partial" THEN "live" ELSE "settled"
<1>1. /\ msg.kind \in {"partial", "commit", "retract", "cardEnd"}
      /\ msg.text \in Texts \cup {NoText} /\ msg.tr \in [Langs -> Translation]
  BY DEF Messages
<1>2. CASE msg.kind = "cardEnd"
  BY <1>2 DEF Updated, PageCard
<1>3. CASE msg.kind # "cardEnd"
  <2> DEFINE tr == IF HasTr(msg) THEN msg.tr ELSE c.tr
             final == IF msg.kind = "partial" THEN FALSE ELSE HasTr(msg) \/ c.trFinal
             st == IF msg.kind = "partial" THEN "live" ELSE "settled"
  <2>1. tr \in [Langs -> Translation] /\ c.trFinal \in BOOLEAN
    BY <1>1 DEF PageCard
  <2>2. final \in BOOLEAN
    OBVIOUS
  <2>3. st \in {"live", "settled", "fading"}
    OBVIOUS
  <2>4. Updated(c, msg) = [c EXCEPT !.text = msg.text, !.tr = tr, !.state = st, !.trFinal = final]
    BY <1>3 DEF Updated
  <2> HIDE DEF tr, final
  <2>5. QED
    BY <1>1, <1>3, <2>1, <2>2, <2>3, <2>4 DEF PageCard
<1>4. QED
  BY <1>2, <1>3

\* A card that is new to the page.
LEMMA BlankIs ==
  ASSUME NEW id \in Nat
  PROVE  BlankCard(id) \in PageCard /\ BlankCard(id).id = id
  BY DEF BlankCard, NewCard, PageCard, NoTranslation, Translation

\* A page keeps what it knows.
LEMMA Restated ==
  ASSUME NEW store \in Seq(PageCard), NEW msg \in Messages, Has(store, msg.card)
  PROVE  /\ WithCard(store, msg) \in Seq(PageCard) /\ Len(WithCard(store, msg)) = Len(store)
         /\ \A i \in 1..Len(store) :
              WithCard(store, msg)[i] = IF store[i].id = msg.card THEN Updated(store[i], msg) ELSE store[i]
<1> DEFINE r == [i \in 1..Len(store) |-> IF store[i].id = msg.card THEN Updated(store[i], msg) ELSE store[i]]
<1>1. WithCard(store, msg) = r
  BY DEF WithCard
<1>2. Len(store) \in Nat /\ \A i \in 1..Len(store) : store[i] \in PageCard
  OBVIOUS
<1>3. \A i \in 1..Len(store) : r[i] \in PageCard
  BY <1>2, UpdatedIs
<1>4. r \in Seq(PageCard) /\ Len(r) = Len(store)
  BY <1>2, <1>3, IsASeq
<1>5. QED
  BY <1>1, <1>4

\* It makes room for what it does not know.
LEMMA Added ==
  ASSUME NEW store \in Seq(PageCard), NEW msg \in Messages, ~Has(store, msg.card)
  PROVE  \E d \in 0..Len(store) + 1 :
           /\ WithCard(store, msg) \in Seq(PageCard)
           /\ Len(WithCard(store, msg)) = Len(store) + 1 - d
           /\ d = 0 \/ Len(store) + 1 - d = MaxCards
           /\ \A i \in 1..Len(store) + 1 - d :
                /\ d + i \in 1..Len(store) + 1
                /\ d + i \in 1..Len(store) => WithCard(store, msg)[i] = store[d + i]
                /\ d + i = Len(store) + 1 =>
                     WithCard(store, msg)[i] = Updated(BlankCard(msg.card), msg)
<1> DEFINE new == Updated(BlankCard(msg.card), msg)
           all == Append(store, new)
<1>1. WithCard(store, msg) = Newest(MaxCards, all)
  BY DEF WithCard
<1>2. new \in PageCard
  <2>1. msg.card \in Nat
    BY DEF Messages
  <2>2. QED
    BY <2>1, BlankIs, UpdatedIs
<1> HIDE DEF new
<1>3. /\ all \in Seq(PageCard) /\ Len(all) = Len(store) + 1 /\ Len(store) \in Nat
      /\ all[Len(store) + 1] = new /\ \A i \in 1..Len(store) : all[i] = store[i]
  BY <1>2, AppendProperties
<1> HIDE DEF all
<1>4. Newest(MaxCards, all) \in Seq(PageCard) /\ \E d \in 0..Len(all) : IsCut(Newest(MaxCards, all), all, MaxCards, d)
  BY <1>3, CaptionStoreAssumption, NewestIs
<1> PICK d \in 0..Len(all) : IsCut(Newest(MaxCards, all), all, MaxCards, d)
  BY <1>4
<1>5. d \in 0..Len(store) + 1
  BY <1>3
<1>6. \A i \in 1..Len(store) + 1 - d :
        /\ d + i \in 1..Len(store) + 1
        /\ d + i \in 1..Len(store) => WithCard(store, msg)[i] = store[d + i]
        /\ d + i = Len(store) + 1 => WithCard(store, msg)[i] = new
  BY <1>1, <1>3 DEF IsCut
<1>7. Len(WithCard(store, msg)) = Len(store) + 1 - d /\ (d = 0 \/ Len(store) + 1 - d = MaxCards)
  BY <1>1, <1>3 DEF IsCut
<1>8. QED
  BY <1>1, <1>4, <1>5, <1>6, <1>7 DEF new

\* The cards of a snapshot.
LEMMA EngineCardsAre ==
  ASSUME EngineInv
  PROVE  /\ EngineCards \in Seq(PageCard) /\ Len(EngineCards) = Len(settled) + LiveCards
         /\ \A i \in 1..Len(settled) : EngineCards[i] = settled[i] /\ settled[i].state = "settled"
         /\ live # NoCard => EngineCards[Len(settled) + 1] = live
<1>1. /\ settled \in Seq(Card) /\ live \in Card /\ Len(settled) \in Nat
      /\ \A i \in 1..Len(settled) : settled[i].state = "settled"
  BY DEF EngineInv, EngineTypeOK, SettledCards
<1>2. Card \subseteq PageCard
  BY DEF Card, PageCard
<1>3. settled \in Seq(PageCard) /\ live \in PageCard
  <2>1. \A i \in 1..Len(settled) : settled[i] \in PageCard
    BY <1>1, <1>2
  <2>2. settled \in [1..Len(settled) -> Card]
    BY <1>1
  <2>3. settled = [i \in 1..Len(settled) |-> settled[i]]
    BY <2>2
  <2>4. [i \in 1..Len(settled) |-> settled[i]] \in Seq(PageCard)
    BY <1>1, <2>1, IsASeq
  <2>5. QED
    BY <1>1, <1>2, <2>3, <2>4
<1>4. CASE live = NoCard
  BY <1>1, <1>3, <1>4 DEF EngineCards, LiveCards
<1>5. CASE live # NoCard
  <2>1. EngineCards = Append(settled, live) /\ LiveCards = 1
    BY <1>5 DEF EngineCards, LiveCards
  <2>2. QED
    BY <1>1, <1>3, <2>1, AppendProperties
<1>6. QED
  BY <1>4, <1>5

\* A page stays a page.
LEMMA PageStays ==
  ASSUME NEW store \in Seq(PageCard), NEW msg \in Messages
  PROVE  WithCard(store, msg) \in Seq(PageCard)
  BY Restated, Added

\* What the relay says of a commit.
LEMMA WhenSettledIs ==
  ASSUME EngineInv, NEW text \in Texts
  PROVE  /\ WhenSettled(text) \in Seq(Messages) /\ Len(WhenSettled(text)) \in {1, 2}
         /\ WhenSettled(text)[1] \in Messages /\ WhenSettled(text)[1].card = Current.id
         /\ WhenSettled(text)[1].kind \in {"commit", "retract"}
         /\ ~Backlogged => Len(WhenSettled(text)) = 1
         /\ Backlogged => /\ Len(WhenSettled(text)) = 2 /\ Len(settled) \in Nat \ {0}
                          /\ WhenSettled(text)[2] \in Messages
                          /\ WhenSettled(text)[2].card = settled[1].id
                          /\ WhenSettled(text)[2].kind = "cardEnd"
<1>1. Current.id \in Nat /\ settled \in Seq(Card) /\ Backlog \in Nat
  BY CurrentIs, EngineAssumption DEF EngineInv, EngineTypeOK
<1> DEFINE kind == IF Current.text \in {NoText, text} THEN "commit" ELSE "retract"
           one == Frame(kind, Current.id, text, NoTr)
           end == Frame("cardEnd", Head(settled).id, NoText, NoTr)
<1>2. kind \in {"commit", "retract"}
  OBVIOUS
<1> HIDE DEF kind
<1>3. one \in Messages /\ one.kind = kind /\ one.card = Current.id
  BY <1>1, <1>2, FrameIs
<1> HIDE DEF one
<1>4. CASE ~Backlogged
  <2>1. WhenSettled(text) = <<one>> \o <<>>
    BY <1>4 DEF WhenSettled, one, kind
  <2>2. WhenSettled(text) = <<one>>
    BY <1>3, <2>1
  <2>3. QED
    BY <1>2, <1>3, <1>4, <2>2
<1>5. CASE Backlogged
  <2>1. Len(settled) \in Nat \ {0} /\ Head(settled) = settled[1] /\ settled[1] \in Card
    BY <1>1, <1>5 DEF Backlogged
  <2>2. settled[1].id \in Nat
    BY <2>1 DEF Card
  <2>3. end \in Messages /\ end.kind = "cardEnd" /\ end.card = settled[1].id
    BY <2>1, <2>2, FrameIs
  <2>4. WhenSettled(text) = <<one>> \o <<end>>
    BY <1>5 DEF WhenSettled, one, kind
  <2> HIDE DEF end
  <2>5. /\ WhenSettled(text) \in Seq(Messages) /\ Len(WhenSettled(text)) = 2
        /\ WhenSettled(text)[1] = one /\ WhenSettled(text)[2] = end
    <3>1. /\ <<one>> \in Seq(Messages) /\ Len(<<one>>) = 1 /\ <<one>>[1] = one
          /\ <<end>> \in Seq(Messages) /\ Len(<<end>>) = 1 /\ <<end>>[1] = end
      BY <1>3, <2>3
    <3>2. QED
      BY <2>4, <3>1, ConcatProperties
  <2>6. QED
    BY <1>2, <1>3, <1>5, <2>1, <2>3, <2>5
<1>6. QED
  BY <1>4, <1>5
=============================================================================
