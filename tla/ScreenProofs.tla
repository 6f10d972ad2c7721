---------------------------- MODULE ScreenProofs ----------------------------
(***************************************************************************)
(* Proofs about what a viewer sees and hears: the text that is solid and   *)
(* the sentences that are read (Captions), and what of the page's cards    *)
(* is on the screen (Screen), for any words, width, backlog, history and   *)
(* size of the page.                                                       *)
(*                                                                         *)
(* FlattenSeq joins the sentences one after the other, so one more         *)
(* sentence is one more at the end (FlattenAppend). NewestOnAir rests on   *)
(* a page that holds the newest cards without a gap, in the order of       *)
(* their ids, of which only the last may be spoken still (OnPage,          *)
(* NewestInv); a snapshot gives the page the same.                         *)
(*                                                                         *)
(* SolidGivesWay rests on the longest prefix that the last hypotheses      *)
(* agree about (StablePrefixIs): what was solid had room in the            *)
(* hypothesis it was taken from (SolidInv), and as long as each            *)
(* hypothesis begins with the one before, the same words are agreed about  *)
(* again (NothingDoubted).                                                 *)
(***************************************************************************)
EXTENDS Screen, EngineProofs

-----------------------------------------------------------------------------
(* Sequences one after the other *)

\* f joins the first n of the sequences of s.
Joins(f, n, s) == \A i \in 1..n : f[i] = IF i = 1 THEN s[i] ELSE f[i - 1] \o s[i]

\* There is a way to join them one by one.
LEMMA JoinExists ==
  ASSUME NEW X, NEW s \in Seq(Seq(X)), NEW n \in 1..Len(s)
  PROVE  \E f \in [1..n -> Seq(X)] : Joins(f, n, s)
<1> DEFINE Done(m) == \E f \in [1..m -> Seq(X)] : Joins(f, m, s)
           B == {m \in 1..n : ~Done(m)}
<1>1. Len(s) \in Nat /\ n \in Nat /\ \A i \in 1..n : s[i] \in Seq(X)
  OBVIOUS
<1>2. SUFFICES ASSUME B # {} PROVE FALSE
  <2> HIDE DEF Done
  <2>1. n \in 1..n
    BY <1>1
  <2>2. Done(n)
    BY <2>1
  <2>3. QED
    BY <2>2 DEF Done
<1>3. PICK m \in B : \A k \in B : m <= k
  <2>1. B \subseteq Nat
    OBVIOUS
  <2> HIDE DEF B
  <2>2. QED
    BY <1>2, <2>1, LeastIn
<1>4. m \in 1..n /\ m \in Nat /\ ~(m <= m - 1) /\ ~Done(m)
  <2> HIDE DEF Done
  <2>1. m \in 1..n /\ ~Done(m)
    BY <1>3
  <2>2. QED
    BY <1>1, <2>1
<1>5. Done(1)
  <2> DEFINE f == [i \in 1..1 |-> s[1]]
  <2>1. f \in [1..1 -> Seq(X)]
    BY <1>1
  <2>2. Joins(f, 1, s)
    BY DEF Joins
  <2> HIDE DEF f
  <2>3. QED
    BY <2>1, <2>2
<1>6. m # 1
  <2> HIDE DEF Done
  <2>1. QED
    BY <1>4, <1>5
<1>7. Done(m - 1)
  <2> HIDE DEF Done
  <2>1. m - 1 \in 1..n
    BY <1>1, <1>4, <1>6
  <2>2. m - 1 \notin B
    <3> HIDE DEF B
    <3>1. QED
      BY <1>3, <1>4
  <2>3. QED
    BY <2>1, <2>2
<1>8. PICK g \in [1..m - 1 -> Seq(X)] : Joins(g, m - 1, s)
  BY <1>7
<1> DEFINE f == [i \in 1..m |-> IF i = m THEN g[m - 1] \o s[m] ELSE g[i]]
<1>9. m - 1 \in 1..m - 1 /\ g[m - 1] \in Seq(X) /\ s[m] \in Seq(X)
  BY <1>1, <1>4, <1>6
<1>10. g[m - 1] \o s[m] \in Seq(X)
  BY <1>9, ConcatProperties
<1>11. f \in [1..m -> Seq(X)]
  BY <1>4, <1>10
<1>12. ASSUME NEW i \in 1..m PROVE f[i] = IF i = 1 THEN s[i] ELSE f[i - 1] \o s[i]
  <2>1. CASE i = m
    <3>1. m \in 1..m /\ m - 1 \in 1..m /\ m - 1 # m
      BY <1>4, <1>6
    <3>2. f[m] = g[m - 1] \o s[m] /\ f[m - 1] = g[m - 1]
      BY <3>1
    <3> HIDE DEF f
    <3>3. QED
      BY <1>6, <2>1, <3>2
  <2>2. CASE i # m
    <3>1. i \in 1..m - 1 /\ (i # 1 => i - 1 \in 1..m - 1)
      BY <1>4, <2>2
    <3>2. f[i] = g[i] /\ (i # 1 => f[i - 1] = g[i - 1])
      BY <1>4, <2>2, <3>1
    <3>3. g[i] = IF i = 1 THEN s[i] ELSE g[i - 1] \o s[i]
      BY <1>8, <3>1 DEF Joins
    <3> HIDE DEF f
    <3>4. QED
      BY <3>2, <3>3
  <2>3. QED
    BY <2>1, <2>2
<1>13. Joins(f, m, s)
  <2> HIDE DEF f
  <2>1. QED
    BY <1>12 DEF Joins
<1>14. Done(m)
  <2> HIDE DEF f
  <2>1. QED
    BY <1>11, <1>13
<1>15. QED
  <2> HIDE DEF Done
  <2>1. QED
    BY <1>4, <1>14

Agree(s, t, n) == \A i \in 1..n : s[i] = t[i]

\* There is one way to join them.
LEMMA JoinsOne ==
  ASSUME NEW n \in Nat, NEW s, NEW t, Agree(s, t, n), NEW f, NEW g, Joins(f, n, s), Joins(g, n, t)
  PROVE  Agree(f, g, n)
<1> USE DEF Agree
<1> DEFINE B == {i \in 1..n : f[i] # g[i]}
<1>1. SUFFICES ASSUME B # {} PROVE FALSE
  OBVIOUS
<1>2. PICK i \in B : \A k \in B : i <= k
  <2>1. B \subseteq Nat
    OBVIOUS
  <2> HIDE DEF B
  <2>2. QED
    BY <1>1, <2>1, LeastIn
<1>3. i \in 1..n /\ f[i] # g[i] /\ i \in Nat
  BY <1>2
<1>4. CASE i = 1
  BY <1>3, <1>4 DEF Joins
<1>5. CASE i # 1
  <2>1. i - 1 \in 1..n /\ ~(i <= i - 1)
    BY <1>3, <1>5
  <2>2. i - 1 \notin B
    <3> HIDE DEF B
    <3>1. QED
      BY <1>2, <2>1
  <2>3. f[i - 1] = g[i - 1]
    BY <2>1, <2>2
  <2>4. QED
    BY <1>3, <1>5, <2>3 DEF Joins
<1>6. QED
  BY <1>4, <1>5

\* FlattenSeq joins them one by one.
LEMMA FlattenIs ==
  ASSUME NEW X, NEW s \in Seq(Seq(X)), s # <<>>
  PROVE  \E f \in [1..Len(s) -> Seq(X)] : Joins(f, Len(s), s) /\ FlattenSeq(s) = f[Len(s)]
<1> DEFINE n == Len(s)
           IsIt(f) == f = [i \in 1..n |-> IF i = 1 THEN s[i] ELSE f[i - 1] \o s[i]]
           F == CHOOSE f : IsIt(f)
<1>1. n \in Nat \ {0} /\ n \in 1..Len(s)
  BY EmptySeq
<1>2. FlattenSeq(s) = F[n]
  BY <1>1 DEF FlattenSeq
<1>3. PICK f \in [1..n -> Seq(X)] : Joins(f, n, s)
  BY <1>1, JoinExists
<1>4. IsIt(f)
  <2>1. f = [i \in 1..n |-> f[i]]
    BY <1>3
  <2>2. QED
    BY <1>3, <2>1 DEF Joins
<1>5. IsIt(F)
  <2> HIDE DEF IsIt
  <2>1. QED
    BY <1>4
<1>6. Joins(F, n, s) /\ DOMAIN F = 1..n
  <2> HIDE DEF F
  <2>1. QED
    BY <1>5 DEF Joins
<1>7. F \in [1..n -> Seq(X)]
  <2> HIDE DEF F, n
  <2>1. n \in Nat /\ Agree(s, s, n)
    BY <1>1 DEF Agree
  <2>2. Agree(F, f, n)
    BY <1>3, <1>6, <2>1, JoinsOne
  <2>3. F = [i \in 1..n |-> F[i]]
    BY <1>5
  <2>4. QED
    BY <1>3, <2>2, <2>3 DEF Agree
<1>8. QED
  BY <1>2, <1>6, <1>7

\* One more sequence goes to the end.
LEMMA FlattenAppend ==
  ASSUME NEW X, NEW s \in Seq(Seq(X)), NEW t \in Seq(X)
  PROVE  FlattenSeq(s) \in Seq(X) /\ FlattenSeq(Append(s, t)) = FlattenSeq(s) \o t
<1> DEFINE p == Append(s, t)
<1>1. /\ p \in Seq(Seq(X)) /\ p # <<>> /\ Len(p) = Len(s) + 1 /\ p[Len(s) + 1] = t
      /\ \A i \in 1..Len(s) : p[i] = s[i]
  BY AppendProperties
<1>2. Len(s) \in Nat
  OBVIOUS
<1> HIDE DEF p
<1>3. PICK g \in [1..Len(p) -> Seq(X)] : Joins(g, Len(p), p) /\ FlattenSeq(p) = g[Len(p)]
  BY <1>1, FlattenIs
<1>4. CASE s = <<>>
  <2>1. Len(s) = 0 /\ FlattenSeq(s) = <<>>
    BY <1>4 DEF FlattenSeq
  <2>2. FlattenSeq(p) = t
    BY <1>1, <1>3, <2>1 DEF Joins
  <2>3. QED
    BY <2>1, <2>2, ConcatEmptySeq, EmptySeq DEF p
<1>5. CASE s # <<>>
  <2>1. PICK f \in [1..Len(s) -> Seq(X)] : Joins(f, Len(s), s) /\ FlattenSeq(s) = f[Len(s)]
    BY <1>5, FlattenIs
  <2>2. Len(s) # 0 /\ Len(s) \in 1..Len(s) /\ Len(p) # 1 /\ Len(p) - 1 = Len(s) /\ Len(p) \in 1..Len(p)
    BY <1>1, <1>2, <1>5, EmptySeq
  <2>3. Joins(g, Len(s), p)
    <3>1. \A i \in 1..Len(s) : i \in 1..Len(p)
      BY <1>1, <1>2
    <3>2. QED
      BY <1>3, <3>1 DEF Joins
  <2>4. g[Len(s)] = f[Len(s)]
    <3>1. Agree(p, s, Len(s))
      BY <1>1 DEF Agree
    <3>2. Agree(g, f, Len(s))
      BY <1>2, <2>1, <2>3, <3>1, JoinsOne
    <3>3. QED
      BY <2>2, <3>2 DEF Agree
  <2>5. g[Len(p)] = g[Len(s)] \o t
    BY <1>1, <1>3, <2>2 DEF Joins
  <2>6. QED
    BY <1>3, <2>1, <2>2, <2>4, <2>5 DEF p
<1>6. QED
  BY <1>4, <1>5

\* Nothing to join.
LEMMA FlattenNone == FlattenSeq(<<>>) = <<>>
  BY EmptySeq DEF FlattenSeq

-----------------------------------------------------------------------------
(* What is read *)

SentencesInv ==
  /\ spoken \in Seq(Seq(Texts)) /\ waiting \in Seq(Texts) /\ said \in Seq(Texts)
  /\ EverySentenceSpoken

\* A sentence is merged with those that wait, and read if they are long enough.
LEMMA ReadsKeeps ==
  ASSUME SentencesInv, NEW text \in Texts, Reads(text), said' = Append(said, text)
  PROVE  SentencesInv'
<1> DEFINE merged == Append(waiting, text)
           all == FlattenSeq(spoken)
<1>1. /\ spoken \in Seq(Seq(Texts)) /\ waiting \in Seq(Texts) /\ said \in Seq(Texts)
      /\ all \o waiting = said /\ \A i \in 1..Len(spoken) : ~TooShort(spoken[i])
  BY DEF SentencesInv, EverySentenceSpoken
<1>2. merged \in Seq(Texts) /\ merged = waiting \o <<text>> /\ <<text>> \in Seq(Texts)
  BY <1>1, AppendProperties, AppendIsConcat
<1>3. <<>> \in Seq(Texts)
  BY EmptySeq
<1>4. /\ all \in Seq(Texts)
      /\ \A m \in Seq(Texts) : FlattenSeq(Append(spoken, m)) = all \o m
  BY <1>1, <1>3, FlattenAppend
<1> HIDE DEF all
<1>5. said' \in Seq(Texts) /\ said' = (all \o waiting) \o <<text>>
  BY <1>1, AppendProperties, AppendIsConcat
<1>6. all \o merged = said'
  <2> HIDE DEF merged
  <2>1. (all \o waiting) \o <<text>> = all \o (waiting \o <<text>>)
    <3>1. all \in Seq(Texts) /\ waiting \in Seq(Texts) /\ <<text>> \in Seq(Texts)
      BY <1>1, <1>2, <1>4
    <3>2. QED
      BY <3>1, ConcatAssociative
  <2>2. QED
    BY <1>2, <1>5, <2>1, Zenon
<1>7. CASE TooShort(merged)
  <2>1. waiting' = merged /\ spoken' = spoken
    BY <1>7 DEF Reads
  <2> HIDE DEF merged
  <2>2. EverySentenceSpoken'
    BY <1>1, <1>6, <2>1 DEF EverySentenceSpoken, all
  <2>3. QED
    BY <1>1, <1>2, <1>5, <2>1, <2>2 DEF SentencesInv
<1>8. CASE ~TooShort(merged)
  <2>1. waiting' = <<>> /\ spoken' = Append(spoken, merged)
    BY <1>8 DEF Reads
  <2> HIDE DEF merged
  <2>2. /\ spoken' \in Seq(Seq(Texts)) /\ Len(spoken') = Len(spoken) + 1 /\ Len(spoken) \in Nat
        /\ spoken'[Len(spoken) + 1] = merged /\ \A i \in 1..Len(spoken) : spoken'[i] = spoken[i]
    BY <1>1, <1>2, <2>1, AppendProperties
  <2>3. \A i \in 1..Len(spoken') : ~TooShort(spoken'[i])
    <3>1. SUFFICES ASSUME NEW i \in 1..Len(spoken') PROVE ~TooShort(spoken'[i])
      OBVIOUS
    <3>2. CASE i = Len(spoken) + 1
      BY <1>8, <2>2, <3>2
    <3>3. CASE i # Len(spoken) + 1
      <4>1. i \in 1..Len(spoken)
        BY <2>2, <3>3
      <4>2. QED
        BY <1>1, <2>2, <4>1
    <3>4. QED
      BY <3>2, <3>3
  <2>4. FlattenSeq(spoken') \o waiting' = said'
    <3>1. FlattenSeq(spoken') = said'
      BY <1>2, <1>4, <1>6, <2>1
    <3>2. QED
      BY <1>5, <2>1, <3>1, ConcatEmptySeq
  <2>5. EverySentenceSpoken'
    BY <2>3, <2>4 DEF EverySentenceSpoken
  <2>6. QED
    BY <1>3, <1>5, <2>1, <2>2, <2>5 DEF SentencesInv
<1>9. QED
  BY <1>7, <1>8

\* What is read and what waits is what was said.
LEMMA SentencesHold == ScreenSpec => []SentencesInv
<1>1. ScreenInit => SentencesInv
  <2>1. SUFFICES ASSUME ScreenInit PROVE SentencesInv
    OBVIOUS
  <2>2. spoken = <<>> /\ waiting = <<>> /\ said = <<>>
    BY <2>1 DEF ScreenInit, Init
  <2>3. QED
    BY <2>2, EmptySeq, FlattenNone, ConcatEmptySeq DEF SentencesInv, EverySentenceSpoken
<1>2. SentencesInv /\ [ScreenNext]_allVars => SentencesInv'
  <2>1. SUFFICES ASSUME SentencesInv, [ScreenNext]_allVars PROVE SentencesInv'
    OBVIOUS
  <2>2. CASE UNCHANGED voiceVars
    <3>1. spoken' = spoken /\ waiting' = waiting /\ said' = said
      BY <2>2 DEF voiceVars
    <3>2. QED
      BY <2>1, <3>1 DEF SentencesInv, EverySentenceSpoken
  <2>3. ASSUME NEW text \in Texts, Settles(text) PROVE SentencesInv'
    <3>1. Reads(text) /\ said' = Append(said, text)
      BY <2>3 DEF Settles
    <3>2. QED
      BY <2>1, <3>1, ReadsKeeps
  <2>4. UNCHANGED voiceVars \/ \E text \in Texts : Settles(text)
    BY <2>1 DEF ScreenNext, Speaking, Settling, Pausing, Hears, GoesQuiet, Resync, Paint, Swapped, allVars, vars
  <2>5. QED
    BY <2>2, <2>3, <2>4
<1>3. QED
  BY <1>1, <1>2, PTL DEF ScreenSpec

\* No sentence is lost, read twice, out of turn or too short, in any run of short and long
\* ones (speech.ts, the minimum length; engine.ts, the pending sentences of onCommitted).
THEOREM ScreenEverySentenceSpoken == ScreenSpec => []EverySentenceSpoken
<1>1. SentencesInv => EverySentenceSpoken
  BY DEF SentencesInv
<1>2. QED
  BY <1>1, SentencesHold, PTL

\* What fades out is another revision of the card on the air, whatever arrives while it
\* fades (page.tsx:183-189).
THEOREM ScreenGhostIsRevision == ScreenSpec => []GhostIsRevision
<1>1. ScreenInit => GhostIsRevision
  BY DEF ScreenInit, GhostIsRevision
<1>2. GhostIsRevision /\ [ScreenNext]_allVars => GhostIsRevision'
  <2>1. SUFFICES ASSUME GhostIsRevision, [ScreenNext]_allVars PROVE GhostIsRevision'
    OBVIOUS
  <2>2. CASE UNCHANGED <<top, ghost>>
    BY <2>1, <2>2 DEF GhostIsRevision
  <2>3. CASE Paint
    BY <2>1, <2>3 DEF Paint, GhostAfter, GhostIsRevision
  <2>4. CASE Swapped
    BY <2>4 DEF Swapped, GhostIsRevision
  <2>5. UNCHANGED <<top, ghost>> \/ Paint \/ Swapped
    BY <2>1 DEF ScreenNext, Speaking, Settling, Pausing, Arrive, Resync, allVars, screenVars
  <2>6. QED
    BY <2>2, <2>3, <2>4, <2>5
<1>3. QED
  BY <1>1, <1>2, PTL DEF ScreenSpec

-----------------------------------------------------------------------------
(* The page *)

\* The newest cards are on the page, up to the last one, without a gap; those after
\* the n-th are still spoken.
OnPage(store, last, n) ==
  /\ store \in Seq(PageCard) /\ Len(store) <= last
  /\ \A i \in 1..Len(store) :
       /\ store[i].id = last - Len(store) + i
       /\ store[i].state = "live" <=> store[i].id > n

\* A frame about a card of the page, in full.
LEMMA RestatedOnPage ==
  ASSUME NEW last \in Nat, NEW n \in Nat, NEW m \in Nat, NEW store, OnPage(store, last, n),
         NEW msg \in Messages, msg.card \in last - Len(store) + 1..last,
         msg.kind = "partial" <=> msg.card > m,
         \A id \in 1..last : id # msg.card => (id > n <=> id > m)
  PROVE  OnPage(WithCard(store, msg), last, m) /\ Len(WithCard(store, msg)) = Len(store)
<1> DEFINE r == WithCard(store, msg)
<1>1. store \in Seq(PageCard) /\ Len(store) \in Nat /\ \A i \in 1..Len(store) : store[i] \in PageCard
  BY DEF OnPage
<1>2. Has(store, msg.card)
  <2> DEFINE i == msg.card - (last - Len(store))
  <2>1. i \in 1..Len(store) /\ last - Len(store) + i = msg.card
    BY <1>1
  <2>2. store[i].id = msg.card
    BY <2>1 DEF OnPage
  <2> HIDE DEF i
  <2>3. QED
    BY <2>1, <2>2 DEF Has
<1>3. /\ r \in Seq(PageCard) /\ Len(r) = Len(store)
      /\ \A i \in 1..Len(store) :
           r[i] = IF store[i].id = msg.card THEN Updated(store[i], msg) ELSE store[i]
  BY <1>1, <1>2, Restated
<1> HIDE DEF r
<1>4. ASSUME NEW i \in 1..Len(store)
      PROVE  r[i].id = last - Len(r) + i /\ (r[i].state = "live" <=> r[i].id > m)
  <2>1. store[i].id = last - Len(store) + i /\ (store[i].state = "live" <=> store[i].id > n)
    BY DEF OnPage
  <2>2. CASE store[i].id = msg.card
    <3>1. r[i] = Updated(store[i], msg)
      BY <1>3, <2>2
    <3>2. r[i].id = store[i].id /\ r[i].state = IF msg.kind = "cardEnd" THEN "fading"
                                                ELSE IF msg.kind = "partial" THEN "live" ELSE "settled"
      BY <1>1, <3>1, UpdatedIs
    <3>3. QED
      BY <1>3, <2>1, <2>2, <3>2
  <2>3. CASE store[i].id # msg.card
    <3>1. r[i] = store[i]
      BY <1>3, <2>3
    <3>2. store[i].id \in 1..last
      BY <1>1, <2>1 DEF OnPage
    <3>3. QED
      BY <1>3, <2>1, <2>3, <3>1, <3>2
  <2>4. QED
    BY <2>2, <2>3
<1>5. Len(r) <= last
  BY <1>3 DEF OnPage
<1>6. QED
  BY <1>3, <1>4, <1>5 DEF OnPage, r

\* A frame about a card it does not have.
LEMMA AddedOnPage ==
  ASSUME NEW last \in Nat, NEW n \in Nat, NEW m \in Nat, NEW store, OnPage(store, last, n),
         NEW msg \in Messages, msg.card = last + 1,
         msg.kind = "partial" <=> last + 1 > m, msg.kind # "cardEnd",
         \A id \in 1..last : id > n <=> id > m
  PROVE  /\ OnPage(WithCard(store, msg), last + 1, m)
         /\ Len(WithCard(store, msg)) \in {Len(store) + 1, MaxCards}
<1> DEFINE r == WithCard(store, msg)
           new == Updated(BlankCard(msg.card), msg)
<1>1. /\ store \in Seq(PageCard) /\ Len(store) \in Nat /\ Len(store) <= last
      /\ \A i \in 1..Len(store) : store[i] \in PageCard
  BY DEF OnPage
<1>2. ~Has(store, msg.card)
  <2>1. \A i \in 1..Len(store) : store[i].id = last - Len(store) + i
    BY DEF OnPage
  <2>2. QED
    BY <1>1, <2>1 DEF Has
<1>3. PICK d \in 0..Len(store) + 1 :
        /\ r \in Seq(PageCard) /\ Len(r) = Len(store) + 1 - d
        /\ d = 0 \/ Len(store) + 1 - d = MaxCards
        /\ \A i \in 1..Len(store) + 1 - d :
             /\ d + i \in 1..Len(store) + 1
             /\ d + i \in 1..Len(store) => r[i] = store[d + i]
             /\ d + i = Len(store) + 1 => r[i] = new
  BY <1>1, <1>2, Added
<1>4. new.id = last + 1 /\ (new.state = "live" <=> last + 1 > m)
  <2>1. BlankCard(msg.card) \in PageCard /\ BlankCard(msg.card).id = msg.card
    <3>1. msg.card \in Nat
      BY DEF Messages
    <3>2. QED
      BY <3>1, BlankIs
  <2> DEFINE blank == BlankCard(msg.card)
  <2>2. new = Updated(blank, msg)
    OBVIOUS
  <2> HIDE DEF new, blank
  <2>3. new.id = blank.id /\ new.state = IF msg.kind = "cardEnd" THEN "fading"
                                         ELSE IF msg.kind = "partial" THEN "live" ELSE "settled"
    BY <2>1, <2>2, UpdatedIs DEF blank
  <2>4. QED
    BY <2>1, <2>3 DEF blank
<1> HIDE DEF r, new
<1>5. ASSUME NEW i \in 1..Len(r)
      PROVE  r[i].id = last + 1 - Len(r) + i /\ (r[i].state = "live" <=> r[i].id > m)
  <2>1. d + i \in 1..Len(store) + 1 /\ last + 1 - Len(r) + i = last - Len(store) + (d + i)
    BY <1>1, <1>3
  <2>2. CASE d + i = Len(store) + 1
    <3>1. r[i] = new
      BY <1>3, <2>2
    <3>2. last - Len(store) + (d + i) = last + 1
      BY <1>1, <2>2
    <3>3. QED
      BY <1>4, <2>1, <3>1, <3>2
  <2>3. CASE d + i # Len(store) + 1
    <3>1. d + i \in 1..Len(store)
      BY <1>1, <2>1, <2>3
    <3>2. r[i] = store[d + i]
      BY <1>3, <3>1
    <3>3. /\ store[d + i].id = last - Len(store) + (d + i)
          /\ store[d + i].state = "live" <=> store[d + i].id > n
      BY <3>1 DEF OnPage
    <3>4. store[d + i].id \in 1..last
      BY <1>1, <3>1, <3>3
    <3>5. QED
      BY <2>1, <3>2, <3>3, <3>4
  <2>4. QED
    BY <2>2, <2>3
<1>6. Len(r) <= last + 1 /\ Len(r) \in {Len(store) + 1, MaxCards}
  BY <1>1, <1>3
<1>7. QED
  BY <1>3, <1>5, <1>6 DEF OnPage, r

-----------------------------------------------------------------------------
(* What arrives *)

Revisions == [1..CardBound -> Nat]
Pages == [cards : Seq(PageCard), revs : Revisions]

\* What one frame makes of the page.
Taken(s, msg) == [cards |-> WithCard(s.cards, msg), revs |-> Revised(s.revs, WithCard(s.cards, msg), msg)]

\* The page of a snapshot.
LEMMA TakenIsPage ==
  ASSUME NEW s \in Pages, NEW msg \in Messages
  PROVE  Taken(s, msg) \in Pages
<1>1. s.cards \in Seq(PageCard) /\ s.revs \in Revisions
  BY DEF Pages
<1>2. WithCard(s.cards, msg) \in Seq(PageCard)
  BY <1>1, PageStays
<1>3. Revised(s.revs, WithCard(s.cards, msg), msg) \in Revisions
  <2>1. \A rs \in Revisions : \A store : Revised(rs, store, msg) \in Revisions
    <3>1. SUFFICES ASSUME NEW rs \in Revisions, NEW store, NEW id \in 1..CardBound
                   PROVE  (IF ~Has(store, id) THEN 0
                           ELSE IF msg.kind = "retract" /\ msg.card = id THEN rs[id] + 1 ELSE rs[id]) \in Nat
      BY DEF Revised, Revisions
    <3>2. rs[id] \in Nat
      BY DEF Revisions
    <3>3. QED
      BY <3>2
  <2>2. QED
    BY <1>1, <2>1
<1>4. QED
  BY <1>2, <1>3 DEF Taken, Pages

\* The elements of a sequence of one or two, as an engine event sends.
LEMMA OneOrTwo ==
  ASSUME NEW X, NEW s \in Seq(X), Len(s) \in {1, 2}
  PROVE  Len(s) \in Nat \ {0} /\ DOMAIN s = 1..Len(s) /\ \A i \in 1..Len(s) : s[i] \in X
  OBVIOUS

\* The frames arrive one after the other.
LEMMA ArriveIs ==
  ASSUME cards \in Seq(PageCard), revs \in Revisions, NEW frames \in Seq(Messages),
         Len(frames) \in {1, 2}, Arrive(frames)
  PROVE  /\ cards' \in Seq(PageCard) /\ revs' \in Revisions
         /\ Len(frames) = 1 => cards' = WithCard(cards, frames[1])
         /\ Len(frames) = 2 => cards' = WithCard(WithCard(cards, frames[1]), frames[2])
<1> DEFINE n == Len(frames)
           step == [p \in (1..n) \X Pages |-> Taken(p[2], frames[p[1]])]
           base == [cards |-> cards, revs |-> revs]
<1>1. n \in Nat \ {0} /\ DOMAIN frames = 1..n /\ \A i \in 1..n : frames[i] \in Messages
  BY OneOrTwo
<1>2. step \in [(1..n) \X Pages -> Pages]
  <2> HIDE DEF n
  <2>1. \A i \in 1..n : \A s \in Pages : Taken(s, frames[i]) \in Pages
    BY <1>1, TakenIsPage
  <2>2. QED
    BY <2>1
<1>3. \A i \in 1..n : \A s \in Pages : step[<<i, s>>] = Taken(s, frames[i])
  OBVIOUS
<1>4. base \in Pages
  BY DEF Pages
<1> DEFINE IsFold(f) ==
      f = [S \in SUBSET DOMAIN frames |->
             IF S = {} THEN base ELSE Taken(f[S \ {Max(S)}], frames[Max(S)])]
           F == CHOOSE f : IsFold(f)
<1>5. cards' = F[DOMAIN frames].cards /\ revs' = F[DOMAIN frames].revs
  BY DEF Arrive, FoldLeft, MapThenFoldSet, Taken
<1>6. IsFold(F)
  <2>1. PICK f \in [SUBSET (1..n) -> Pages] : FoldsTo(f, n, step, base)
    <3> HIDE DEF step, base
    <3>1. QED
      BY <1>1, <1>2, <1>4, FoldExists
  <2>2. ASSUME NEW S \in SUBSET (1..n)
        PROVE  f[S] = IF S = {} THEN base ELSE Taken(f[S \ {Max(S)}], frames[Max(S)])
    <3>1. CASE S = {}
      BY <2>1, <3>1 DEF FoldsTo
    <3>2. CASE S # {}
      <4>1. Max(S) \in 1..n
        BY <1>1, <3>2, GreatestIn
      <4>2. f[S \ {Max(S)}] \in Pages
        BY <2>1
      <4>3. f[S] = step[<<Max(S), f[S \ {Max(S)}]>>]
        BY <2>1, <3>2 DEF FoldsTo
      <4> HIDE DEF step
      <4>4. QED
        BY <1>3, <3>2, <4>1, <4>2, <4>3
    <3>3. QED
      BY <3>1, <3>2
  <2>3. f = [S \in SUBSET (1..n) |-> f[S]]
    BY <2>1
  <2>4. IsFold(f)
    BY <1>1, <2>2, <2>3
  <2> HIDE DEF IsFold
  <2>5. QED
    BY <2>4
<1>7. \A S \in SUBSET (1..n) :
        F[S] = IF S = {} THEN base ELSE Taken(F[S \ {Max(S)}], frames[Max(S)])
  <2> HIDE DEF F, base
  <2>1. QED
    BY <1>1, <1>6
<1> HIDE DEF F, IsFold, step
<1>8. ASSUME NEW m \in 1..n
      PROVE  F[1..m] = Taken(IF m = 1 THEN base ELSE F[1..m - 1], frames[m])
  <2>1. 1..m \in SUBSET (1..n) /\ 1..m # {} /\ m \in 1..m /\ (1..m) \ {m} = 1..m - 1 /\ m \in Nat
    BY <1>1
  <2>2. Max(1..m) = m
    <3>1. Max(1..m) \in 1..m /\ \A k \in 1..m : k <= Max(1..m)
      <4>1. 1..m \in SUBSET (1..m)
        OBVIOUS
      <4>2. QED
        BY <2>1, <4>1, GreatestIn
    <3>2. QED
      BY <2>1, <3>1
  <2> HIDE DEF base
  <2>3. F[1..m] = Taken(F[1..m - 1], frames[m])
    BY <1>7, <2>1, <2>2
  <2>4. m = 1 => F[1..m - 1] = base
    <3>1. 1..0 = {} /\ {} \in SUBSET (1..n)
      OBVIOUS
    <3>2. F[1..0] = base
      BY <1>7, <3>1
    <3>3. QED
      BY <3>2
  <2>5. QED
    BY <2>3, <2>4
<1>9. F[1..1] = Taken(base, frames[1]) /\ F[1..1] \in Pages
  <2>1. 1 \in 1..n
    BY <1>1
  <2> HIDE DEF base, n
  <2>2. F[1..1] = Taken(base, frames[1])
    BY <1>8, <2>1
  <2>3. QED
    BY <1>1, <1>4, <2>1, <2>2, TakenIsPage
<1>10. n = 2 => F[1..2] = Taken(F[1..1], frames[2]) /\ F[1..2] \in Pages
  <2>1. SUFFICES ASSUME n = 2 PROVE F[1..2] = Taken(F[1..1], frames[2]) /\ F[1..2] \in Pages
    OBVIOUS
  <2>2. 2 \in 1..n /\ 2 # 1 /\ 2 - 1 = 1
    BY <2>1
  <2> HIDE DEF base, n
  <2>3. F[1..2] = Taken(F[1..1], frames[2])
    BY <1>8, <2>2
  <2>4. QED
    BY <1>1, <1>9, <2>2, <2>3, TakenIsPage
<1>11. cards' = F[1..n].cards /\ revs' = F[1..n].revs
  BY <1>1, <1>5
<1>12. CASE n = 1
  <2>1. cards' = WithCard(base.cards, frames[1])
    BY <1>9, <1>11, <1>12 DEF Taken
  <2>2. F[1..n] \in Pages
    BY <1>9, <1>12
  <2>3. QED
    BY <1>11, <1>12, <2>1, <2>2 DEF Pages
<1>13. CASE n = 2
  <2>1. F[1..1].cards = WithCard(base.cards, frames[1])
    BY <1>9 DEF Taken
  <2>2. cards' = WithCard(F[1..1].cards, frames[2])
    BY <1>10, <1>11, <1>13 DEF Taken
  <2>3. F[1..n] \in Pages
    BY <1>10, <1>13
  <2>4. QED
    BY <1>11, <1>13, <2>1, <2>2, <2>3 DEF Pages
<1>14. QED
  BY <1>12, <1>13

-----------------------------------------------------------------------------
(* The newest sentence *)

PageTypes ==
  /\ EngineInv /\ said \in Seq(Texts)
  /\ cards \in Seq(PageCard) /\ revs \in Revisions /\ mode \in Modes

\* The n-th sentence is the last one settled, and those before it are there without
\* a gap.
SettledAre(n) ==
  /\ Len(settled) <= Backlog + 1 /\ Len(settled) <= n
  /\ n # 0 => Len(settled) # 0
  /\ \A i \in 1..Len(settled) : settled[i].id = n - Len(settled) + i

\* The page has all that the engine has.
PageInv ==
  AllCommitted =>
    /\ SettledAre(Len(said)) /\ OnPage(cards, opened, Len(said))
    /\ Len(cards) >= Len(settled) + LiveCards

NewestInv == PageTypes /\ opened >= Len(said) + LiveCards /\ PageInv

\* The sizes of the page.
LEMMA Numbers ==
  ASSUME PageTypes
  PROVE  /\ opened \in Nat /\ Len(said) \in Nat /\ Len(settled) \in Nat /\ Len(cards) \in Nat
         /\ LiveCards \in {0, 1} /\ (LiveCards = 1 <=> live # NoCard)
         /\ Current.id \in Nat /\ Current.id = (IF live = NoCard THEN opened + 1 ELSE opened)
         /\ Backlog \in Nat /\ MaxCards \in Nat /\ MaxCards >= Backlog + 2
<1>1. opened \in Nat /\ settled \in Seq(Card) /\ said \in Seq(Texts) /\ cards \in Seq(PageCard)
  BY DEF PageTypes, EngineInv, EngineTypeOK
<1>2. QED
  BY <1>1, CurrentIs, EngineAssumption, CaptionStoreAssumption DEF PageTypes, LiveCards

\* A hypothesis: the live card is the newest.
LEMMA SpeakingKeeps ==
  ASSUME NewestInv, NEW text \in Texts, Speaking(text)
  PROVE  NewestInv'
<1>1. PageTypes /\ opened >= Len(said) + LiveCards /\ PageInv
  BY DEF NewestInv
<1> DEFINE msg == Frame("partial", Current.id, text, NoTr)
           n == Len(said)
<1>2. Partial(text) /\ said' = said /\ Arrive(<<msg>>) /\ mode' = mode
  BY DEF Speaking, Hears, voiceVars, WhenHeard, Arrive
<1>3. /\ EngineInv' /\ settled' = settled /\ live' # NoCard /\ opened' = Current.id /\ live'.id = Current.id
  BY <1>1, <1>2, PartialKeeps DEF PageTypes
<1>4. /\ opened \in Nat /\ n \in Nat /\ Len(settled) \in Nat /\ Len(cards) \in Nat
      /\ LiveCards \in {0, 1} /\ (LiveCards = 1 <=> live # NoCard)
      /\ Current.id \in Nat /\ Current.id = (IF live = NoCard THEN opened + 1 ELSE opened)
      /\ Backlog \in Nat /\ MaxCards \in Nat /\ MaxCards >= Backlog + 2
  BY <1>1, Numbers
<1>5. msg \in Messages /\ msg.kind = "partial" /\ msg.card = Current.id
  BY <1>4, FrameIs
<1> HIDE DEF msg, n
<1>6. cards' \in Seq(PageCard) /\ revs' \in Revisions /\ cards' = WithCard(cards, msg)
  <2>1. <<msg>> \in Seq(Messages) /\ Len(<<msg>>) = 1 /\ <<msg>>[1] = msg
    BY <1>5
  <2>2. QED
    BY <1>1, <1>2, <2>1, ArriveIs DEF PageTypes
<1>7. PageTypes'
  BY <1>1, <1>2, <1>3, <1>6 DEF PageTypes
<1>8. LiveCards' = 1 /\ Len(said)' = n
  BY <1>2, <1>3 DEF LiveCards, n
<1>9. opened' >= Len(said)' + LiveCards'
  BY <1>1, <1>3, <1>4, <1>8 DEF n
<1>10. ASSUME AllCommitted' PROVE PageInv'
  <2>1. opened' = n + 1
    BY <1>2, <1>3, <1>10 DEF AllCommitted, n
  <2>2. AllCommitted
    BY <1>3, <1>4, <2>1 DEF AllCommitted, n
  <2>3. /\ SettledAre(n) /\ OnPage(cards, opened, n) /\ Len(cards) >= Len(settled) + LiveCards
        /\ Len(settled) <= Backlog + 1
    BY <1>1, <2>2 DEF PageInv, n, SettledAre
  <2>4. SettledAre(n)'
    BY <1>2, <1>3, <2>3 DEF SettledAre, n
  <2>5. CASE live = NoCard
    <3>1. opened = n /\ msg.card = opened + 1 /\ LiveCards = 0
      BY <1>3, <1>4, <1>5, <2>1, <2>5
    <3>2. /\ OnPage(WithCard(cards, msg), opened + 1, n)
          /\ Len(WithCard(cards, msg)) \in {Len(cards) + 1, MaxCards}
      <4>1. /\ msg.kind = "partial" <=> opened + 1 > n
            /\ msg.kind # "cardEnd" /\ \A id \in 1..opened : id > n <=> id > n
        BY <1>4, <1>5, <3>1
      <4>2. QED
        BY <1>4, <1>5, <2>3, <3>1, <4>1, AddedOnPage
    <3>3. Len(cards') >= Len(settled) + 1
      BY <1>4, <1>6, <2>3, <3>1, <3>2
    <3>4. OnPage(cards', opened', n)
      BY <1>6, <2>1, <3>1, <3>2
    <3>5. QED
      BY <1>3, <1>8, <2>4, <3>3, <3>4 DEF PageInv, n
  <2>6. CASE live # NoCard
    <3>1. opened = n + 1 /\ msg.card = opened /\ LiveCards = 1
      BY <1>3, <1>4, <1>5, <2>1, <2>6
    <3>2. OnPage(WithCard(cards, msg), opened, n) /\ Len(WithCard(cards, msg)) = Len(cards)
      <4>1. /\ msg.kind = "partial" <=> msg.card > n
            /\ \A id \in 1..opened : id # msg.card => (id > n <=> id > n)
            /\ msg.card \in opened - Len(cards) + 1..opened
        BY <1>4, <1>5, <2>3, <3>1
      <4>2. opened \in Nat /\ n \in Nat /\ OnPage(cards, opened, n) /\ msg \in Messages
        BY <1>4, <1>5, <2>3
      <4>3. QED
        BY <4>1, <4>2, RestatedOnPage
    <3>3. Len(cards') >= Len(settled) + 1
      BY <1>4, <1>6, <2>3, <3>1, <3>2
    <3>4. OnPage(cards', opened', n)
      BY <1>6, <2>1, <3>1, <3>2
    <3>5. QED
      BY <1>3, <1>8, <2>4, <3>3, <3>4 DEF PageInv, n
  <2>7. QED
    BY <2>5, <2>6
<1>11. PageInv'
  BY <1>10 DEF PageInv
<1>12. QED
  BY <1>7, <1>9, <1>11 DEF NewestInv

\* A commit: the settled card is the newest.
LEMMA SettlingKeeps ==
  ASSUME NewestInv, NEW text \in Texts, Settling(text)
  PROVE  NewestInv'
<1>1. PageTypes /\ opened >= Len(said) + LiveCards /\ PageInv
  BY DEF NewestInv
<1> PICK n \in Nat : n = Len(said)
  BY <1>1, Numbers
<1> DEFINE frames == WhenSettled(text)
<1>2. Commit(text) /\ said' = Append(said, text) /\ Arrive(frames) /\ mode' = mode
  BY DEF Settling, Settles, Arrive
<1>3. EngineInv' /\ live' = NoCard /\ opened' = Current.id
  BY <1>1, <1>2, CommitKeeps DEF PageTypes
<1>4. /\ opened \in Nat /\ n \in Nat /\ Len(settled) \in Nat /\ Len(cards) \in Nat
      /\ LiveCards \in {0, 1} /\ (LiveCards = 1 <=> live # NoCard)
      /\ Current.id \in Nat /\ Current.id = (IF live = NoCard THEN opened + 1 ELSE opened)
      /\ Backlog \in Nat /\ MaxCards \in Nat /\ MaxCards >= Backlog + 2
  BY <1>1, Numbers
<1>5. /\ frames \in Seq(Messages) /\ Len(frames) \in {1, 2}
      /\ frames[1] \in Messages /\ frames[1].card = Current.id
      /\ frames[1].kind \in {"commit", "retract"}
      /\ ~Backlogged => Len(frames) = 1
      /\ Backlogged => /\ Len(frames) = 2 /\ Len(settled) \in Nat \ {0}
                       /\ frames[2] \in Messages /\ frames[2].card = settled[1].id
                       /\ frames[2].kind = "cardEnd"
  BY <1>1, WhenSettledIs DEF PageTypes
<1>6. said' \in Seq(Texts) /\ Len(said)' = n + 1
  BY <1>1, <1>2, AppendProperties DEF PageTypes
<1> HIDE DEF frames
<1>7. /\ cards' \in Seq(PageCard) /\ revs' \in Revisions
      /\ Len(frames) = 1 => cards' = WithCard(cards, frames[1])
      /\ Len(frames) = 2 => cards' = WithCard(WithCard(cards, frames[1]), frames[2])
  BY <1>1, <1>2, <1>5, ArriveIs DEF PageTypes
<1>8. PageTypes'
  BY <1>1, <1>2, <1>3, <1>6, <1>7 DEF PageTypes
<1>9. LiveCards' = 0
  BY <1>3 DEF LiveCards
<1>10. opened' >= Len(said)' + LiveCards'
  BY <1>1, <1>3, <1>4, <1>6, <1>9
<1>11. ASSUME AllCommitted' PROVE PageInv'
  <2>1. opened' = n + 1 /\ Current.id = n + 1
    BY <1>3, <1>4, <1>6, <1>11 DEF AllCommitted
  <2>2. opened = n + LiveCards /\ AllCommitted
    BY <1>4, <2>1 DEF AllCommitted
  <2>3. /\ SettledAre(n) /\ OnPage(cards, opened, n) /\ Len(cards) >= Len(settled) + LiveCards
        /\ Len(settled) <= Backlog + 1
    BY <1>1, <2>2 DEF PageInv, SettledAre
  <2> PICK first \in Messages : first = frames[1]
    BY <1>5
  <2> DEFINE page == WithCard(cards, first)
  <2>4. OnPage(page, n + 1, n + 1) /\ Len(page) >= Len(settled) + 1
    <3>1. \A id \in 1..n : id > n <=> id > n + 1
      BY <1>4
    <3>2. CASE live = NoCard
      <4>1. /\ opened = n /\ first.card = opened + 1 /\ first.kind # "cardEnd"
            /\ first.kind = "partial" <=> opened + 1 > n + 1
        BY <1>4, <1>5, <2>1, <2>2, <3>2
      <4>2. OnPage(page, opened + 1, n + 1) /\ Len(page) \in {Len(cards) + 1, MaxCards}
        BY <1>4, <1>5, <2>3, <3>1, <4>1, AddedOnPage
      <4>3. QED
        BY <1>4, <2>3, <3>2, <4>1, <4>2
    <3>3. CASE live # NoCard
      <4>1. /\ opened = n + 1 /\ first.card = opened /\ LiveCards = 1
            /\ first.kind = "partial" <=> first.card > n + 1
            /\ first.card \in opened - Len(cards) + 1..opened
        BY <1>4, <1>5, <2>1, <2>2, <2>3, <3>3
      <4>2. \A id \in 1..opened : id # first.card => (id > n <=> id > n + 1)
        BY <1>4, <4>1
      <4>3. OnPage(cards, opened, n)
        BY <2>3
      <4> PICK m \in Nat : m = n + 1
        BY <1>4
      <4> PICK last \in Nat : last = opened
        BY <1>4
      <4>4. /\ first.card \in last - Len(cards) + 1..last
            /\ first.kind = "partial" <=> first.card > m
            /\ \A id \in 1..last : id # first.card => (id > n <=> id > m)
        BY <4>1, <4>2
      <4>5. OnPage(cards, last, n)
        BY <4>3
      <4>6. OnPage(WithCard(cards, first), last, m) /\ Len(WithCard(cards, first)) = Len(cards)
        BY <4>4, <4>5, RestatedOnPage, SMTT(20)
      <4>7. OnPage(page, opened, m) /\ Len(page) = Len(cards)
        BY <4>6
      <4>8. QED
        BY <2>3, <4>1, <4>7
    <3>4. QED
      BY <3>2, <3>3
  <2> HIDE DEF page
  <2>5. OnPage(cards', n + 1, n + 1) /\ Len(cards') >= Len(settled) + 1
    <3>1. CASE ~Backlogged
      BY <1>5, <1>7, <2>4, <3>1 DEF page
    <3>2. CASE Backlogged
      <4> PICK second \in Messages : second = frames[2]
        BY <1>5, <3>2
      <4>1. cards' = WithCard(page, second)
        BY <1>5, <1>7, <3>2 DEF page
      <4>2. settled[1].id = n - Len(settled) + 1
        BY <1>5, <2>3, <3>2 DEF SettledAre
      <4>3. page \in Seq(PageCard) /\ Len(page) \in Nat
        BY <2>4 DEF OnPage
      <4>4. /\ second.card \in n + 1 - Len(page) + 1..n + 1
            /\ second.kind = "partial" <=> second.card > n + 1
        <5>1. second.card = n - Len(settled) + 1 /\ second.kind = "cardEnd" /\ Len(settled) \in Nat \ {0}
          BY <1>5, <3>2, <4>2
        <5>2. Len(page) >= Len(settled) + 1
          BY <2>4
        <5>3. QED
          BY <4>3, <5>1, <5>2
      <4>5. \A id \in 1..n + 1 : id # second.card => (id > n + 1 <=> id > n + 1)
        OBVIOUS
      <4>6. n + 1 \in Nat /\ second \in Messages
        BY <1>4, <1>5, <3>2
      <4>7. OnPage(cards', n + 1, n + 1) /\ Len(cards') = Len(page)
        BY <2>4, <4>1, <4>4, <4>5, <4>6, RestatedOnPage
      <4>8. QED
        BY <2>4, <4>7
    <3>3. QED
      BY <3>1, <3>2
  <2>6. SettledAre(n + 1)' /\ Len(settled') <= Len(settled) + 1
    <3>1. settled \in Seq(Card)
      BY <1>1 DEF PageTypes, EngineInv, EngineTypeOK
    <3> DEFINE c == [Current EXCEPT !.text = text, !.state = "settled"]
    <3>2. settled' = Append(Kept, c)
      BY <1>2 DEF Commit, Kept
    <3>3. c \in Card /\ c.id = n + 1
      BY <1>1, <2>1, CurrentIs DEF PageTypes, Card
    <3> HIDE DEF c
    <3>4. Kept \in Seq(Card) /\ Len(Kept) \in Nat
      BY <3>1, KeptAre
    <3>5. PICK d \in 0..1 :
            /\ Len(Kept) = Len(settled) - d
            /\ \A i \in 1..Len(Kept) : d + i \in 1..Len(settled) /\ Kept[i] = settled[d + i]
      BY <3>1, KeptAre
    <3>6. /\ Len(settled') = Len(Kept) + 1 /\ settled'[Len(Kept) + 1] = c
          /\ \A i \in 1..Len(Kept) : settled'[i] = Kept[i]
      BY <3>2, <3>3, <3>4, AppendProperties
    <3>7. Len(settled') <= Backlog + 1
      <4>1. Backlogged => d = 1
        <5>1. CASE Backlogged
          <6>1. settled # <<>>
            BY <1>4, <5>1, EmptySeq DEF Backlogged
          <6>2. Len(Kept) = Len(settled) - 1
            BY <3>1, <5>1, <6>1, HeadTailProperties DEF Kept
          <6>3. QED
            BY <1>4, <3>5, <6>2
        <5>2. QED
          BY <5>1
      <4>2. ~Backlogged => Len(settled) <= Backlog
        BY <1>4 DEF Backlogged
      <4>3. QED
        BY <1>4, <2>3, <3>5, <3>6, <4>1, <4>2
    <3>8. ASSUME NEW i \in 1..Len(settled') PROVE settled'[i].id = n + 1 - Len(settled') + i
      <4>1. CASE i = Len(Kept) + 1
        BY <1>4, <3>3, <3>4, <3>6, <4>1
      <4>2. CASE i # Len(Kept) + 1
        <5>1. i \in 1..Len(Kept)
          BY <3>4, <3>6, <4>2
        <5>2. settled'[i] = settled[d + i] /\ d + i \in 1..Len(settled)
          BY <3>5, <3>6, <5>1
        <5>3. settled'[i].id = n - Len(settled) + (d + i)
          BY <2>3, <5>2 DEF SettledAre
        <5>4. QED
          BY <1>4, <3>4, <3>5, <3>6, <5>3
      <4>3. QED
        BY <4>1, <4>2
    <3>9. Len(settled') <= n + 1 /\ Len(settled') # 0 /\ Len(settled') <= Len(settled) + 1
      BY <1>4, <2>3, <3>4, <3>5, <3>6 DEF SettledAre
    <3>10. SettledAre(n + 1)'
      BY <3>7, <3>8, <3>9, <1>6 DEF SettledAre
    <3>11. QED
      BY <3>9, <3>10
  <2>7. QED
    BY <1>4, <1>6, <1>9, <2>1, <2>5, <2>6 DEF PageInv
<1>12. PageInv'
  BY <1>11 DEF PageInv
<1>13. QED
  BY <1>8, <1>10, <1>12 DEF NewestInv

\* Silence: the live card is gone.
LEMMA PausingKeeps ==
  ASSUME NewestInv, Pausing
  PROVE  NewestInv'
<1>1. PageTypes /\ opened >= Len(said) + LiveCards
  BY DEF NewestInv
<1> PICK id \in Nat : id = live.id
  BY <1>1, CardFields DEF PageTypes, EngineInv, EngineTypeOK
<1> DEFINE msg == Frame("cardEnd", id, NoText, NoTr)
<1>2. CloseLive /\ said' = said /\ Arrive(<<msg>>) /\ mode' = mode
  BY DEF Pausing, GoesQuiet, voiceVars, WhenQuiet, Arrive
<1>3. msg \in Messages
  BY FrameIs
<1> HIDE DEF msg
<1>4. cards' \in Seq(PageCard) /\ revs' \in Revisions
  <2>1. <<msg>> \in Seq(Messages) /\ Len(<<msg>>) = 1 /\ <<msg>>[1] = msg
    BY <1>3
  <2>2. QED
    BY <1>1, <1>2, <1>3, <2>1, ArriveIs DEF PageTypes
<1>5. EngineInv' /\ live' = NoCard /\ live # NoCard /\ opened' = opened
  BY <1>1, <1>2, ClosingKeeps DEF PageTypes, CloseLive
<1>6. PageTypes'
  BY <1>1, <1>2, <1>4, <1>5 DEF PageTypes
<1>7. opened \in Nat /\ Len(said) \in Nat /\ LiveCards = 1 /\ LiveCards' = 0
  BY <1>1, <1>5, Numbers DEF LiveCards
<1>8. opened' >= Len(said)' + LiveCards' /\ opened' # Len(said)'
  BY <1>1, <1>2, <1>5, <1>7
<1>9. ~AllCommitted'
  BY <1>5, <1>7, <1>8, <1>2 DEF AllCommitted
<1>10. QED
  BY <1>6, <1>8, <1>9 DEF NewestInv, PageInv

\* A snapshot: the page has what the engine has.
LEMMA ResyncKeeps ==
  ASSUME NewestInv, Resync
  PROVE  NewestInv'
<1>1. PageTypes /\ opened >= Len(said) + LiveCards /\ PageInv
  BY DEF NewestInv
<1> PICK n \in Nat : n = Len(said)
  BY <1>1, Numbers
<1>2. /\ cards' = Newest(MaxCards, EngineCards) /\ revs' = [id \in 1..CardBound |-> 0] /\ mode' = mode
      /\ live' = live /\ settled' = settled /\ opened' = opened /\ said' = said
  BY DEF Resync, vars, engineVars, voiceVars
<1>3. /\ EngineCards \in Seq(PageCard) /\ Len(EngineCards) = Len(settled) + LiveCards
      /\ \A i \in 1..Len(settled) : EngineCards[i] = settled[i] /\ settled[i].state = "settled"
      /\ live # NoCard => EngineCards[Len(settled) + 1] = live
  BY <1>1, EngineCardsAre DEF PageTypes
<1>4. /\ opened \in Nat /\ Len(settled) \in Nat /\ LiveCards \in {0, 1}
      /\ (LiveCards = 1 <=> live # NoCard)
      /\ Backlog \in Nat /\ MaxCards \in Nat /\ MaxCards >= Backlog + 2
  BY <1>1, Numbers
<1>5. cards' \in Seq(PageCard)
  BY <1>2, <1>3, <1>4, NewestIs
<1>6. revs' \in Revisions
  BY <1>2 DEF Revisions
<1>7. EngineInv'
  BY <1>1, <1>2 DEF PageTypes, EngineInv, EngineTypeOK, CardsInv, SettledCards
<1>8. PageTypes' /\ LiveCards' = LiveCards
  BY <1>1, <1>2, <1>5, <1>6, <1>7 DEF PageTypes, LiveCards
<1>9. ASSUME AllCommitted' PROVE PageInv'
  <2>1. AllCommitted /\ opened = n + LiveCards
    BY <1>2, <1>9 DEF AllCommitted, LiveCards
  <2>2. SettledAre(n)
    BY <1>1, <2>1 DEF PageInv
  <2>3. SettledAre(n)'
    BY <1>2, <2>2 DEF SettledAre
  <2>4. cards' = EngineCards
    <3>1. Len(EngineCards) <= MaxCards
      BY <1>3, <1>4, <2>2 DEF SettledAre
    <3>2. QED
      BY <1>2, <3>1 DEF Newest
  <2>5. ASSUME NEW i \in 1..Len(EngineCards)
        PROVE  /\ EngineCards[i].id = opened - Len(EngineCards) + i
               /\ EngineCards[i].state = "live" <=> EngineCards[i].id > n
    <3>1. CASE i \in 1..Len(settled)
      <4>1. EngineCards[i].id = n - Len(settled) + i /\ EngineCards[i].state = "settled"
        BY <1>3, <2>2, <3>1 DEF SettledAre
      <4>2. QED
        BY <1>3, <1>4, <2>1, <3>1, <4>1
    <3>2. CASE i \notin 1..Len(settled)
      <4>1. live # NoCard /\ i = Len(settled) + 1 /\ LiveCards = 1
        BY <1>3, <1>4, <3>2
      <4>2. EngineCards[i] = live /\ live.id = opened /\ live.state = "live"
        BY <1>1, <1>3, <4>1 DEF PageTypes, EngineInv, EngineTypeOK, CardsInv
      <4>3. QED
        BY <1>3, <1>4, <2>1, <4>1, <4>2
    <3>3. QED
      BY <3>1, <3>2
  <2>6. Len(EngineCards) <= opened
    BY <1>3, <1>4, <2>1, <2>2 DEF SettledAre
  <2>7. OnPage(EngineCards, opened, n)
    BY <1>3, <2>5, <2>6 DEF OnPage
  <2>8. Len(cards') >= Len(settled) + LiveCards
    BY <1>3, <1>4, <2>4
  <2>9. OnPage(cards', opened', n)
    BY <1>2, <2>4, <2>7
  <2>10. QED
    BY <1>2, <1>8, <2>3, <2>8, <2>9 DEF PageInv
<1>10. PageInv'
  BY <1>9 DEF PageInv
<1>11. QED
  BY <1>1, <1>2, <1>8, <1>10 DEF NewestInv

\* The invariant of the page.
LEMMA NewestHolds == ScreenSpec => []NewestInv
<1>1. ASSUME ScreenInit PROVE NewestInv
  <2>1. /\ live = NoCard /\ settled = <<>> /\ opened = 0 /\ said = <<>> /\ cards = <<>>
        /\ revs = [id \in 1..CardBound |-> 0] /\ mode \in Modes
    BY <1>1 DEF ScreenInit, Init, EngineInit
  <2>2. EngineInv
    BY <2>1, NoCardIs DEF EngineInv, EngineTypeOK, CardsInv, SettledCards
  <2>3. PageTypes
    BY <2>1, <2>2 DEF PageTypes, Revisions
  <2>4. Backlog \in Nat /\ LiveCards = 0 /\ Len(said) = 0 /\ Len(settled) = 0 /\ Len(cards) = 0
    BY <2>1, EngineAssumption DEF LiveCards
  <2>5. SettledAre(0) /\ OnPage(cards, opened, 0)
    BY <2>1, <2>3, <2>4 DEF SettledAre, OnPage, PageTypes
  <2>6. QED
    BY <2>1, <2>3, <2>4, <2>5 DEF NewestInv, PageInv
<1>2. ASSUME NewestInv, [ScreenNext]_allVars PROVE NewestInv'
  <2>1. ASSUME NEW text \in Texts, Speaking(text) PROVE NewestInv'
    BY <1>2, <2>1, SpeakingKeeps
  <2>2. ASSUME NEW text \in Texts, Settling(text) PROVE NewestInv'
    BY <1>2, <2>2, SettlingKeeps
  <2>3. CASE Pausing
    BY <1>2, <2>3, PausingKeeps
  <2>4. CASE Resync
    BY <1>2, <2>4, ResyncKeeps
  <2>5. CASE UNCHANGED <<vars, mode, cards, revs>>
    BY <1>2, <2>5 DEF NewestInv, PageTypes, PageInv, AllCommitted, LiveCards, SettledAre,
      EngineInv, EngineTypeOK, CardsInv, SettledCards, vars, engineVars, voiceVars
  <2>6. QED
    BY <1>2, <2>1, <2>2, <2>3, <2>4, <2>5 DEF ScreenNext, Paint, Swapped, allVars, screenVars
<1>3. QED
  BY <1>1, <1>2, PTL DEF ScreenSpec

\* The last of the cards that may be shown.
LEMMA GreatestIs ==
  ASSUME NEW S \in SUBSET Nat, NEW k \in S, \A i \in S : i <= k
  PROVE  Greatest(S) = k
<1>1. \E j \in S : \A i \in S : j >= i
  OBVIOUS
<1>2. Greatest(S) \in S /\ \A i \in S : Greatest(S) >= i
  BY <1>1 DEF Greatest
<1>3. Greatest(S) \in Nat /\ k \in Nat /\ Greatest(S) <= k /\ Greatest(S) >= k
  BY <1>2
<1>4. QED
  BY <1>3

\* Which card is selected (selectActiveCard).
LEMMA SelectedIs ==
  ASSUME NewestInv, AllCommitted
  PROVE  Selected.id = (IF mode = "popon" THEN Len(said) ELSE opened)
<1>1. PageTypes /\ PageInv
  BY DEF NewestInv
<1> PICK n \in Nat : n = Len(said)
  BY <1>1, Numbers
<1>2. /\ opened \in Nat /\ Len(settled) \in Nat /\ Len(cards) \in Nat /\ LiveCards \in {0, 1}
      /\ (LiveCards = 1 <=> live # NoCard) /\ mode \in {"rollup", "popon"}
  BY <1>1, Numbers DEF PageTypes, Modes
<1>3. /\ SettledAre(n) /\ OnPage(cards, opened, n) /\ Len(cards) >= Len(settled) + LiveCards
      /\ opened = n + LiveCards
  BY <1>1 DEF PageInv, AllCommitted, LiveCards
<1>4. \A i \in 1..Len(cards) : /\ cards[i].id = opened - Len(cards) + i
                               /\ cards[i].state = "live" <=> cards[i].id > n
  BY <1>3 DEF OnPage
<1>5. Len(cards) <= opened /\ (n # 0 => Len(settled) # 0)
  BY <1>3 DEF OnPage, SettledAre
<1> DEFINE showable == {i \in 1..Len(cards) : mode = "rollup" \/ cards[i].state # "live"}
           k == IF mode = "popon" THEN Len(cards) - LiveCards ELSE Len(cards)
<1>6. k \in Nat /\ k <= Len(cards)
  BY <1>2, <1>3
<1>7. showable = 1..k
  <2>1. CASE mode = "rollup"
    <3>1. k = Len(cards) /\ showable = {i \in 1..Len(cards) : TRUE}
      BY <2>1
    <3> HIDE DEF k, showable
    <3>2. QED
      BY <3>1
  <2>2. CASE mode = "popon"
    <3>1. \A i \in 1..Len(cards) : cards[i].state # "live" <=> i <= k
      <4>1. k = Len(cards) - LiveCards
        BY <2>2
      <4> HIDE DEF k, showable
      <4>2. SUFFICES ASSUME NEW i \in 1..Len(cards) PROVE cards[i].state # "live" <=> i <= k
        OBVIOUS
      <4>3. cards[i].state = "live" <=> opened - Len(cards) + i > n
        BY <1>4
      <4> PICK size \in Nat, last \in Nat, upto \in Nat : size = Len(cards) /\ last = opened /\ upto = k
        BY <1>2, <1>6
      <4>4. last = n + LiveCards /\ upto = size - LiveCards /\ i \in Nat
        BY <1>2, <1>3, <4>1
      <4>5. last - size + i > n <=> ~(i <= upto)
        BY <1>2, <4>4
      <4>6. QED
        BY <4>3, <4>5
    <3>2. showable = {i \in 1..Len(cards) : i <= k}
      BY <2>2, <3>1
    <3> HIDE DEF k
    <3>3. QED
      BY <1>2, <1>6, <3>2
  <2>3. QED
    BY <1>2, <2>1, <2>2
<1>8. Selected = IF showable = {} THEN Nothing
                 ELSE [id |-> cards[Greatest(showable)].id, rev |-> revs[cards[Greatest(showable)].id],
                       text |-> cards[Greatest(showable)].text]
  BY DEF Selected
<1>9. k = 0 => IF mode = "popon" THEN n = 0 ELSE opened = 0
  BY <1>2, <1>3, <1>5
<1>10. CASE k = 0
  <2>1. showable = {}
    BY <1>7, <1>10
  <2>2. Selected.id = 0
    BY <1>8, <2>1 DEF Nothing
  <2>3. QED
    BY <1>9, <1>10, <2>2
<1>11. CASE k # 0
  <2>1. showable # {} /\ Greatest(showable) = k /\ k \in 1..Len(cards)
    <3> HIDE DEF showable, k
    <3>1. k \in showable /\ showable \in SUBSET Nat /\ \A i \in showable : i <= k
      BY <1>6, <1>7, <1>11
    <3>2. QED
      BY <1>2, <1>6, <1>11, <3>1, GreatestIs
  <2>2. Selected.id = cards[k].id
    <3> HIDE DEF showable, k
    <3>1. QED
      BY <1>8, <2>1
  <2>3. cards[k].id = opened - Len(cards) + k
    <3> HIDE DEF k
    <3>1. QED
      BY <1>4, <2>1
  <2>4. opened - Len(cards) + k = (IF mode = "popon" THEN n ELSE opened)
    <3> PICK shown \in Nat : shown = Len(cards)
      BY <1>2
    <3> PICK l \in Nat : l = LiveCards
      BY <1>2
    <3>1. opened = n + l
      BY <1>3
    <3>2. k = IF mode = "popon" THEN shown - l ELSE shown
      OBVIOUS
    <3> HIDE DEF k
    <3>3. CASE mode = "popon"
      BY <3>1, <3>2, <3>3
    <3>4. CASE mode # "popon"
      BY <1>2, <3>1, <3>2, <3>4
    <3>5. QED
      BY <3>3, <3>4
  <2>5. QED
    BY <2>2, <2>3, <2>4
<1>12. QED
  BY <1>10, <1>11

\* The newest sentence is on the air as long as every card ended with a commit, however
\* many sentences came before and however many snapshots (selectActiveCard,
\* caption-store.ts:117-131, and MAX_CARDS, caption-store.ts:31-32).
THEOREM ScreenNewestOnAir == ScreenSpec => []NewestOnAir
<1>1. ASSUME NewestInv PROVE NewestOnAir
  BY <1>1, SelectedIs DEF NewestOnAir
<1>2. QED
  BY <1>1, NewestHolds, PTL

-----------------------------------------------------------------------------
(* What is solid *)

\* A set of numbers up to a bound has a greatest one.
LEMMA GreatestExists ==
  ASSUME NEW n \in Nat, NEW S \in SUBSET (0..n), S # {}
  PROVE  Greatest(S) \in S /\ \A m \in S : m <= Greatest(S)
<1> DEFINE Rest == {n - m : m \in S}
<1>1. Rest \subseteq Nat /\ Rest # {}
  <2>1. \A m \in S : n - m \in Nat
    OBVIOUS
  <2>2. PICK m \in S : TRUE
    OBVIOUS
  <2>3. n - m \in Rest
    OBVIOUS
  <2>4. QED
    BY <2>1, <2>3
<1>2. PICK r \in Rest : \A x \in Rest : r <= x
  <2> HIDE DEF Rest
  <2>1. QED
    BY <1>1, LeastIn
<1>3. PICK k \in S : r = n - k
  BY <1>2
<1>4. ASSUME NEW m \in S PROVE k >= m
  <2>1. m \in Nat /\ k \in Nat
    OBVIOUS
  <2>2. n - k <= n - m
    <3>1. n - m \in Rest
      OBVIOUS
    <3>2. QED
      BY <1>2, <1>3, <3>1
  <2>3. QED
    BY <2>1, <2>2
<1>5. Greatest(S) \in S /\ \A m \in S : Greatest(S) >= m
  BY <1>4 DEF Greatest
<1>6. QED
  BY <1>5

\* And a least one.
LEMMA LeastExists ==
  ASSUME NEW low \in Nat, NEW S \in SUBSET Int, S # {}, \A m \in S : m + low \in Nat
  PROVE  Least(S) \in S /\ \A m \in S : Least(S) <= m
<1> DEFINE Up == {m + low : m \in S}
<1>1. Up \subseteq Nat /\ Up # {}
  OBVIOUS
<1>2. PICK r \in Up : \A x \in Up : r <= x
  <2> HIDE DEF Up
  <2>1. QED
    BY <1>1, LeastIn
<1>3. PICK k \in S : r = k + low
  BY <1>2
<1>4. ASSUME NEW m \in S PROVE k <= m
  <2>1. m + low \in Up /\ m \in Int /\ k \in Int
    OBVIOUS
  <2>2. k + low <= m + low
    BY <1>2, <1>3, <2>1
  <2>3. QED
    BY <2>1, <2>2
<1>5. QED
  BY <1>4 DEF Least

\* w is the beginning of v.
Begins(w, v) == Len(w) <= Len(v) /\ \A i \in 1..Len(w) : v[i] = w[i]

\* A prefix begins what it is a prefix of.
LEMMA PrefixBegins ==
  ASSUME NEW X, NEW v \in Seq(X), NEW w \in Seq(X), IsPrefix(w, v)
  PROVE  Begins(w, v)
<1>1. Len(w) \in Nat /\ Len(v) \in Nat /\ Len(w) <= Len(v) /\ SubSeq(w, 1, Len(w)) = SubSeq(v, 1, Len(w))
  BY DEF IsPrefix
<1>2. ASSUME NEW i \in 1..Len(w) PROVE v[i] = w[i]
  <2>1. SubSeq(w, 1, Len(w))[i] = w[i] /\ SubSeq(v, 1, Len(w))[i] = v[i]
    BY <1>1
  <2>2. QED
    BY <1>1, <2>1
<1>3. QED
  BY <1>1, <1>2 DEF Begins

\* The prefix two hypotheses share.
LEMMA SharedIs ==
  ASSUME NEW X, NEW v \in Seq(X), NEW w \in Seq(X)
  PROVE  /\ Shared(v, w) \in Nat /\ Shared(v, w) <= Len(v) /\ Shared(v, w) <= Len(w)
         /\ Begins(w, v) => Shared(v, w) = Len(w)
<1> DEFINE S == {n \in 0..Len(v) : n <= Len(w) /\ \A i \in 1..n : v[i] = w[i]}
<1>1. Len(v) \in Nat /\ Len(w) \in Nat
  OBVIOUS
<1>2. S \in SUBSET (0..Len(v)) /\ 0 \in S /\ \A n \in S : n <= Len(w)
  BY <1>1
<1>3. Begins(w, v) => Len(w) \in S
  BY <1>1 DEF Begins
<1>4. Shared(v, w) = Greatest(S)
  BY DEF Shared
<1> HIDE DEF S
<1>5. Greatest(S) \in S /\ \A m \in S : m <= Greatest(S)
  BY <1>1, <1>2, GreatestExists
<1>6. Shared(v, w) \in Nat /\ Shared(v, w) <= Len(v) /\ Shared(v, w) <= Len(w)
  <2>1. Greatest(S) \in 0..Len(v) /\ Greatest(S) <= Len(w)
    BY <1>2, <1>5
  <2>2. QED
    BY <1>1, <1>4, <2>1
<1>7. Begins(w, v) => Len(w) <= Shared(v, w)
  BY <1>3, <1>4, <1>5
<1>8. QED
  BY <1>1, <1>6, <1>7

\* The words of a hypothesis.
LEMMA WordsAre ==
  /\ \A t \in Texts : Words[t] \in Seq(DOMAIN Width) /\ Len(Words[t]) \in Nat
  /\ Frames \in Nat \ {0} /\ VolatileTail \in Nat /\ HistoryLimit \in Nat /\ HistoryLimit >= Frames + 2
  BY CaptionsAssumption

\* The newest hypothesis begins with every earlier one that counts, if none of them was
\* doubted.
LEMMA NoDoubt ==
  ASSUME NEW texts \in Seq(Texts), ~Doubted(texts),
         NEW i \in 1..Len(texts), i >= Len(texts) - Frames
  PROVE  Begins(Words[texts[i]], Words[texts[Len(texts)]])
<1> DEFINE size == Len(texts)
           Good(k) == Begins(Words[texts[size - k]], Words[texts[size]])
           B == {k \in 0..size - 1 : k <= Frames /\ ~Good(k)}
<1>1. size \in Nat /\ Frames \in Nat /\ \A j \in 1..size : texts[j] \in Texts
  BY WordsAre
<1>2. B = {}
  <2>1. SUFFICES ASSUME B # {} PROVE FALSE
    OBVIOUS
  <2>2. PICK k \in B : \A m \in B : k <= m
    <3>1. B \subseteq Nat
      OBVIOUS
    <3> HIDE DEF B
    <3>2. QED
      BY <2>1, <3>1, LeastIn
  <2>3. k # 0
    <3>1. Good(0)
      BY <1>1, WordsAre DEF Begins
    <3> HIDE DEF Good
    <3>2. QED
      BY <3>1
  <2>4. Good(k - 1)
    <3>1. k - 1 \in 0..size - 1 /\ k - 1 <= Frames /\ ~(k <= k - 1)
      BY <1>1, <2>3
    <3> HIDE DEF Good, size
    <3>2. QED
      BY <2>2, <3>1
  <2>5. Begins(Words[texts[size - k]], Words[texts[size - (k - 1)]])
    <3> DEFINE n == size - (k - 1)
    <3>1. n \in 2..size /\ n >= size - Frames /\ n - 1 = size - k /\ n - 1 \in 1..size /\ n \in 1..size
      BY <1>1, <2>3
    <3>2. IsPrefix(Words[texts[n - 1]], Words[texts[n]])
      <4> HIDE DEF n
      <4>1. QED
        BY <3>1 DEF Doubted
    <3>3. Words[texts[n - 1]] \in Seq(DOMAIN Width) /\ Words[texts[n]] \in Seq(DOMAIN Width)
      BY <1>1, <3>1, WordsAre
    <3>4. Begins(Words[texts[n - 1]], Words[texts[n]])
      BY <3>2, <3>3, PrefixBegins
    <3>5. QED
      BY <3>1, <3>4
  <2>6. Good(k)
    <3>1. size - k \in 1..size /\ size - (k - 1) \in 1..size /\ size \in 1..size
      BY <1>1, <2>3
    <3> DEFINE a == Words[texts[size - k]]
               b == Words[texts[size - (k - 1)]]
               c == Words[texts[size]]
    <3>2. Len(a) \in Nat /\ Len(b) \in Nat /\ Len(c) \in Nat
      BY <1>1, <3>1, WordsAre
    <3>3. Begins(a, b) /\ Begins(b, c)
      BY <2>4, <2>5
    <3>4. Begins(a, c)
      <4> HIDE DEF a, b, c
      <4>1. QED
        BY <3>2, <3>3 DEF Begins
    <3>5. QED
      BY <3>4
  <2> HIDE DEF Good
  <2>7. QED
    BY <2>6
<1>3. size - i \in 0..size - 1 /\ size - i <= Frames /\ size - (size - i) = i
  BY <1>1
<1>4. Good(size - i)
  <2> HIDE DEF Good, size
  <2>1. QED
    BY <1>2, <1>3
<1>5. QED
  BY <1>3, <1>4

\* The last hypotheses have n words, and the newest one has them before those the
\* recogniser is still guessing.
Room(texts, n) ==
  /\ Frames <= Len(texts) /\ n <= Len(Words[texts[Len(texts)]]) - VolatileTail
  /\ \A i \in Len(texts) - Frames + 1..Len(texts) : n <= Len(Words[texts[i]])

\* n words are agreed about by the last hypotheses.
Agreed(texts, frames, n) ==
  /\ frames <= Len(texts) /\ n <= Len(Words[texts[Len(texts)]]) - VolatileTail
  /\ \A i \in Len(texts) - frames + 1..Len(texts) :
       n <= Shared(Words[texts[Len(texts)]], Words[texts[i]])

\* The stable prefix is the longest that is agreed about, and leaves room for the guess.
LEMMA StablePrefixIs ==
  ASSUME NEW texts \in Seq(Texts), texts # <<>>, NEW frames \in {Frames, Frames + 1}
  PROVE  /\ StablePrefix(texts, frames) \in Nat
         /\ StablePrefix(texts, frames) # 0 => Room(texts, StablePrefix(texts, frames))
         /\ \A n \in Nat : Agreed(texts, frames, n) => n <= StablePrefix(texts, frames)
<1> DEFINE size == Len(texts)
           words == Words[texts[size]]
           range == (size - frames + 1)..size
           agreed == {Shared(words, Words[texts[i]]) : i \in range}
           all == agreed \cup {Len(words) - VolatileTail}
           solid == StablePrefix(texts, frames)
<1>1. /\ size \in Nat \ {0} /\ Frames \in Nat \ {0} /\ VolatileTail \in Nat /\ frames \in Nat \ {0}
      /\ Last(texts) = texts[size] /\ \A i \in 1..size : texts[i] \in Texts
  BY WordsAre, EmptySeq DEF Last
<1>2. Len(words) \in Nat
  BY <1>1, WordsAre
<1>3. solid = IF size < frames THEN 0 ELSE Greatest({0, Least(all)})
  BY <1>1 DEF StablePrefix
<1>4. CASE size < frames
  BY <1>1, <1>3, <1>4 DEF Agreed
<1>5. CASE ~(size < frames)
  <2>1. range \subseteq 1..size
    BY <1>1, <1>5
  <2>2. ASSUME NEW i \in range
        PROVE  /\ Shared(words, Words[texts[i]]) \in Nat
               /\ Shared(words, Words[texts[i]]) <= Len(Words[texts[i]])
    <3>1. texts[i] \in Texts /\ texts[size] \in Texts
      <4>1. i \in 1..size /\ size \in 1..size
        BY <1>1, <2>1
      <4> HIDE DEF size, range
      <4>2. QED
        BY <1>1, <4>1
    <3>2. words \in Seq(DOMAIN Width) /\ Words[texts[i]] \in Seq(DOMAIN Width)
      BY <3>1, WordsAre
    <3> HIDE DEF words
    <3>3. QED
      BY <3>2, SharedIs
  <2> HIDE DEF words, size, range
  <2>3. agreed \subseteq Nat
    BY <2>2
  <2>4. all \in SUBSET Int /\ all # {} /\ \A m \in all : m + VolatileTail \in Nat
    <3> HIDE DEF agreed
    <3>1. VolatileTail \in Nat /\ Len(words) \in Nat
      BY <1>1, <1>2
    <3>2. ASSUME NEW m \in all PROVE m \in Int /\ m + VolatileTail \in Nat
      <4>1. CASE m \in agreed
        BY <2>3, <3>1, <4>1
      <4>2. CASE m = Len(words) - VolatileTail
        BY <3>1, <4>2
      <4>3. QED
        BY <4>1, <4>2
    <3>3. all # {}
      OBVIOUS
    <3> HIDE DEF all
    <3>4. QED
      BY <3>2, <3>3
  <2>5. Least(all) \in all /\ \A m \in all : Least(all) <= m
    <3> HIDE DEF all
    <3>1. QED
      BY <1>1, <2>4, LeastExists
  <2>6. Least(all) \in Int
    BY <2>4, <2>5
  <2> DEFINE least == Least(all)
  <2>7. solid = IF least <= 0 THEN 0 ELSE least
    <3> HIDE DEF least, solid, all
    <3>1. CASE least <= 0
      <4>1. 0 \in {0, least} /\ \A j \in {0, least} : 0 >= j
        BY <2>6, <3>1 DEF least
      <4>2. Greatest({0, least}) \in {0, least} /\ \A j \in {0, least} : Greatest({0, least}) >= j
        BY <4>1 DEF Greatest
      <4>3. Greatest({0, least}) = 0
        BY <2>6, <3>1, <4>2 DEF least
      <4>4. QED
        BY <1>3, <1>5, <3>1, <4>3 DEF least
    <3>2. CASE ~(least <= 0)
      <4>1. least \in {0, least} /\ \A j \in {0, least} : least >= j
        BY <2>6, <3>2 DEF least
      <4>2. Greatest({0, least}) \in {0, least} /\ \A j \in {0, least} : Greatest({0, least}) >= j
        BY <4>1 DEF Greatest
      <4>3. Greatest({0, least}) = least
        BY <2>6, <3>2, <4>2 DEF least
      <4>4. QED
        BY <1>3, <1>5, <3>2, <4>3 DEF least
    <3>3. QED
      BY <3>1, <3>2
  <2>8. solid \in Nat /\ solid >= least /\ (solid # 0 => solid = least)
    BY <2>6, <2>7
  <2>9. solid # 0 => Room(texts, solid)
    <3>1. SUFFICES ASSUME solid # 0 PROVE Room(texts, solid)
      OBVIOUS
    <3>2. Frames <= size /\ size - Frames + 1..size \subseteq range
      BY <1>1, <1>5 DEF range
    <3>3. solid <= Len(words) - VolatileTail
      BY <2>5, <2>8, <3>1
    <3>4. ASSUME NEW i \in size - Frames + 1..size PROVE solid <= Len(Words[texts[i]])
      <4>1. i \in range
        BY <3>2
      <4>2. Shared(words, Words[texts[i]]) \in all
        BY <4>1
      <4>3. least <= Shared(words, Words[texts[i]])
        BY <2>5, <4>2
      <4>4. Len(Words[texts[i]]) \in Nat
        BY <1>1, <2>1, <4>1, WordsAre
      <4>5. QED
        BY <2>2, <2>6, <2>8, <3>1, <4>1, <4>3, <4>4
    <3>5. QED
      BY <3>2, <3>3, <3>4 DEF Room, size, words
  <2>10. ASSUME NEW n \in Nat, Agreed(texts, frames, n) PROVE n <= solid
    <3>1. /\ n <= Len(words) - VolatileTail
          /\ \A i \in range : n <= Shared(words, Words[texts[i]])
      BY <2>10 DEF Agreed, range, size, words
    <3>2. \A m \in all : n <= m
      BY <3>1
    <3>3. n <= least
      BY <2>5, <3>2
    <3>4. QED
      BY <2>6, <2>8, <3>3
  <2>11. QED
    BY <2>8, <2>9, <2>10
<1>6. QED
  BY <1>4, <1>5

SolidInv ==
  /\ history \in Seq(Texts) /\ stable \in Nat
  /\ live = NoCard => stable = 0
  /\ stable # 0 => Room(history, stable)

\* A hypothesis that doubts nothing leaves what was solid agreed about.
LEMMA NothingDoubted ==
  ASSUME NEW before \in Seq(Texts), NEW after \in Seq(Texts), NEW text \in Texts,
         NEW d \in 0..Len(before) + 1, IsCut(after, Append(before, text), HistoryLimit, d),
         ~Doubted(after), NEW n \in Nat, Room(before, n), NEW frames \in {Frames, Frames + 1}
  PROVE  Agreed(after, frames, n)
<1> DEFINE old == Len(before)
           size == Len(after)
           words == Words[after[size]]
<1>1. /\ old \in Nat /\ size \in Nat /\ Frames \in Nat \ {0} /\ VolatileTail \in Nat
      /\ HistoryLimit \in Nat /\ HistoryLimit >= Frames + 2 /\ frames \in Nat
      /\ \A i \in 1..size : after[i] \in Texts
      /\ \A i \in 1..old : before[i] \in Texts
  BY WordsAre
<1> DEFINE more == Append(before, text)
<1>2. /\ Len(more) = old + 1 /\ more[old + 1] = text
      /\ \A i \in 1..old : more[i] = before[i]
  BY AppendProperties
<1> HIDE DEF more
<1>3. /\ size = old + 1 - d /\ (d = 0 \/ size = HistoryLimit)
      /\ \A i \in 1..size : d + i \in 1..old + 1 /\ after[i] = more[d + i]
  <2>1. IsCut(after, more, HistoryLimit, d)
    BY DEF more
  <2>2. QED
    BY <1>1, <1>2, <2>1 DEF IsCut
<1>4. /\ Frames <= old /\ n <= Len(Words[before[old]]) - VolatileTail
      /\ \A i \in old - Frames + 1..old : n <= Len(Words[before[i]])
  BY DEF Room
<1>5. size >= Frames + 1
  BY <1>1, <1>3, <1>4
<1>6. /\ \A i \in 1..size - 1 : d + i \in 1..old /\ after[i] = before[d + i]
      /\ d + (size - 1) = old
  <2>1. d \in Nat /\ size = old + 1 - d
    BY <1>1, <1>3
  <2> HIDE DEF size, old
  <2>2. ASSUME NEW i \in 1..size - 1 PROVE d + i \in 1..old /\ after[i] = before[d + i]
    <3>1. i \in 1..size /\ d + i \in 1..old
      BY <1>1, <2>1
    <3>2. QED
      BY <1>2, <1>3, <3>1
  <2>3. QED
    BY <1>1, <2>1, <2>2
<1>7. ASSUME NEW i \in 1..size, i >= size - Frames
      PROVE  Begins(Words[after[i]], words)
  BY <1>7, NoDoubt
<1>8. Len(words) \in Nat /\ Len(Words[before[old]]) \in Nat /\ after[size - 1] = before[old]
  <2>1. size \in 1..size /\ size - 1 \in 1..size - 1 /\ old \in 1..old
    BY <1>1, <1>4, <1>5
  <2> HIDE DEF old, size
  <2>2. after[size] \in Texts /\ before[old] \in Texts /\ after[size - 1] = before[old]
    BY <1>1, <1>6, <2>1
  <2>3. QED
    BY <2>2, WordsAre
<1>9. Len(Words[before[old]]) <= Len(words)
  <2>1. size - 1 \in 1..size /\ size - 1 >= size - Frames
    BY <1>1, <1>5
  <2>2. Begins(Words[after[size - 1]], words)
    BY <1>7, <2>1
  <2>3. Begins(Words[before[old]], words)
    BY <1>8, <2>2
  <2> HIDE DEF words, old, size
  <2>4. QED
    BY <2>3 DEF Begins
<1>10. n <= Len(words) - VolatileTail
  <2>1. n <= Len(Words[before[old]]) - VolatileTail
    BY <1>4
  <2> HIDE DEF words, old
  <2> PICK shorter \in Nat, longer \in Nat : shorter = Len(Words[before[old]]) /\ longer = Len(words)
    BY <1>8
  <2>2. n <= shorter - VolatileTail /\ shorter <= longer /\ VolatileTail \in Nat
    BY <1>1, <1>9, <2>1
  <2>3. n <= longer - VolatileTail
    BY <2>2
  <2>4. QED
    BY <2>3
<1>11. ASSUME NEW i \in size - frames + 1..size
       PROVE  n <= Shared(words, Words[after[i]])
  <2>1. i \in 1..size /\ i >= size - Frames /\ size \in 1..size
    BY <1>1, <1>5
  <2>2. Words[after[i]] \in Seq(DOMAIN Width) /\ words \in Seq(DOMAIN Width) /\ Len(Words[after[i]]) \in Nat
    BY <1>1, <2>1, WordsAre
  <2>3. Begins(Words[after[i]], words)
    BY <1>7, <2>1
  <2>4. Shared(words, Words[after[i]]) = Len(Words[after[i]])
    <3> HIDE DEF words
    <3>1. QED
      BY <2>2, <2>3, SharedIs
  <2>5. n <= Len(Words[after[i]])
    <3>1. CASE i = size
      BY <1>1, <1>8, <1>10, <3>1
    <3>2. CASE i # size
      <4>1. i \in 1..size - 1 /\ d + i \in old - Frames + 1..old
        <5>1. d \in Nat /\ size = old + 1 - d
          BY <1>1, <1>3
        <5> HIDE DEF size, old
        <5>2. i \in Nat /\ i >= size - Frames /\ i <= size - 1 /\ i >= 1
          BY <1>1, <2>1, <3>2
        <5>3. QED
          BY <1>1, <5>1, <5>2
      <4>2. after[i] = before[d + i]
        BY <1>6, <4>1
      <4>3. QED
        BY <1>4, <4>1, <4>2
    <3>3. QED
      BY <3>1, <3>2
  <2>6. QED
    BY <2>4, <2>5
<1>12. frames <= size
  BY <1>1, <1>5
<1>13. QED
  BY <1>10, <1>11, <1>12 DEF Agreed

\* A hypothesis keeps the solid text, or is doubted.
LEMMA HearsKeeps ==
  ASSUME SolidInv, NEW text \in Texts, Hears(text)
  PROVE  /\ history' \in Seq(Texts) /\ stable' \in Nat
         /\ stable' # 0 => Room(history', stable')
         /\ stable' < stable => Doubted(history')
<1> DEFINE frames == FramesFor(rewrites')
<1>1. history' = Newest(HistoryLimit, Append(history, text)) /\ stable' = StablePrefix(history', frames)
  BY DEF Hears, Remembered
<1>2. frames \in {Frames, Frames + 1}
  BY DEF FramesFor
<1> HIDE DEF frames
<1>3. /\ history \in Seq(Texts) /\ stable \in Nat /\ (stable # 0 => Room(history, stable))
      /\ HistoryLimit \in Nat \ {0} /\ Append(history, text) \in Seq(Texts)
      /\ Len(Append(history, text)) = Len(history) + 1 /\ Len(history) \in Nat
  BY WordsAre, AppendProperties DEF SolidInv
<1>4. /\ history' \in Seq(Texts)
      /\ \E d \in 0..Len(history) + 1 : IsCut(history', Append(history, text), HistoryLimit, d)
  BY <1>1, <1>3, NewestIs
<1> PICK d \in 0..Len(history) + 1 : IsCut(history', Append(history, text), HistoryLimit, d)
  BY <1>4
<1>5. history' # <<>>
  <2>1. Len(history') = Len(history) + 1 - d /\ (d = 0 \/ Len(history) + 1 - d = HistoryLimit)
    BY <1>3 DEF IsCut
  <2>2. Len(history') # 0
    BY <1>3, <2>1
  <2>3. QED
    BY <1>4, <2>2, EmptySeq
<1> PICK after \in Seq(Texts) : after = history'
  BY <1>4
<1>6. /\ stable' \in Nat /\ (stable' # 0 => Room(after, stable'))
      /\ \A n \in Nat : Agreed(after, frames, n) => n <= stable'
  BY <1>1, <1>2, <1>5, StablePrefixIs
<1>7. ASSUME ~Doubted(after), stable # 0 PROVE stable <= stable'
  <2>1. Room(history, stable) /\ IsCut(after, Append(history, text), HistoryLimit, d)
    BY <1>3, <1>7
  <2>2. Agreed(after, frames, stable)
    BY <1>2, <1>3, <1>7, <2>1, NothingDoubted
  <2>3. QED
    BY <1>3, <1>6, <2>2
<1>8. stable' < stable => Doubted(after)
  BY <1>3, <1>6, <1>7
<1>9. QED
  BY <1>4, <1>6, <1>8

\* The invariant of the solid text.
LEMMA SolidHolds == ScreenSpec => []SolidInv
<1>1. ScreenInit => SolidInv
  BY EmptySeq DEF ScreenInit, Init, SolidInv
<1>2. SolidInv /\ NewestInv /\ [ScreenNext]_allVars => SolidInv'
  <2>1. SUFFICES ASSUME SolidInv, NewestInv, [ScreenNext]_allVars PROVE SolidInv'
    OBVIOUS
  <2>2. ASSUME NEW text \in Texts, Hears(text) PROVE SolidInv'
    <3>1. Partial(text) /\ EngineInv
      BY <2>1, <2>2 DEF Hears, NewestInv, PageTypes
    <3>2. live' # NoCard
      BY <3>1, PartialKeeps
    <3>3. QED
      BY <2>1, <2>2, <3>2, HearsKeeps DEF SolidInv
  <2>3. CASE Forgotten
    BY <2>3, EmptySeq DEF Forgotten, SolidInv
  <2>4. CASE UNCHANGED vars
    BY <2>1, <2>4 DEF SolidInv, vars, engineVars, heardVars, Room
  <2>5. QED
    BY <2>1, <2>2, <2>3, <2>4
    DEF ScreenNext, Speaking, Settling, Pausing, Settles, GoesQuiet, Resync, Paint, Swapped, allVars
<1>3. QED
  BY <1>1, <1>2, NewestHolds, PTL DEF ScreenSpec

\* What is solid gives way only to doubt (stability.ts:82-89, engine.ts:94-105).
THEOREM ScreenSolidGivesWay == ScreenSpec => SolidGivesWay
<1>1. ASSUME SolidInv, NewestInv, [ScreenNext]_allVars
      PROVE  [live.id = live'.id /\ stable' < stable => Doubted(history')]_vars
  <2>1. ASSUME NEW text \in Texts, Hears(text) PROVE stable' < stable => Doubted(history')
    BY <1>1, <2>1, HearsKeeps
  <2>2. ASSUME Forgotten, live' = NoCard PROVE live.id = live'.id => ~(stable' < stable)
    <3>1. CardsInv /\ stable \in Nat /\ (live = NoCard => stable = 0)
      BY <1>1 DEF NewestInv, PageTypes, EngineInv, SolidInv
    <3>2. stable' = 0 /\ live'.id = 0
      BY <2>2, NoCardIs DEF Forgotten
    <3>3. live.id = 0 => live = NoCard
      BY <1>1, <3>1 DEF CardsInv
    <3>4. QED
      BY <3>1, <3>2, <3>3
  <2>3. QED
    BY <1>1, <2>1, <2>2
    DEF ScreenNext, Speaking, Settling, Pausing, Settles, Commit, GoesQuiet, CloseLive, Resync, Paint, Swapped,
        allVars
<1>2. QED
  BY <1>1, SolidHolds, NewestHolds, PTL DEF ScreenSpec, SolidGivesWay
=============================================================================
