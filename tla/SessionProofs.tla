-------------------------- MODULE SessionProofs ---------------------------
(***************************************************************************)
(* Proofs about the two users of the caption engine in a session of the    *)
(* relay: the translate queue (Translations), and the wire to the          *)
(* captions page (Projector).                                              *)
(***************************************************************************)
EXTENDS Translations, Projector, EngineProofs

-----------------------------------------------------------------------------
(***************************************************************************)
(* Proofs about the translate queue, for any languages, texts, backlog and *)
(* number of requests in flight.                                           *)
(*                                                                         *)
(* A request for a commit is either answered, or waits, or is at the       *)
(* translator: nothing takes its place in the queue but another one for    *)
(* a commit (PutKeeps), the fold over the languages asks for each of them  *)
(* (RequestQueued), the places of the free slots have no gap, so that      *)
(* filling them loses no job (EveryPlace, PumpKeeps), and an answer is     *)
(* about the text its card was committed with (JobsInv).                   *)
(***************************************************************************)

Queues == Seq(Jobs)
Distinct(q) == \A i, j \in 1..Len(q) : SameKey(q[i], q[j]) => i = j
Waits(q, id, lang) == \E i \in 1..Len(q) : q[i].card = id /\ q[i].lang = lang /\ ~q[i].speculative

\* A job put into a queue.
LEMMA PutKeeps ==
  ASSUME NEW q \in Queues, NEW job \in Jobs
  PROVE  /\ Put(q, job) \in Queues
         /\ Len(q) <= Len(Put(q, job))
         /\ \A i \in 1..Len(Put(q, job)) :
              Put(q, job)[i] # job => i <= Len(q) /\ Put(q, job)[i] = q[i]
         /\ \A i \in 1..Len(q) :
              /\ SameKey(Put(q, job)[i], q[i])
              /\ Put(q, job)[i].speculative => q[i].speculative
         /\ ~job.speculative => \E i \in 1..Len(Put(q, job)) : Put(q, job)[i] = job
         /\ Distinct(q) => Distinct(Put(q, job))
<1> DEFINE old == \E i \in 1..Len(q) : SameKey(q[i], job)
           p == Put(q, job)
<1>1. /\ Len(q) \in Nat /\ q \in [1..Len(q) -> Jobs] /\ \A i \in 1..Len(q) : q[i] \in Jobs
  BY DEF Queues
<1>2. CASE old
  <2> DEFINE r == [i \in 1..Len(q) |->
                     IF SameKey(q[i], job) /\ (q[i].speculative \/ ~job.speculative)
                     THEN job ELSE q[i]]
  <2>1. p = r
    BY <1>2 DEF Put
  <2>2. r \in [1..Len(q) -> Jobs]
    BY <1>1
  <2>3. r \in Queues /\ Len(r) = Len(q)
    BY <1>1, <2>2, IsASeq DEF Queues
  <2>4. \A i \in 1..Len(q) : r[i] = job \/ r[i] = q[i]
    OBVIOUS
  <2>5. \A i \in 1..Len(q) : SameKey(r[i], q[i])
    BY DEF SameKey
  <2>6. \A i \in 1..Len(q) : r[i].speculative => q[i].speculative
    OBVIOUS
  <2>7. ~job.speculative => \E i \in 1..Len(q) : r[i] = job
    BY <1>2
  <2> HIDE DEF r
  <2>8. Distinct(q) => Distinct(r)
    BY <2>3, <2>5 DEF Distinct, SameKey
  <2>9. QED
    BY <1>1, <2>1, <2>3, <2>4, <2>5, <2>6, <2>7, <2>8
<1>3. CASE ~old
  <2>1. p = Append(q, job)
    BY <1>3 DEF Put
  <2>2. /\ p \in Queues /\ Len(p) = Len(q) + 1 /\ p[Len(q) + 1] = job
        /\ \A i \in 1..Len(q) : p[i] = q[i]
    BY <2>1, AppendProperties DEF Queues
  <2> HIDE DEF p
  <2>3. \A i \in 1..Len(p) : i \in 1..Len(q) \/ i = Len(q) + 1
    BY <1>1, <2>2
  <2>4. Distinct(q) => Distinct(p)
    BY <1>1, <1>3, <2>2, <2>3 DEF Distinct, SameKey
  <2>5. \A i \in 1..Len(q) : SameKey(p[i], q[i])
    BY <2>2 DEF SameKey
  <2>6. Len(q) + 1 \in 1..Len(p)
    BY <1>1, <2>2
  <2>7. QED
    BY <1>1, <2>2, <2>3, <2>4, <2>5, <2>6 DEF p
<1>4. QED
  BY <1>2, <1>3

Own(card, text, speculative) == {Job(card, l, text, speculative) : l \in Langs}
Queued(q) == {q[i] : i \in 1..Len(q)}

\* A request for a card, in the languages up to the k-th.
AskedUpTo(q, k, card, text, speculative) ==
  /\ q \in Queues
  /\ Queued(q) \subseteq Queued(pending) \cup Own(card, text, speculative)
  /\ \A id \in Nat, l \in Langs : Waits(pending, id, l) => Waits(q, id, l)
  /\ ~speculative => \A i \in 1..k : Waits(q, card, DstLangs[i])
  /\ Distinct(pending) => Distinct(q)

\* One more language asked for.
LEMMA OneMoreAsked ==
  ASSUME pending \in Queues, NEW card \in Nat, NEW text \in Texts, NEW speculative \in BOOLEAN,
         NEW k \in 1..Len(DstLangs), NEW q, AskedUpTo(q, k - 1, card, text, speculative)
  PROVE  AskedUpTo(Put(q, Job(card, DstLangs[k], text, speculative)), k, card, text, speculative)
<1> DEFINE job == Job(card, DstLangs[k], text, speculative)
           p == Put(q, job)
<1>1. job \in Jobs /\ job.card = card /\ job.lang = DstLangs[k] /\ job.speculative = speculative
  BY TranslationsAssumption DEF Job, Jobs
<1>2. job \in Own(card, text, speculative)
  BY TranslationsAssumption DEF Own
<1>3. q \in Queues /\ Len(q) \in Nat
  BY DEF AskedUpTo, Queues
<1>4. /\ p \in Queues
      /\ Len(q) <= Len(p)
      /\ \A i \in 1..Len(p) : p[i] # job => i <= Len(q) /\ p[i] = q[i]
      /\ \A i \in 1..Len(q) :
           /\ SameKey(p[i], q[i])
           /\ p[i].speculative => q[i].speculative
      /\ ~job.speculative => \E i \in 1..Len(p) : p[i] = job
      /\ Distinct(q) => Distinct(p)
  <2> HIDE DEF job
  <2>1. QED
    BY <1>1, <1>3, PutKeeps
<1> HIDE DEF job, p
<1>5. Len(p) \in Nat
  BY <1>4 DEF Queues
<1>6. Queued(p) \subseteq Queued(pending) \cup Own(card, text, speculative)
  <2>1. SUFFICES ASSUME NEW i \in 1..Len(p), p[i] # job
                 PROVE  p[i] \in Queued(q)
    BY <1>2 DEF Queued, AskedUpTo
  <2>2. i \in 1..Len(q) /\ p[i] = q[i]
    BY <1>3, <1>4, <1>5, <2>1
  <2>3. QED
    BY <2>2 DEF Queued
<1>7. ASSUME NEW id \in Nat, NEW l \in Langs, Waits(q, id, l) PROVE Waits(p, id, l)
  <2>1. PICK i \in 1..Len(q) : q[i].card = id /\ q[i].lang = l /\ ~q[i].speculative
    BY <1>7 DEF Waits
  <2>2. i \in 1..Len(p)
    BY <1>3, <1>4, <1>5
  <2>3. p[i].card = id /\ p[i].lang = l /\ ~p[i].speculative
    BY <1>4, <2>1 DEF SameKey
  <2>4. QED
    BY <2>2, <2>3 DEF Waits
<1>8. ASSUME ~speculative, NEW i \in 1..k PROVE Waits(p, card, DstLangs[i])
  <2>1. DstLangs[i] \in Langs
    <3>1. i \in 1..Len(DstLangs)
      BY TranslationsAssumption
    <3>2. QED
      BY <3>1, TranslationsAssumption
  <2>2. CASE i = k
    BY <1>1, <1>4, <1>8, <2>2 DEF Waits
  <2>3. CASE i # k
    <3>1. i \in 1..k - 1
      BY <2>3
    <3>2. Waits(q, card, DstLangs[i])
      BY <1>8, <3>1 DEF AskedUpTo
    <3>3. QED
      BY <1>7, <2>1, <3>2
  <2>4. QED
    BY <2>2, <2>3
<1>9. QED
  BY <1>4, <1>6, <1>7, <1>8 DEF AskedUpTo, p, job

\* What a request for a card makes of the queue.
LEMMA RequestQueued ==
  ASSUME pending \in Queues, NEW card \in Nat, NEW text \in Texts, NEW speculative \in BOOLEAN
  PROVE  /\ AskedUpTo(Enqueued(card, text, speculative), Len(DstLangs), card, text, speculative)
         /\ ~speculative => \A l \in Langs : Waits(Enqueued(card, text, speculative), card, l)
<1> DEFINE n == Len(DstLangs)
           job(i) == Job(card, DstLangs[i], text, speculative)
           step == [p \in (1..n) \X Queues |-> Put(p[2], job(p[1]))]
<1>1. n \in Nat /\ DOMAIN DstLangs = 1..n /\ \A i \in 1..n : DstLangs[i] \in Langs
  BY TranslationsAssumption
<1>2. \A i \in 1..n : job(i) \in Jobs
  BY <1>1 DEF Job, Jobs
<1>3. \A i \in 1..n : \A q \in Queues : Put(q, job(i)) \in Queues
  <2> HIDE DEF job, n
  <2>1. QED
    BY <1>2, PutKeeps
<1>4. step \in [(1..n) \X Queues -> Queues]
  <2> HIDE DEF job, n
  <2>1. QED
    BY <1>3
<1>5. \A i \in 1..n : \A q \in Queues : step[<<i, q>>] = Put(q, job(i))
  <2> HIDE DEF job, n
  <2>1. QED
    OBVIOUS
<1> DEFINE IsFold(f) ==
      f = [S \in SUBSET DOMAIN DstLangs |->
             IF S = {} THEN pending
             ELSE Put(f[S \ {Max(S)}], Job(card, DstLangs[Max(S)], text, speculative))]
           F == CHOOSE f : IsFold(f)
<1>6. Enqueued(card, text, speculative) = F[DOMAIN DstLangs]
  BY DEF Enqueued, FoldLeft, MapThenFoldSet
<1>7. IsFold(F)
  <2>1. PICK f \in [SUBSET (1..n) -> Queues] : FoldsTo(f, n, step, pending)
    <3> HIDE DEF step
    <3>1. QED
      BY <1>1, <1>4, FoldExists
  <2>2. ASSUME NEW S \in SUBSET (1..n)
        PROVE  f[S] = IF S = {} THEN pending
                      ELSE Put(f[S \ {Max(S)}], Job(card, DstLangs[Max(S)], text, speculative))
    <3>1. CASE S = {}
      BY <2>1, <3>1 DEF FoldsTo
    <3>2. CASE S # {}
      <4>1. Max(S) \in 1..n
        BY <1>1, <3>2, GreatestIn
      <4>2. f[S \ {Max(S)}] \in Queues
        BY <2>1
      <4>3. f[S] = step[<<Max(S), f[S \ {Max(S)}]>>]
        BY <2>1, <3>2 DEF FoldsTo
      <4>4. step[<<Max(S), f[S \ {Max(S)}]>>] = Put(f[S \ {Max(S)}], job(Max(S)))
        <5> HIDE DEF step, job
        <5>1. QED
          BY <1>5, <4>1, <4>2
      <4>5. QED
        BY <3>2, <4>3, <4>4
    <3>3. QED
      BY <3>1, <3>2
  <2>3. f = [S \in SUBSET (1..n) |-> f[S]]
    BY <2>1
  <2>4. IsFold(f)
    BY <1>1, <2>2, <2>3
  <2> HIDE DEF IsFold
  <2>5. QED
    BY <2>4
<1>8. \A S \in SUBSET (1..n) :
        F[S] = IF S = {} THEN pending ELSE Put(F[S \ {Max(S)}], job(Max(S)))
  <2> HIDE DEF F
  <2>1. QED
    BY <1>1, <1>7
<1> HIDE DEF F, IsFold, step
<1> DEFINE Done(k) == AskedUpTo(F[1..k], k, card, text, speculative)
           B == {k \in 0..n : ~Done(k)}
<1>9. Done(0)
  <2>1. 1..0 = {} /\ 1..0 \in SUBSET (1..n)
    OBVIOUS
  <2>2. F[1..0] = pending
    BY <1>8, <2>1
  <2>3. QED
    BY <2>2 DEF AskedUpTo
<1>10. ASSUME NEW k \in 1..n, Done(k - 1) PROVE Done(k)
  <2>1. 1..k \in SUBSET (1..n) /\ 1..k # {} /\ k \in 1..k /\ k \in Nat
    BY <1>1
  <2>2. Max(1..k) = k
    <3>1. Max(1..k) \in 1..k /\ \A m \in 1..k : m <= Max(1..k)
      <4>1. 1..k \in SUBSET (1..k)
        OBVIOUS
      <4>2. QED
        BY <2>1, <4>1, GreatestIn
    <3>2. QED
      BY <2>1, <3>1
  <2>3. (1..k) \ {k} = 1..k - 1
    BY <2>1
  <2>4. F[1..k] = Put(F[1..k - 1], job(k))
    <3> HIDE DEF job
    <3>1. QED
      BY <1>8, <2>1, <2>2, <2>3
  <2>5. QED
    BY <1>10, <2>4, OneMoreAsked
<1>11. B = {}
  <2>1. SUFFICES ASSUME B # {} PROVE FALSE
    OBVIOUS
  <2>2. B \subseteq Nat
    OBVIOUS
  <2>3. PICK k \in B : \A m \in B : k <= m
    <3> HIDE DEF B
    <3>1. QED
      BY <2>1, <2>2, LeastIn
  <2> HIDE DEF Done
  <2>4. k \in 1..n /\ k - 1 \in 0..n /\ ~(k <= k - 1)
    <3>1. k \in 0..n /\ k # 0
      BY <1>9
    <3>2. QED
      BY <1>1, <3>1
  <2>5. k - 1 \notin B
    <3> HIDE DEF B
    <3>1. QED
      BY <2>3, <2>4
  <2>6. Done(k - 1)
    BY <2>4, <2>5
  <2>7. QED
    BY <1>10, <2>4, <2>6
<1>12. Done(n)
  <2> HIDE DEF Done
  <2>1. n \in 0..n
    BY <1>1
  <2>2. QED
    BY <1>11, <2>1
<1>13. F[1..n] = Enqueued(card, text, speculative)
  BY <1>1, <1>6
<1>14. ASSUME ~speculative, NEW l \in Langs PROVE Waits(F[1..n], card, l)
  <2>1. PICK i \in 1..n : DstLangs[i] = l
    BY TranslationsAssumption
  <2>2. QED
    BY <1>12, <1>14, <2>1 DEF AskedUpTo
<1>15. QED
  BY <1>12, <1>13, <1>14

-----------------------------------------------------------------------------
Flights == [Slots -> Jobs \cup {NoJob}]

\* The free slots are counted without a gap.
LEMMA EveryPlace ==
  ASSUME NEW flying
  PROVE  /\ IsFiniteSet(Free(flying)) /\ Cardinality(Free(flying)) \in Nat
         /\ \A k \in 1..Cardinality(Free(flying)) : \E s \in Free(flying) : Place(flying, s) = k
<1> DEFINE C(m) == {t \in Free(flying) : t <= m}
<1>1. MaxInflight \in Nat /\ Slots = 1..MaxInflight /\ Free(flying) \subseteq Slots
  BY TranslationsAssumption DEF Slots, Free
<1>2. IsFiniteSet(Slots)
  BY <1>1, FS_Interval
<1>3. IsFiniteSet(Free(flying)) /\ Cardinality(Free(flying)) \in Nat
  BY <1>1, <1>2, FS_Subset, FS_CardinalityType
<1>4. \A m : IsFiniteSet(C(m)) /\ Cardinality(C(m)) \in Nat
  <2>1. SUFFICES ASSUME NEW m PROVE IsFiniteSet(C(m)) /\ Cardinality(C(m)) \in Nat
    OBVIOUS
  <2>2. C(m) \subseteq Free(flying)
    OBVIOUS
  <2> HIDE DEF C
  <2>3. QED
    BY <1>3, <2>2, FS_Subset, FS_CardinalityType
<1>5. SUFFICES ASSUME NEW k \in 1..Cardinality(Free(flying))
               PROVE  \E s \in Free(flying) : Cardinality(C(s)) = k
  BY <1>3 DEF Place
<1> DEFINE B == {m \in 0..MaxInflight : Cardinality(C(m)) >= k}
<1>6. B \subseteq Nat /\ B # {}
  <2>1. C(MaxInflight) = Free(flying)
    BY <1>1
  <2>2. MaxInflight \in B
    <3> HIDE DEF C
    <3>1. Cardinality(C(MaxInflight)) >= k
      BY <1>3, <2>1
    <3>2. QED
      BY <1>1, <3>1
  <2>3. \A m \in B : m \in Nat
    <3> HIDE DEF C
    <3>1. QED
      OBVIOUS
  <2> HIDE DEF B
  <2>4. QED
    BY <2>2, <2>3
<1>7. PICK m \in B : \A j \in B : m <= j
  <2> HIDE DEF B
  <2>1. QED
    BY <1>6, LeastIn
<1>8. C(0) = {}
  BY <1>1
<1>9. m \in 1..MaxInflight /\ m \in Int /\ Cardinality(C(m)) >= k
  <2> HIDE DEF C
  <2>1. Cardinality(C(0)) = 0
    BY <1>8, FS_EmptySet
  <2>2. m \in 0..MaxInflight /\ Cardinality(C(m)) >= k /\ k >= 1
    BY <1>7
  <2>3. m # 0
    BY <2>1, <2>2
  <2>4. QED
    BY <1>1, <2>2, <2>3
<1>10. ~(Cardinality(C(m - 1)) >= k)
  <2>1. m - 1 \in 0..MaxInflight /\ ~(m <= m - 1)
    BY <1>1, <1>9
  <2>2. m - 1 \notin B
    <3> HIDE DEF B
    <3>1. QED
      BY <1>7, <2>1
  <2> HIDE DEF C
  <2>3. QED
    BY <2>1, <2>2
<1>11. CASE m \notin Free(flying)
  <2>1. C(m) = C(m - 1)
    BY <1>1, <1>9, <1>11
  <2> HIDE DEF C
  <2>2. QED
    BY <1>9, <1>10, <2>1
<1>12. CASE m \in Free(flying)
  <2>1. C(m) = C(m - 1) \cup {m} /\ m \notin C(m - 1)
    BY <1>1, <1>9, <1>12
  <2> HIDE DEF C
  <2>2. Cardinality(C(m)) = Cardinality(C(m - 1)) + 1
    BY <1>4, <2>1, FS_AddElement
  <2>3. Cardinality(C(m)) = k
    <3>1. Cardinality(C(m)) \in Nat /\ Cardinality(C(m - 1)) \in Nat /\ k \in Nat
      BY <1>3, <1>4
    <3>2. QED
      BY <1>9, <1>10, <2>2, <3>1
  <2>4. QED
    BY <1>12, <2>3
<1>13. QED
  BY <1>11, <1>12

\* Pumping starts jobs and loses none.
LEMMA PumpKeeps ==
  ASSUME NEW queue \in Queues, NEW flying \in Flights, Pumped(queue, flying)
  PROVE  /\ pending' \in Queues /\ inflight' \in Flights
         /\ Queued(queue) \subseteq Queued(pending)' \cup {inflight'[s] : s \in Slots}
         /\ \A s \in Slots : flying[s] # NoJob => inflight'[s] = flying[s]
         /\ Queued(pending)' \subseteq Queued(queue)
         /\ \A s \in Slots : inflight'[s] = flying[s] \/ inflight'[s] \in Queued(queue)
         /\ Distinct(queue) => Distinct(pending)'
<1> DEFINE n == IF Cardinality(Free(flying)) < Len(queue) THEN Cardinality(Free(flying)) ELSE Len(queue)
<1>1. /\ Len(queue) \in Nat /\ queue \in [1..Len(queue) -> Jobs]
      /\ \A i \in 1..Len(queue) : queue[i] \in Jobs
  BY DEF Queues
<1>2. Cardinality(Free(flying)) \in Nat
  BY EveryPlace
<1>3. n \in 0..Len(queue) /\ n <= Cardinality(Free(flying))
  BY <1>1, <1>2
<1>4. /\ pending' = SubSeq(queue, n + 1, Len(queue))
      /\ inflight' = [s \in Slots |-> IF s \in Free(flying) /\ Place(flying, s) <= n
                                      THEN queue[Place(flying, s)] ELSE flying[s]]
  BY DEF Pumped
<1> HIDE DEF n
<1>5. /\ pending' \in Queues /\ Len(pending') = Len(queue) - n
      /\ \A i \in 1..Len(queue) - n : pending'[i] = queue[n + i]
  <2>1. n + 1 \in 1..Len(queue) + 1 /\ Len(queue) \in n + 1 - 1..Len(queue)
    BY <1>1, <1>3
  <2>2. /\ SubSeq(queue, n + 1, Len(queue)) \in Seq(Jobs)
        /\ Len(SubSeq(queue, n + 1, Len(queue))) = Len(queue) - (n + 1) + 1
        /\ \A i \in 1..Len(queue) - (n + 1) + 1 : SubSeq(queue, n + 1, Len(queue))[i] = queue[n + 1 + i - 1]
    BY <1>1, <1>3, <2>1, SubSeqProperties DEF Queues
  <2>3. Len(queue) - (n + 1) + 1 = Len(queue) - n
    BY <1>1, <1>3
  <2>4. ASSUME NEW i \in 1..Len(queue) - n PROVE pending'[i] = queue[n + i]
    <3>1. n + 1 + i - 1 = n + i /\ i \in 1..Len(queue) - (n + 1) + 1
      BY <1>1, <1>3
    <3>2. QED
      BY <1>4, <2>2, <3>1
  <2>5. QED
    BY <1>4, <2>2, <2>3, <2>4 DEF Queues
<1>6. ASSUME NEW s \in Slots, s \in Free(flying), Place(flying, s) <= n
      PROVE  Place(flying, s) \in 1..Len(queue)
  <2> DEFINE P == {t \in Free(flying) : t <= s}
  <2>1. P \subseteq Free(flying) /\ s \in P
    BY <1>6 DEF Slots
  <2>2. Place(flying, s) = Cardinality(P)
    BY DEF Place
  <2> HIDE DEF P
  <2>3. IsFiniteSet(P)
    BY <2>1, EveryPlace, FS_Subset
  <2>4. Cardinality(P) \in Nat /\ Cardinality(P) # 0
    BY <2>1, <2>3, FS_CardinalityType, FS_EmptySet
  <2>5. QED
    BY <1>1, <1>3, <1>6, <2>2, <2>4
<1>7. inflight' \in Flights
  BY <1>1, <1>4, <1>6 DEF Flights
<1>8. ASSUME NEW i \in 1..Len(queue)
      PROVE  queue[i] \in Queued(pending)' \cup {inflight'[s] : s \in Slots}
  <2>1. CASE i <= n
    <3>1. i \in 1..Cardinality(Free(flying))
      BY <1>1, <1>2, <1>3, <2>1
    <3>2. PICK s \in Free(flying) : Place(flying, s) = i
      BY <3>1, EveryPlace
    <3>3. s \in Slots
      BY DEF Free
    <3>4. inflight'[s] = queue[i]
      BY <1>4, <2>1, <3>2, <3>3
    <3>5. QED
      BY <3>3, <3>4
  <2>2. CASE ~(i <= n)
    <3>1. i - n \in 1..Len(queue) - n /\ n + (i - n) = i
      BY <1>1, <1>3, <2>2
    <3>2. pending'[i - n] = queue[i]
      BY <1>5, <3>1
    <3>3. QED
      BY <1>5, <3>1, <3>2 DEF Queued
  <2>3. QED
    BY <2>1, <2>2
<1>9. ASSUME NEW i \in 1..Len(pending')
      PROVE  n + i \in 1..Len(queue) /\ pending'[i] = queue[n + i]
  BY <1>1, <1>3, <1>5
<1>10. Queued(pending)' \subseteq Queued(queue)
  BY <1>9 DEF Queued
<1>11. \A s \in Slots : inflight'[s] = flying[s] \/ inflight'[s] \in Queued(queue)
  BY <1>4, <1>6 DEF Queued
<1>12. \A s \in Slots : flying[s] # NoJob => inflight'[s] = flying[s]
  BY <1>4 DEF Free
<1>13. ASSUME Distinct(queue) PROVE Distinct(pending)'
  <2>1. SUFFICES ASSUME NEW i \in 1..Len(pending'), NEW j \in 1..Len(pending'),
                        SameKey(pending'[i], pending'[j])
                 PROVE  i = j
    BY DEF Distinct, SameKey
  <2>2. n + i \in 1..Len(queue) /\ n + j \in 1..Len(queue) /\ SameKey(queue[n + i], queue[n + j])
    BY <1>9, <2>1
  <2>3. n + i = n + j
    BY <1>13, <2>2 DEF Distinct
  <2>4. n \in Int /\ i \in Int /\ j \in Int
    BY <1>3
  <2>5. QED
    BY <2>3, <2>4
<1>14. Queued(queue) \subseteq Queued(pending)' \cup {inflight'[s] : s \in Slots}
  BY <1>8 DEF Queued
<1>15. QED
  BY <1>5, <1>7, <1>10, <1>11, <1>12, <1>13, <1>14

-----------------------------------------------------------------------------
Here == Queued(pending) \cup {inflight[s] : s \in Slots}

QueueTypes ==
  /\ pending \in Queues /\ Distinct(pending)
  /\ inflight \in Flights

\* The cards the engine still has.
LEMMA HereAre ==
  ASSUME QueueTypes
  PROVE  Here \subseteq Jobs \cup {NoJob}
<1>1. Queued(pending) \subseteq Jobs
  BY DEF QueueTypes, Queues, Queued
<1>2. QED
  BY <1>1 DEF Here, QueueTypes, Flights

\* No job is mistaken for none.
LEMMA NoJobIsNone ==
  /\ NoJob \notin Jobs /\ NoJob.card = 0
  /\ \A job \in Jobs : job.card \in Nat /\ job.lang \in Langs /\ job.text \in Texts /\ job.speculative \in BOOLEAN
<1>1. NoJob.text = NoText /\ NoJob.card = 0
  BY DEF NoJob, Job
<1>2. \A job \in Jobs : job.card \in Nat /\ job.lang \in Langs /\ job.text \in Texts /\ job.speculative \in BOOLEAN
  BY DEF Jobs
<1>3. QED
  BY <1>1, <1>2, EngineAssumption

\* A request leaves every other one where it was, or further on.
LEMMA AskingKeeps ==
  ASSUME QueueTypes, NEW card \in Nat, NEW text \in Texts, NEW speculative \in BOOLEAN,
         Asks(card, text, speculative)
  PROVE  /\ QueueTypes'
         /\ Here' \subseteq Here \cup Own(card, text, speculative)
         /\ \A id \in Nat \ {0}, l \in Langs : Underway(id, l) => Underway(id, l)'
         /\ ~speculative /\ card # 0 => \A l \in Langs : Underway(card, l)'
<1> DEFINE q == Enqueued(card, text, speculative)
<1>1. /\ AskedUpTo(q, Len(DstLangs), card, text, speculative)
      /\ ~speculative => \A l \in Langs : Waits(q, card, l)
  BY RequestQueued DEF QueueTypes
<1>2. Pumped(q, inflight)
  BY DEF Asks
<1> HIDE DEF q
<1>3. /\ q \in Queues /\ Distinct(q)
      /\ Queued(q) \subseteq Queued(pending) \cup Own(card, text, speculative)
      /\ \A id \in Nat, l \in Langs : Waits(pending, id, l) => Waits(q, id, l)
  BY <1>1 DEF AskedUpTo, QueueTypes
<1>4. inflight \in Flights
  BY DEF QueueTypes
<1>5. /\ pending' \in Queues /\ inflight' \in Flights
      /\ Queued(q) \subseteq Queued(pending)' \cup {inflight'[s] : s \in Slots}
      /\ \A s \in Slots : inflight[s] # NoJob => inflight'[s] = inflight[s]
      /\ Queued(pending)' \subseteq Queued(q)
      /\ \A s \in Slots : inflight'[s] = inflight[s] \/ inflight'[s] \in Queued(q)
      /\ Distinct(q) => Distinct(pending)'
  BY <1>2, <1>3, <1>4, PumpKeeps
<1>6. QueueTypes'
  BY <1>3, <1>5 DEF QueueTypes
<1>7. Here' \subseteq Here \cup Own(card, text, speculative)
  <2>1. Here' = Queued(pending)' \cup {inflight'[s] : s \in Slots}
    BY DEF Here
  <2>2. \A s \in Slots : inflight[s] \in Here
    BY DEF Here
  <2>3. Queued(pending) \subseteq Here
    BY DEF Here
  <2>4. QED
    BY <1>3, <1>5, <2>1, <2>2, <2>3
<1>8. ASSUME NEW id \in Nat, NEW l \in Langs, Waits(q, id, l) PROVE Underway(id, l)'
  <2>1. PICK j \in Queued(q) : j.card = id /\ j.lang = l /\ ~j.speculative
    BY <1>8 DEF Waits, Queued
  <2>2. j \in Queued(pending)' \cup {inflight'[s] : s \in Slots}
    BY <1>5, <2>1
  <2>3. QED
    BY <2>1, <2>2 DEF Underway, Queued
<1>9. ASSUME NEW id \in Nat \ {0}, NEW l \in Langs, Underway(id, l) PROVE Underway(id, l)'
  <2>1. PICK j \in Queued(pending) \cup {inflight[s] : s \in Slots} :
          j.card = id /\ j.lang = l /\ ~j.speculative
    BY <1>9 DEF Underway, Queued
  <2>2. CASE j \in Queued(pending)
    <3>1. Waits(pending, id, l)
      BY <2>1, <2>2 DEF Waits, Queued
    <3>2. QED
      BY <1>3, <1>8, <3>1
  <2>3. CASE j \notin Queued(pending)
    <3>1. PICK s \in Slots : j = inflight[s]
      BY <2>1, <2>3
    <3>2. j # NoJob
      BY <2>1, NoJobIsNone
    <3>3. inflight'[s] = j
      BY <1>5, <3>1, <3>2
    <3>4. QED
      BY <2>1, <3>3 DEF Underway
  <2>4. QED
    BY <2>2, <2>3
<1>10. QED
  BY <1>1, <1>6, <1>7, <1>8, <1>9

\* A slot is freed: no other request is gone.
LEMMA FreeingKeeps ==
  ASSUME QueueTypes, NEW s \in Slots, inflight[s] # NoJob, Freed(s)
  PROVE  /\ QueueTypes'
         /\ Here' \subseteq Here \cup {NoJob}
         /\ \A id \in Nat \ {0}, l \in Langs :
              Underway(id, l) =>
                \/ Underway(id, l)'
                \/ inflight[s].card = id /\ inflight[s].lang = l /\ ~inflight[s].speculative
<1> DEFINE flying == [inflight EXCEPT ![s] = NoJob]
<1>1. flying \in Flights /\ flying[s] = NoJob /\ \A t \in Slots : t # s => flying[t] = inflight[t]
  BY DEF QueueTypes, Flights
<1> HIDE DEF flying
<1>2. pending \in Queues /\ Distinct(pending) /\ inflight \in Flights
  BY DEF QueueTypes
<1>3. /\ pending' \in Queues /\ inflight' \in Flights
      /\ Queued(pending) \subseteq Queued(pending)' \cup {inflight'[t] : t \in Slots}
      /\ \A t \in Slots : flying[t] # NoJob => inflight'[t] = flying[t]
      /\ Queued(pending)' \subseteq Queued(pending)
      /\ \A t \in Slots : inflight'[t] = flying[t] \/ inflight'[t] \in Queued(pending)
      /\ Distinct(pending) => Distinct(pending)'
  <2>1. CASE state # "CLOSED"
    <3>1. Pumped(pending, flying)
      BY <2>1 DEF Freed, flying
    <3>2. QED
      BY <1>1, <1>2, <3>1, PumpKeeps
  <2>2. CASE state = "CLOSED"
    <3>1. inflight' = flying /\ pending' = pending
      BY <2>2 DEF Freed, flying
    <3>2. QED
      BY <1>1, <1>2, <3>1 DEF Queued, Distinct
  <2>3. QED
    BY <2>1, <2>2
<1>4. QueueTypes'
  BY <1>2, <1>3 DEF QueueTypes
<1>5. Here' \subseteq Here \cup {NoJob}
  <2>1. Here' = Queued(pending)' \cup {inflight'[t] : t \in Slots}
    BY DEF Here
  <2>2. \A t \in Slots : flying[t] \in Here \cup {NoJob}
    BY <1>1 DEF Here
  <2>3. Queued(pending) \subseteq Here
    BY DEF Here
  <2>4. QED
    BY <1>3, <2>1, <2>2, <2>3
<1>6. ASSUME NEW id \in Nat \ {0}, NEW l \in Langs, Underway(id, l),
             ~(inflight[s].card = id /\ inflight[s].lang = l /\ ~inflight[s].speculative)
      PROVE  Underway(id, l)'
  <2>1. PICK j \in Queued(pending) \cup {inflight[t] : t \in Slots} :
          j.card = id /\ j.lang = l /\ ~j.speculative
    BY <1>6 DEF Underway, Queued
  <2>2. j \in Queued(pending)' \cup {inflight'[t] : t \in Slots}
    <3>1. CASE j \in Queued(pending)
      BY <1>3, <3>1
    <3>2. CASE j \notin Queued(pending)
      <4>1. PICK t \in Slots : j = inflight[t]
        BY <2>1, <3>2
      <4>2. t # s /\ j # NoJob
        BY <1>6, <2>1, <4>1, NoJobIsNone
      <4>3. inflight'[t] = j
        BY <1>1, <1>3, <4>1, <4>2
      <4>4. QED
        BY <4>3
    <3>3. QED
      BY <3>1, <3>2
  <2>3. QED
    BY <2>1, <2>2 DEF Underway, Queued
<1>7. QED
  BY <1>4, <1>5, <1>6

-----------------------------------------------------------------------------
(* The invariant *)

\* A job is for a card that was opened; one for a commit is not for the live card,
\* and carries the text of the card it is for.
JobIs(job) ==
  job # NoJob =>
    /\ job.card \in 1..opened
    /\ ~job.speculative =>
         /\ job.card = live.id => live = NoCard
         /\ \A c \in SettledCards : c.id = job.card => c.text = job.text

JobsInv == \A job \in Here : JobIs(job)

SessionTypes ==
  /\ state \in {"RUNNING", "DRAINING", "CLOSED"}
  /\ speculated \in 0..MaxSpeculations
  /\ failed \subseteq (Nat \X Langs)

TrInv == EngineInv /\ QueueTypes /\ SessionTypes /\ JobsInv /\ CommitsAreTranslated

\* No request for a commit is out for the card an event is about.
LEMMA NotCommitted ==
  ASSUME EngineInv, QueueTypes, NEW job \in Here, JobIs(job), job # NoJob
  PROVE  /\ job.card \in Nat \ {0} /\ job.card <= opened /\ opened \in Nat
         /\ ~job.speculative => job.card # Current.id
<1>1. opened \in Nat /\ job.card \in 1..opened
  BY DEF JobIs, EngineInv, EngineTypeOK
<1>2. CASE live = NoCard
  BY <1>1, <1>2, CurrentIs
<1>3. CASE live # NoCard
  <2>1. Current = live
    BY <1>3 DEF Current
  <2>2. QED
    BY <1>1, <1>3, <2>1 DEF JobIs
<1>4. QED
  BY <1>2, <1>3
\* A card that is translated stays so.
LEMMA StillTranslated ==
  ASSUME EngineInv, CommitsAreTranslated, SettledCards' = SettledCards, state' = state, failed' = failed,
         \A id \in Nat \ {0}, l \in Langs : Underway(id, l) => Underway(id, l)'
  PROVE  CommitsAreTranslated'
  BY IdsAreReal DEF CommitsAreTranslated

\* A partial transcript may ask, and drops nothing that was asked for a commit.
LEMMA HearsKeeps ==
  ASSUME TrInv, NEW text \in Texts, PartialAsks(text)
  PROVE  TrInv'
<1>1. EngineInv /\ QueueTypes /\ SessionTypes /\ JobsInv /\ CommitsAreTranslated
  BY DEF TrInv
<1>2. Partial(text) /\ state' = state /\ failed' = failed
  BY DEF PartialAsks
<1>3. /\ EngineInv' /\ settled' = settled /\ live' # NoCard
      /\ opened' = Current.id /\ live'.id = Current.id
  BY <1>1, <1>2, PartialKeeps
<1>4. Current.id \in Nat \ {0} /\ opened \in Nat /\ opened <= Current.id
  <2>1. opened \in Nat
    BY <1>1 DEF EngineInv, EngineTypeOK
  <2>2. QED
    BY <1>1, <2>1, CurrentIs
<1>5. /\ QueueTypes'
      /\ Here' \subseteq Here \cup Own(Current.id, text, TRUE)
      /\ \A id \in Nat \ {0}, l \in Langs : Underway(id, l) => Underway(id, l)'
  <2>1. CASE UNCHANGED queueVars
    BY <1>1, <2>1 DEF QueueTypes, queueVars, Distinct, Here, Queued, Underway, SameKey
  <2>2. CASE Asks(Current.id, text, TRUE)
    BY <1>1, <1>4, <2>2, AskingKeeps
  <2>3. QED
    BY <2>1, <2>2 DEF PartialAsks
<1>6. SessionTypes'
  <2>1. speculated \in 0..MaxSpeculations /\ MaxSpeculations \in Nat
    BY <1>1, TranslationsAssumption DEF SessionTypes
  <2>2. PICK before \in 0..MaxSpeculations :
          speculated' = before \/ (before < MaxSpeculations /\ speculated' = before + 1)
    <3> DEFINE before == IF live = NoCard THEN 0 ELSE speculated
    <3>1. before \in 0..MaxSpeculations
      BY <2>1
    <3>2. speculated' = before \/ (before < MaxSpeculations /\ speculated' = before + 1)
      BY DEF PartialAsks
    <3> HIDE DEF before
    <3>3. QED
      BY <3>1, <3>2
  <2>3. speculated' \in 0..MaxSpeculations
    BY <2>1, <2>2
  <2>4. QED
    BY <1>1, <1>2, <2>3 DEF SessionTypes
<1>7. SettledCards' = SettledCards
  BY <1>3 DEF SettledCards
<1>8. ASSUME NEW job \in Here', job # NoJob PROVE JobIs(job)'
  <2>1. CASE job \in Here
    <3>1. JobIs(job)
      BY <1>1, <2>1 DEF JobsInv
    <3>2. /\ job.card \in Nat \ {0} /\ job.card <= opened
          /\ ~job.speculative => job.card # Current.id
      BY <1>1, <1>8, <2>1, <3>1, NotCommitted
    <3>3. job.card \in 1..opened'
      BY <1>3, <1>4, <3>2
    <3>4. ~job.speculative => \A c \in SettledCards : c.id = job.card => c.text = job.text
      BY <1>8, <3>1 DEF JobIs
    <3>5. QED
      BY <1>3, <1>7, <3>2, <3>3, <3>4 DEF JobIs
  <2>2. CASE job \in Own(Current.id, text, TRUE)
    <3>1. job.card = Current.id /\ job.speculative
      BY <2>2 DEF Own, Job
    <3>2. job.card \in 1..opened'
      BY <1>3, <1>4, <3>1
    <3>3. QED
      BY <3>1, <3>2 DEF JobIs
  <2>3. QED
    BY <1>5, <2>1, <2>2
<1>9. JobsInv'
  BY <1>8 DEF JobsInv, JobIs
<1>10. CommitsAreTranslated'
  BY <1>1, <1>2, <1>5, <1>7, StillTranslated
<1>11. QED
  BY <1>3, <1>5, <1>6, <1>9, <1>10 DEF TrInv

\* A commit asks for every language.
LEMMA SettlesKeeps ==
  ASSUME TrInv, NEW text \in Texts, CommitAsks(text)
  PROVE  TrInv'
<1>1. EngineInv /\ QueueTypes /\ SessionTypes /\ JobsInv /\ CommitsAreTranslated
  BY DEF TrInv
<1>2. Commit(text) /\ Asks(Current.id, text, FALSE) /\ speculated' = 0 /\ state' = state /\ failed' = failed
  BY DEF CommitAsks
<1>3. EngineInv' /\ live' = NoCard /\ opened' = Current.id
  BY <1>1, <1>2, CommitKeeps
<1>4. PICK k \in Card : k.id = Current.id /\ k.text = text /\ SettledCards' \subseteq SettledCards \cup {k}
  BY <1>1, <1>2, CommitKeeps
<1>5. Current.id \in Nat \ {0} /\ opened \in Nat /\ opened <= Current.id
  <2>1. opened \in Nat
    BY <1>1 DEF EngineInv, EngineTypeOK
  <2>2. QED
    BY <1>1, <2>1, CurrentIs
<1> PICK own \in Nat \ {0} : own = Current.id
  BY <1>5
<1>6. /\ QueueTypes'
      /\ Here' \subseteq Here \cup Own(own, text, FALSE)
      /\ \A id \in Nat \ {0}, l \in Langs : Underway(id, l) => Underway(id, l)'
      /\ \A l \in Langs : Underway(own, l)'
  BY <1>1, <1>2, AskingKeeps
<1>7. SessionTypes'
  BY <1>1, <1>2, TranslationsAssumption DEF SessionTypes
<1>8. ASSUME NEW job \in Here', job # NoJob PROVE JobIs(job)'
  <2>1. CASE job \in Here
    <3>1. JobIs(job)
      BY <1>1, <2>1 DEF JobsInv
    <3>2. /\ job.card \in Nat \ {0} /\ job.card <= opened
          /\ ~job.speculative => job.card # Current.id
      BY <1>1, <1>8, <2>1, <3>1, NotCommitted
    <3>3. job.card \in 1..opened'
      BY <1>3, <1>5, <3>2
    <3>4. ~job.speculative => \A c \in SettledCards : c.id = job.card => c.text = job.text
      BY <1>8, <3>1 DEF JobIs
    <3>5. ~job.speculative => \A c \in SettledCards' : c.id = job.card => c.text = job.text
      BY <1>4, <3>2, <3>4
    <3>6. QED
      BY <1>3, <3>3, <3>5 DEF JobIs
  <2>2. CASE job \in Own(own, text, FALSE)
    <3>1. job.card = Current.id /\ job.text = text
      BY <2>2 DEF Own, Job
    <3>2. job.card \in 1..opened'
      BY <1>3, <1>5, <3>1
    <3>3. \A c \in SettledCards' : c.id = job.card => c.text = job.text
      BY <1>1, <1>4, <3>1, IdsAreReal
    <3>4. QED
      BY <1>3, <3>2, <3>3 DEF JobIs
  <2>3. QED
    BY <1>6, <2>1, <2>2
<1>9. JobsInv'
  BY <1>8 DEF JobsInv, JobIs
<1>10. CommitsAreTranslated'
  <2>1. SUFFICES ASSUME state = "RUNNING", NEW c \in SettledCards', NEW l \in Langs
                 PROVE  (c.tr[l] = [of |-> c.text, final |-> TRUE]) \/ Underway(c.id, l)' \/ <<c.id, l>> \in failed
    BY <1>2 DEF CommitsAreTranslated
  <2>2. CASE c \in SettledCards
    <3>1. (c.tr[l] = [of |-> c.text, final |-> TRUE]) \/ Underway(c.id, l) \/ <<c.id, l>> \in failed
      BY <1>1, <2>1, <2>2 DEF CommitsAreTranslated
    <3>2. c.id \in Nat \ {0}
      BY <1>1, <2>2, IdsAreReal
    <3>3. QED
      BY <1>6, <3>1, <3>2
  <2>3. CASE c = k
    <3>1. c.id = own
      BY <1>4, <2>3
    <3>2. QED
      BY <1>6, <3>1
  <2>4. c \in SettledCards \/ c = k
    BY <1>4, <2>1
  <2>5. QED
    BY <2>2, <2>3, <2>4
<1>11. QED
  BY <1>3, <1>6, <1>7, <1>9, <1>10 DEF TrInv

\* Jobs that are what they were.
LEMMA JobsStay ==
  ASSUME JobsInv, Here' \subseteq Here \cup {NoJob}, opened' = opened, live' = NoCard \/ live' = live,
         \A t \in SettledCards' : \E c \in SettledCards : t.id = c.id /\ t.text = c.text
  PROVE  JobsInv'
<1>1. SUFFICES ASSUME NEW job \in Here', job # NoJob PROVE JobIs(job)'
  BY DEF JobsInv, JobIs
<1>2. JobIs(job)
  BY <1>1 DEF JobsInv
<1>3. QED
  BY <1>1, <1>2 DEF JobIs

\* Silence asks for nothing.
LEMMA QuietKeeps ==
  ASSUME TrInv, SilenceCloses
  PROVE  TrInv'
<1>1. EngineInv /\ QueueTypes /\ SessionTypes /\ JobsInv /\ CommitsAreTranslated
  BY DEF TrInv
<1>2. CloseLive /\ speculated' = 0 /\ state' = state /\ pending' = pending /\ inflight' = inflight /\ failed' = failed
  BY DEF SilenceCloses, queueVars
<1>3. EngineInv' /\ live' = NoCard /\ settled' = settled /\ opened' = opened
  BY <1>1, <1>2, ClosingKeeps
<1>4. QueueTypes' /\ Here' = Here /\ \A id, l : Underway(id, l) => Underway(id, l)'
  BY <1>1, <1>2 DEF QueueTypes, Distinct, Here, Queued, Underway, SameKey
<1>5. SessionTypes'
  BY <1>1, <1>2, TranslationsAssumption DEF SessionTypes
<1>6. SettledCards' = SettledCards
  BY <1>3 DEF SettledCards
<1>7. JobsInv'
  BY <1>1, <1>3, <1>4, <1>6, JobsStay
<1>8. CommitsAreTranslated'
  BY <1>1, <1>2, <1>4, <1>6, StillTranslated
<1>9. QED
  BY <1>3, <1>4, <1>5, <1>7, <1>8 DEF TrInv

\* A result the engine does not take is not one that a commit waits for.
LEMMA NotTaken ==
  ASSUME EngineInv, NEW s \in Slots, ~Takes(inflight[s]), NEW c \in SettledCards, c.id = inflight[s].card
  PROVE  inflight[s].speculative
<1>1. c # NoCard
  BY IdsAreReal
<1>2. ~Accepts(c, ~inflight[s].speculative)
  BY <1>1 DEF Takes
<1>3. QED
  BY <1>2 DEF Accepts

\* An answer is applied, and its slot taken by the next job.
LEMMA AnswersKeeps ==
  ASSUME TrInv, NEW s \in Slots, Answers(s)
  PROVE  TrInv'
<1>1. EngineInv /\ QueueTypes /\ SessionTypes /\ JobsInv /\ CommitsAreTranslated
  BY DEF TrInv
<1> PICK job : job = inflight[s]
  OBVIOUS
<1>2. job # NoJob /\ Freed(s) /\ state' = state /\ speculated' = speculated /\ failed' = failed
  BY DEF Answers
<1>3. /\ QueueTypes'
      /\ Here' \subseteq Here \cup {NoJob}
      /\ \A id \in Nat \ {0}, l \in Langs :
           Underway(id, l) => Underway(id, l)' \/ (job.card = id /\ job.lang = l /\ ~job.speculative)
  BY <1>1, <1>2, FreeingKeeps
<1>4. job \in Here /\ JobIs(job)
  BY <1>1 DEF Here, JobsInv
<1>5. job.card \in Nat \ {0} /\ job.lang \in Langs /\ job.text \in Texts /\ job.speculative \in BOOLEAN
  <2>1. job \in Jobs
    BY <1>1, <1>2, <1>4, HereAre
  <2>2. QED
    BY <1>1, <1>2, <1>4, <2>1, NotCommitted, NoJobIsNone
<1>6. SessionTypes'
  BY <1>1, <1>2 DEF SessionTypes
<1>7. CASE ~(state # "CLOSED" /\ Takes(job))
  <2>1. live' = live /\ settled' = settled /\ opened' = opened
    BY <1>7 DEF Answers, engineVars
  <2>2. SettledCards' = SettledCards
    BY <2>1 DEF SettledCards
  <2>3. EngineInv'
    BY <1>1, <2>1, <2>2 DEF EngineInv, EngineTypeOK, CardsInv
  <2>4. JobsInv'
    BY <1>1, <1>3, <2>1, <2>2, JobsStay
  <2>5. CommitsAreTranslated'
    <3>1. SUFFICES ASSUME state = "RUNNING", NEW c \in SettledCards, NEW l \in Langs
                   PROVE  (c.tr[l] = [of |-> c.text, final |-> TRUE]) \/ Underway(c.id, l)' \/ <<c.id, l>> \in failed
      BY <1>2, <2>2 DEF CommitsAreTranslated
    <3>2. (c.tr[l] = [of |-> c.text, final |-> TRUE]) \/ Underway(c.id, l) \/ <<c.id, l>> \in failed
      BY <1>1, <3>1 DEF CommitsAreTranslated
    <3>3. c.id \in Nat \ {0}
      BY <1>1, IdsAreReal
    <3>4. ~(job.card = c.id /\ ~job.speculative)
      BY <1>1, <1>7, <3>1, NotTaken
    <3>5. QED
      BY <1>3, <3>2, <3>3, <3>4
  <2>6. QED
    BY <1>3, <1>6, <2>3, <2>4, <2>5 DEF TrInv
<1>8. CASE state # "CLOSED" /\ Takes(job)
  <2>1. ApplyTranslation(job.card, job.lang, job.text, ~job.speculative)
    BY <1>8 DEF Answers
  <2> PICK final \in BOOLEAN : final <=> ~job.speculative
    OBVIOUS
  <2>2. ApplyTranslation(job.card, job.lang, job.text, final)
    BY <2>1, <1>5
  <2>3. /\ EngineInv' /\ opened' = opened /\ live'.id = live.id /\ (live' = NoCard <=> live = NoCard)
        /\ \A t \in SettledCards' : \E c \in SettledCards :
             /\ t.id = c.id /\ t.text = c.text
             /\ \/ t = c /\ c.id # job.card
                \/ /\ c.id = job.card /\ Accepts(c, final)
                   /\ t.tr[job.lang] = [of |-> job.text, final |-> final]
                   /\ \A l \in Langs : l # job.lang => t.tr[l] = c.tr[l]
    BY <1>1, <1>5, <2>2, ApplyKeeps
  <2>4. JobsInv'
    <3>1. SUFFICES ASSUME NEW j \in Here', j # NoJob PROVE JobIs(j)'
      BY DEF JobsInv, JobIs
    <3>2. JobIs(j)
      BY <1>1, <1>3, <3>1 DEF JobsInv
    <3>3. QED
      BY <2>3, <3>1, <3>2 DEF JobIs
  <2>5. CommitsAreTranslated'
    <3>1. SUFFICES ASSUME state = "RUNNING", NEW t \in SettledCards', NEW l \in Langs
                   PROVE  (t.tr[l] = [of |-> t.text, final |-> TRUE]) \/ Underway(t.id, l)' \/ <<t.id, l>> \in failed
      BY <1>2 DEF CommitsAreTranslated
    <3>2. PICK c \in SettledCards :
            /\ t.id = c.id /\ t.text = c.text
            /\ \/ t = c /\ c.id # job.card
               \/ /\ c.id = job.card /\ Accepts(c, final)
                  /\ t.tr[job.lang] = [of |-> job.text, final |-> final]
                  /\ \A k \in Langs : k # job.lang => t.tr[k] = c.tr[k]
      BY <2>3
    <3>3. (c.tr[l] = [of |-> c.text, final |-> TRUE]) \/ Underway(c.id, l) \/ <<c.id, l>> \in failed
      BY <1>1, <3>1 DEF CommitsAreTranslated
    <3>4. c.id \in Nat \ {0}
      BY <1>1, IdsAreReal
    <3>5. CASE c.id # job.card
      BY <1>3, <3>2, <3>3, <3>4, <3>5
    <3>6. CASE c.id = job.card /\ l # job.lang
      BY <1>3, <3>2, <3>3, <3>4, <3>6
    <3>7. CASE c.id = job.card /\ l = job.lang /\ ~job.speculative
      <4>1. c.text = job.text
        BY <1>2, <1>4, <3>7 DEF JobIs
      <4>2. final = TRUE
        BY <3>7
      <4>3. QED
        BY <3>2, <3>7, <4>1, <4>2
    <3>8. CASE c.id = job.card /\ l = job.lang /\ job.speculative
      <4>1. ~c.trFinal
        BY <3>2, <3>8 DEF Accepts
      <4>2. ~c.tr[l].final
        BY <1>1, <4>1 DEF EngineInv, CardsInv
      <4>3. Underway(c.id, l) \/ <<c.id, l>> \in failed
        BY <3>3, <4>2
      <4>4. QED
        BY <1>3, <3>2, <3>4, <3>8, <4>3
    <3>9. QED
      BY <1>5, <3>5, <3>6, <3>7, <3>8
  <2>6. QED
    BY <1>3, <1>6, <2>3, <2>4, <2>5 DEF TrInv
<1>9. QED
  BY <1>7, <1>8

\* A failure frees the slot.
LEMMA FailsKeeps ==
  ASSUME TrInv, NEW s \in Slots, Fails(s)
  PROVE  TrInv'
<1>1. EngineInv /\ QueueTypes /\ SessionTypes /\ JobsInv /\ CommitsAreTranslated
  BY DEF TrInv
<1> PICK job : job = inflight[s]
  OBVIOUS
<1>2. /\ job # NoJob /\ Freed(s) /\ state' = state /\ speculated' = speculated
      /\ live' = live /\ settled' = settled /\ opened' = opened
      /\ failed' = IF job.speculative THEN failed ELSE failed \cup {<<job.card, job.lang>>}
  BY DEF Fails, engineVars
<1>3. /\ QueueTypes'
      /\ Here' \subseteq Here \cup {NoJob}
      /\ \A id \in Nat \ {0}, l \in Langs :
           Underway(id, l) => Underway(id, l)' \/ (job.card = id /\ job.lang = l /\ ~job.speculative)
  BY <1>1, <1>2, FreeingKeeps
<1>4. job.card \in Nat /\ job.lang \in Langs
  <2>1. job \in Jobs
    BY <1>1, <1>2, HereAre DEF Here
  <2>2. QED
    BY <2>1, NoJobIsNone
<1>5. SessionTypes'
  BY <1>1, <1>2, <1>4 DEF SessionTypes
<1>6. SettledCards' = SettledCards
  BY <1>2 DEF SettledCards
<1>7. EngineInv'
  BY <1>1, <1>2, <1>6 DEF EngineInv, EngineTypeOK, CardsInv
<1>8. JobsInv'
  BY <1>1, <1>2, <1>3, <1>6, JobsStay
<1>9. CommitsAreTranslated'
  <2>1. SUFFICES ASSUME state = "RUNNING", NEW c \in SettledCards, NEW l \in Langs
                 PROVE  (c.tr[l] = [of |-> c.text, final |-> TRUE]) \/ Underway(c.id, l)' \/ <<c.id, l>> \in failed'
    BY <1>2, <1>6 DEF CommitsAreTranslated
  <2>2. (c.tr[l] = [of |-> c.text, final |-> TRUE]) \/ Underway(c.id, l) \/ <<c.id, l>> \in failed
    BY <1>1, <2>1 DEF CommitsAreTranslated
  <2>3. c.id \in Nat \ {0}
    BY <1>1, IdsAreReal
  <2>4. failed \subseteq failed' /\ (~job.speculative => <<job.card, job.lang>> \in failed')
    BY <1>2
  <2>5. QED
    BY <1>3, <2>2, <2>3, <2>4
<1>10. QED
  BY <1>3, <1>5, <1>7, <1>8, <1>9 DEF TrInv

\* The session ends: what waits for the translator is dropped.
LEMMA EndingKeeps ==
  ASSUME TrInv, Drain \/ EndSession
  PROVE  TrInv'
<1>1. EngineInv /\ QueueTypes /\ SessionTypes /\ JobsInv /\ CommitsAreTranslated
  BY DEF TrInv
<1>2. /\ live' = live /\ settled' = settled /\ opened' = opened
      /\ speculated' = speculated /\ inflight' = inflight /\ failed' = failed
      /\ state' \in {"DRAINING", "CLOSED"} /\ (pending' = pending \/ pending' = <<>>)
  BY DEF Drain, EndSession, engineVars, queueVars
<1>3. SettledCards' = SettledCards
  BY <1>2 DEF SettledCards
<1>4. EngineInv'
  BY <1>1, <1>2, <1>3 DEF EngineInv, EngineTypeOK, CardsInv
<1>5. QueueTypes' /\ Here' \subseteq Here
  <2>1. CASE pending' = pending
    BY <1>1, <1>2, <2>1 DEF QueueTypes, Distinct, Here, Queued, SameKey
  <2>2. CASE pending' = <<>>
    <3>1. pending' \in Queues /\ Len(pending') = 0
      BY <2>2 DEF Queues
    <3>2. Distinct(pending)' /\ Queued(pending)' = {}
      BY <3>1 DEF Distinct, Queued
    <3>3. Here' \subseteq Here
      BY <1>2, <3>2 DEF Here
    <3>4. QED
      BY <1>1, <1>2, <3>1, <3>2, <3>3 DEF QueueTypes
  <2>3. QED
    BY <1>2, <2>1, <2>2
<1>6. SessionTypes'
  BY <1>1, <1>2 DEF SessionTypes
<1>7. JobsInv'
  BY <1>1, <1>2, <1>3, <1>5, JobsStay
<1>8. CommitsAreTranslated'
  BY <1>2 DEF CommitsAreTranslated
<1>9. QED
  BY <1>4, <1>5, <1>6, <1>7, <1>8 DEF TrInv

\* The inductive invariant of the queue.
LEMMA TrInvHolds == TranslateSpec => []TrInv
<1>1. TranslateInit => TrInv
  <2>1. SUFFICES ASSUME TranslateInit PROVE TrInv
    OBVIOUS
  <2>2. /\ live = NoCard /\ settled = <<>> /\ opened = 0 /\ state = "RUNNING" /\ speculated = 0
        /\ pending = <<>> /\ inflight = [s \in Slots |-> NoJob] /\ failed = {}
    BY <2>1 DEF TranslateInit, EngineInit
  <2>3. SettledCards = {} /\ settled \in Seq(Card) /\ Len(settled) = 0
    BY <2>2 DEF SettledCards
  <2>4. EngineInv
    BY <2>2, <2>3, NoCardIs DEF EngineInv, EngineTypeOK, CardsInv
  <2>5. QueueTypes /\ Queued(pending) = {}
    BY <2>2 DEF QueueTypes, Queues, Flights, Distinct, Queued
  <2>6. SessionTypes
    BY <2>2, TranslationsAssumption DEF SessionTypes
  <2>7. JobsInv
    BY <2>2, <2>5 DEF JobsInv, JobIs, Here
  <2>8. CommitsAreTranslated
    BY <2>3 DEF CommitsAreTranslated
  <2>9. QED
    BY <2>4, <2>5, <2>6, <2>7, <2>8 DEF TrInv
<1>2. TrInv /\ [TranslateNext]_translateVars => TrInv'
  <2>1. SUFFICES ASSUME TrInv, [TranslateNext]_translateVars PROVE TrInv'
    OBVIOUS
  <2>2. CASE UNCHANGED translateVars
    <3>1. /\ live' = live /\ settled' = settled /\ opened' = opened /\ state' = state /\ speculated' = speculated
          /\ pending' = pending /\ inflight' = inflight /\ failed' = failed
      BY <2>2 DEF translateVars, engineVars, queueVars
    <3>2. EngineInv' /\ QueueTypes' /\ SessionTypes'
      BY <2>1, <3>1 DEF TrInv, EngineInv, EngineTypeOK, CardsInv, SettledCards, QueueTypes, Distinct, SameKey, SessionTypes
    <3>3. JobsInv'
      BY <2>1, <3>1 DEF TrInv, JobsInv, JobIs, Here, Queued, SettledCards
    <3>4. CommitsAreTranslated'
      <4>1. SettledCards' = SettledCards /\ \A id, l : Underway(id, l) => Underway(id, l)'
        BY <3>1 DEF SettledCards, Underway
      <4>2. QED
        BY <2>1, <3>1, <4>1, StillTranslated DEF TrInv
    <3>5. QED
      BY <3>2, <3>3, <3>4 DEF TrInv
  <2>3. ASSUME NEW text \in Texts, PartialAsks(text) \/ CommitAsks(text) PROVE TrInv'
    BY <2>1, <2>3, HearsKeeps, SettlesKeeps
  <2>4. CASE SilenceCloses
    BY <2>1, <2>4, QuietKeeps
  <2>5. ASSUME NEW s \in Slots, Answers(s) \/ Fails(s) PROVE TrInv'
    BY <2>1, <2>5, AnswersKeeps, FailsKeeps
  <2>6. CASE Drain \/ EndSession
    BY <2>1, <2>6, EndingKeeps
  <2>7. QED
    BY <2>1, <2>2, <2>3, <2>4, <2>5, <2>6 DEF TranslateNext
<1>3. QED
  BY <1>1, <1>2, PTL DEF TranslateSpec

\* Types, and one job at most waits for a card and a language (pendingTranslations,
\* session-actor.ts).
THEOREM TranslationsTypes == TranslateSpec => []TranslateTypeOK
<1>1. TrInv => TranslateTypeOK
  BY DEF TrInv, EngineInv, QueueTypes, SessionTypes, TranslateTypeOK, Queues, Flights, Distinct
<1>2. QED
  BY <1>1, TrInvHolds, PTL

\* A committed card the engine still has gets its own translation in every language, or the
\* translator has failed: no speculative request takes its place, and no late answer
\* (session-actor.ts, enqueueTranslation and pumpTranslations).
THEOREM TranslationsCommitsAreTranslated == TranslateSpec => []CommitsAreTranslated
<1>1. TrInv => CommitsAreTranslated
  BY DEF TrInv
<1>2. QED
  BY <1>1, TrInvHolds, PTL

-----------------------------------------------------------------------------
(***************************************************************************)
(* The wire of a session and one captions page, for every history limit,   *)
(* backlog and size of the page.                                           *)
(*                                                                         *)
(* What is on its way to an attached page is what it has not seen of the   *)
(* wire (WireInv). Unseen is a fold: it is given step by step              *)
(* (UnseenSifts), so what is unseen of two lists one after the other is    *)
(* what is unseen of each (UnseenConcat), the first message is the first   *)
(* frame that is kept, and what follows it is what is unseen after that    *)
(* one (UnseenFirst).                                                      *)
(*                                                                         *)
(* A page that is behind shows less than the engine has, and says nothing  *)
(* about it. The invariant is about what the page will show: the page it   *)
(* would be if it had read the rest of the wire (Ends, Fits) agrees with   *)
(* the engine now, has no card twice, and still has the live card, with    *)
(* none after it but settled cards that the engine has too (Good). The     *)
(* last of these is what makes the invariant inductive: a frame about a    *)
(* card the page has thrown away puts that card back at the end, and must  *)
(* not push out the live one, whose translations no later frame may        *)
(* repeat. It holds because the page has room for one card more than the   *)
(* engine settles (CaptionStoreAssumption, OnAirSurvives).                 *)
(***************************************************************************)

(* Sifting frames *)

\* A frame for the page, after the one with number from.
Keeps(from, f) == f.seq > from /\ ForCaptions(f)

\* g[n] is what is kept of the first n frames of s.
Sifts(g, from, s) ==
  /\ g \in [0..Len(s) -> Seq(Frames)] /\ g[0] = <<>>
  /\ \A n \in 1..Len(s) : g[n] = IF Keeps(from, s[n]) THEN Append(g[n - 1], s[n]) ELSE g[n - 1]

\* Unseen, step by step.
LEMMA UnseenSifts ==
  ASSUME NEW from, NEW s \in Seq(Frames)
  PROVE  \E g : Sifts(g, from, s) /\ Unseen(from, s) = g[Len(s)]
<1> DEFINE n == Len(s)
           Step(out, f) == IF Keeps(from, f) THEN Append(out, f) ELSE out
           step == [p \in (1..n) \X Seq(Frames) |-> Step(p[2], s[p[1]])]
           IsFold(f) ==
             f = [S \in SUBSET DOMAIN s |-> IF S = {} THEN <<>> ELSE Step(f[S \ {Max(S)}], s[Max(S)])]
           F == CHOOSE f : IsFold(f)
<1>1. n \in Nat /\ DOMAIN s = 1..n /\ <<>> \in Seq(Frames) /\ \A i \in 1..n : s[i] \in Frames
  BY EmptySeq
<1>2. ASSUME NEW i \in 1..n, NEW out \in Seq(Frames) PROVE Step(out, s[i]) \in Seq(Frames)
  BY <1>1, AppendProperties
<1>3. /\ step \in [(1..n) \X Seq(Frames) -> Seq(Frames)]
      /\ \A i \in 1..n, out \in Seq(Frames) : step[<<i, out>>] = Step(out, s[i])
  BY <1>2
<1>4. Unseen(from, s) = F[DOMAIN s]
  BY DEF Unseen, FoldLeft, MapThenFoldSet, Keeps
<1>5. IsFold(F)
  <2>1. PICK f \in [SUBSET (1..n) -> Seq(Frames)] : FoldsTo(f, n, step, <<>>)
    <3> HIDE DEF step
    <3>1. QED
      BY <1>1, <1>3, FoldExists
  <2>2. ASSUME NEW S \in SUBSET (1..n)
        PROVE  f[S] = IF S = {} THEN <<>> ELSE Step(f[S \ {Max(S)}], s[Max(S)])
    <3>1. CASE S = {}
      BY <2>1, <3>1 DEF FoldsTo
    <3>2. CASE S # {}
      <4>1. Max(S) \in 1..n
        BY <1>1, <3>2, GreatestIn
      <4>2. f[S \ {Max(S)}] \in Seq(Frames)
        BY <2>1
      <4>3. f[S] = step[<<Max(S), f[S \ {Max(S)}]>>]
        BY <2>1, <3>2 DEF FoldsTo
      <4> HIDE DEF step, Step
      <4>4. QED
        BY <1>3, <3>2, <4>1, <4>2, <4>3
    <3>3. QED
      BY <3>1, <3>2
  <2>3. f = [S \in SUBSET (1..n) |-> f[S]]
    BY <2>1
  <2>4. IsFold(f)
    <3> HIDE DEF Step
    <3>1. QED
      BY <1>1, <2>2, <2>3
  <2> HIDE DEF IsFold
  <2>5. QED
    BY <2>4
<1>6. \A S \in SUBSET (1..n) :
        F[S] = IF S = {} THEN <<>> ELSE Step(F[S \ {Max(S)}], s[Max(S)])
  <2> HIDE DEF F, Step
  <2>1. QED
    BY <1>1, <1>5
<1> HIDE DEF F, IsFold, step
<1>7. ASSUME NEW m \in 1..n PROVE F[1..m] = Step(F[1..m - 1], s[m])
  <2>1. m \in Nat \ {0} /\ 1..m \in SUBSET (1..n)
    BY <1>1
  <2>2. Max(1..m) = m /\ 1..m # {} /\ (1..m) \ {m} = 1..m - 1
    BY <2>1, GreatestUpTo
  <2> HIDE DEF Step
  <2>3. QED
    BY <1>6, <2>1, <2>2
<1>8. F[1..0] = <<>>
  <2>1. 1..0 = {} /\ {} \in SUBSET (1..n)
    OBVIOUS
  <2>2. QED
    BY <1>6, <2>1
<1> DEFINE T == {m \in 0..n : F[1..m] \in Seq(Frames)}
<1>9. \A m \in 0..n : m \in T
  <2>1. 0 \in T
    <3>1. 0 \in 0..n /\ F[1..0] \in Seq(Frames)
      BY <1>1, <1>8
    <3>2. QED
      BY <3>1
  <2>2. \A m \in 0 + 1..n : m - 1 \in T => m \in T
    <3>1. SUFFICES ASSUME NEW m \in 1..n, m - 1 \in T PROVE F[1..m] \in Seq(Frames)
      BY <1>1
    <3>2. F[1..m - 1] \in Seq(Frames)
      BY <3>1
    <3> HIDE DEF Step
    <3>3. QED
      BY <1>2, <1>7, <3>2
  <2> HIDE DEF T
  <2>3. QED
    BY <1>1, <2>1, <2>2, Climbs
<1> DEFINE g == [m \in 0..n |-> F[1..m]]
<1>10. g \in [0..n -> Seq(Frames)]
  BY <1>9
<1>11. g[0] = <<>> /\ \A m \in 1..n : g[m] = Step(g[m - 1], s[m])
  <2>1. ASSUME NEW m \in 1..n PROVE g[m] = Step(g[m - 1], s[m])
    <3>1. m \in 0..n /\ m - 1 \in 0..n
      BY <1>1
    <3>2. g[m] = F[1..m] /\ g[m - 1] = F[1..m - 1]
      BY <3>1
    <3> HIDE DEF g, Step
    <3>3. QED
      BY <1>7, <3>2
  <2>2. g[0] = F[1..0]
    BY <1>1
  <2>3. QED
    BY <1>8, <2>1, <2>2
<1>12. Unseen(from, s) = g[n]
  BY <1>1, <1>4
<1> HIDE DEF g
<1>13. Sifts(g, from, s)
  BY <1>10, <1>11 DEF Sifts
<1>14. QED
  BY <1>12, <1>13

\* As long as no frame is for the page nothing is kept.
LEMMA NothingKept ==
  ASSUME NEW from, NEW s \in Seq(Frames), NEW g, Sifts(g, from, s), NEW n \in 0..Len(s),
         \A i \in 1..n : ~Keeps(from, s[i])
  PROVE  g[n] = <<>>
<1> DEFINE S == {m \in 0..n : g[m] = <<>>}
<1>1. Len(s) \in Nat /\ n \in Nat /\ n <= Len(s)
  OBVIOUS
<1>2. 0 \in S
  BY <1>1 DEF Sifts
<1>3. \A m \in 0 + 1..n : m - 1 \in S => m \in S
  <2>1. SUFFICES ASSUME NEW m \in 1..n, m - 1 \in S PROVE g[m] = <<>>
    BY <1>1
  <2>2. m \in 1..Len(s)
    BY <1>1
  <2>3. g[m] = g[m - 1]
    BY <2>2 DEF Sifts
  <2>4. QED
    BY <2>1, <2>3
<1>4. n \in S
  <2> HIDE DEF S
  <2>1. \A m \in 0..n : m \in S
    BY <1>1, <1>2, <1>3, Climbs
  <2>2. QED
    BY <1>1, <2>1
<1>5. QED
  BY <1>4

\* Nothing is unseen if nothing is kept.
LEMMA UnseenNone ==
  ASSUME NEW from, NEW s \in Seq(Frames), \A i \in 1..Len(s) : ~Keeps(from, s[i])
  PROVE  Unseen(from, s) = <<>>
<1>1. PICK g : Sifts(g, from, s) /\ Unseen(from, s) = g[Len(s)]
  BY UnseenSifts
<1>2. Len(s) \in 0..Len(s)
  OBVIOUS
<1>3. QED
  BY <1>1, <1>2, NothingKept

\* What is unseen is a list of frames.
LEMMA UnseenIsSeq ==
  ASSUME NEW from, NEW s \in Seq(Frames)
  PROVE  Unseen(from, s) \in Seq(Frames)
<1>1. PICK g : Sifts(g, from, s) /\ Unseen(from, s) = g[Len(s)]
  BY UnseenSifts
<1>2. Len(s) \in 0..Len(s)
  OBVIOUS
<1>3. QED
  BY <1>1, <1>2 DEF Sifts

AppendsToBoth(a, b, e) == Append(a \o b, e) = a \o Append(b, e)

\* Appending to the second of two lists.
LEMMA ConcatAppend ==
  ASSUME NEW X, NEW a \in Seq(X), NEW b \in Seq(X), NEW e \in X
  PROVE  AppendsToBoth(a, b, e)
<1>1. <<e>> \in Seq(X) /\ a \o b \in Seq(X)
  BY ConcatProperties
<1>2. Append(a \o b, e) = (a \o b) \o <<e>> /\ Append(b, e) = b \o <<e>>
  BY <1>1, AppendIsConcat
<1>3. (a \o b) \o <<e>> = a \o (b \o <<e>>)
  BY <1>1, ConcatAssociative
<1>4. QED
  BY <1>2, <1>3 DEF AppendsToBoth

\* What is kept of s, and of t after it.
SameFor(from, low, t) == \A i \in 1..Len(t) : Keeps(from, t[i]) <=> Keeps(low, t[i])
Joined(from, low, s, t) == Unseen(from, s \o t) = Unseen(from, s) \o Unseen(low, t)

\* What is unseen of two lists one after the other.
LEMMA UnseenConcat ==
  ASSUME NEW from, NEW low, NEW s \in Seq(Frames), NEW t \in Seq(Frames), SameFor(from, low, t)
  PROVE  Joined(from, low, s, t)
<1> DEFINE ls == Len(s)
           lt == Len(t)
           st == s \o t
<1>1. /\ st \in Seq(Frames) /\ Len(st) = ls + lt /\ ls \in Nat /\ lt \in Nat
      /\ \A i \in 1..ls : st[i] = s[i]
      /\ \A i \in 1..lt : st[ls + i] = t[i]
      /\ \A i \in 1..lt : t[i] \in Frames
  <2>1. /\ st \in Seq(Frames) /\ Len(st) = ls + lt /\ ls \in Nat /\ lt \in Nat
        /\ \A i \in 1..ls + lt : st[i] = IF i <= ls THEN s[i] ELSE t[i - ls]
    BY ConcatProperties
  <2> HIDE DEF st, ls, lt
  <2>2. \A i \in 1..ls : st[i] = s[i]
    BY <2>1
  <2>3. ASSUME NEW i \in 1..lt PROVE st[ls + i] = t[i]
    <3>1. ls + i \in 1..ls + lt /\ ~(ls + i <= ls) /\ ls + i - ls = i
      BY <2>1
    <3>2. QED
      BY <2>1, <3>1
  <2>4. \A i \in 1..lt : t[i] \in Frames
    BY DEF lt
  <2>5. QED
    BY <2>1, <2>2, <2>3, <2>4
<1>2. PICK g : Sifts(g, from, s) /\ Unseen(from, s) = g[ls]
  BY UnseenSifts
<1>3. PICK h : Sifts(h, low, t) /\ Unseen(low, t) = h[lt]
  BY UnseenSifts
<1>4. PICK k : Sifts(k, from, st) /\ Unseen(from, st) = k[Len(st)]
  BY <1>1, UnseenSifts
<1>5. /\ g \in [0..ls -> Seq(Frames)] /\ g[0] = <<>>
      /\ \A m \in 1..ls : g[m] = IF Keeps(from, s[m]) THEN Append(g[m - 1], s[m]) ELSE g[m - 1]
  BY <1>2 DEF Sifts
<1>6. /\ h \in [0..lt -> Seq(Frames)] /\ h[0] = <<>>
      /\ \A m \in 1..lt : h[m] = IF Keeps(low, t[m]) THEN Append(h[m - 1], t[m]) ELSE h[m - 1]
  BY <1>3 DEF Sifts
<1>7. /\ k[0] = <<>>
      /\ \A m \in 1..ls + lt : k[m] = IF Keeps(from, st[m]) THEN Append(k[m - 1], st[m]) ELSE k[m - 1]
  BY <1>1, <1>4 DEF Sifts
<1>8. \A m \in 1..lt : Keeps(from, t[m]) <=> Keeps(low, t[m])
  BY DEF SameFor
<1> HIDE DEF st, ls, lt
<1> DEFINE S == {m \in 0..ls : k[m] = g[m]}
<1>9. \A m \in 0..ls : m \in S
  <2>1. 0 \in S
    BY <1>1, <1>5, <1>7
  <2>2. \A m \in 0 + 1..ls : m - 1 \in S => m \in S
    <3>1. SUFFICES ASSUME NEW m \in 1..ls, k[m - 1] = g[m - 1] PROVE k[m] = g[m]
      BY <1>1
    <3>2. m \in 1..ls + lt /\ st[m] = s[m]
      BY <1>1
    <3>3. QED
      BY <1>5, <1>7, <3>1, <3>2
  <2> HIDE DEF S
  <2>3. QED
    BY <1>1, <2>1, <2>2, Climbs
<1>10. k[ls] = g[ls] /\ g[ls] \in Seq(Frames)
  BY <1>1, <1>5, <1>9
<1> HIDE DEF S
<1> DEFINE R == {m \in 0..lt : k[ls + m] = g[ls] \o h[m]}
<1>11. \A m \in 0..lt : m \in R
  <2>1. 0 \in R
    <3>1. ls + 0 = ls /\ 0 \in 0..lt
      BY <1>1
    <3>2. g[ls] \o <<>> = g[ls]
      BY <1>10, ConcatEmptySeq
    <3>3. QED
      BY <1>6, <1>10, <3>1, <3>2
  <2>2. \A m \in 0 + 1..lt : m - 1 \in R => m \in R
    <3>1. SUFFICES ASSUME NEW m \in 1..lt, m - 1 \in R PROVE m \in R
      <4> HIDE DEF R
      <4>1. QED
        BY <1>1
    <3>2. /\ ls + m \in 1..ls + lt /\ st[ls + m] = t[m] /\ ls + m - 1 = ls + (m - 1)
          /\ m - 1 \in 0..lt /\ m \in 0..lt
      BY <1>1
    <3>3. k[ls + (m - 1)] = g[ls] \o h[m - 1]
      BY <3>1
    <3>4. h[m] = IF Keeps(low, t[m]) THEN Append(h[m - 1], t[m]) ELSE h[m - 1]
      BY <1>6
    <3> PICK j \in 1..ls + lt : j = ls + m
      BY <3>2
    <3>5. k[j] = IF Keeps(from, st[j]) THEN Append(k[j - 1], st[j]) ELSE k[j - 1]
      BY <1>7
    <3>6. Keeps(from, t[m]) <=> Keeps(low, t[m])
      BY <1>8
    <3>7. Append(g[ls] \o h[m - 1], t[m]) = g[ls] \o Append(h[m - 1], t[m])
      <4>1. h[m - 1] \in Seq(Frames) /\ t[m] \in Frames
        BY <1>1, <1>6, <3>2
      <4>2. AppendsToBoth(g[ls], h[m - 1], t[m])
        BY <1>10, <4>1, ConcatAppend
      <4>3. QED
        BY <4>2 DEF AppendsToBoth
    <3>8. k[ls + m] = g[ls] \o h[m]
      <4> PICK old : old = g[ls] \o h[m - 1]
        OBVIOUS
      <4>1. k[j] = IF Keeps(low, t[m]) THEN Append(old, t[m]) ELSE old
        <5>1. st[j] = t[m] /\ j - 1 = ls + (m - 1)
          BY <1>1, <3>2
        <5>2. k[j - 1] = old
          BY <3>3, <5>1
        <5>3. QED
          BY <3>5, <3>6, <5>1, <5>2
      <4>2. CASE Keeps(low, t[m])
        BY <3>4, <3>7, <4>1, <4>2
      <4>3. CASE ~Keeps(low, t[m])
        BY <3>4, <4>1, <4>3
      <4>4. QED
        BY <4>2, <4>3
    <3>9. QED
      BY <3>2, <3>8
  <2> HIDE DEF R
  <2>3. QED
    BY <1>1, <2>1, <2>2, Climbs
<1>12. k[ls + lt] = g[ls] \o h[lt]
  <2>1. lt \in R
    <3> HIDE DEF R
    <3>1. QED
      BY <1>1, <1>11
  <2>2. QED
    BY <2>1
<1>13. QED
  BY <1>1, <1>2, <1>3, <1>4, <1>12 DEF st, Joined

\* What comes before the frames that are kept does not matter.
LEMMA UnseenSuffix ==
  ASSUME NEW from, NEW s \in Seq(Frames), NEW t \in Seq(Frames),
         \A i \in 1..Len(s) : ~Keeps(from, s[i])
  PROVE  Unseen(from, s \o t) = Unseen(from, t)
<1>1. Unseen(from, s) = <<>>
  BY UnseenNone
<1>2. Unseen(from, s \o t) = Unseen(from, s) \o Unseen(from, t)
  <2>1. SameFor(from, from, t)
    BY DEF SameFor
  <2>2. QED
    <3>1. Joined(from, from, s, t)
      BY <2>1, UnseenConcat
    <3>2. QED
      BY <3>1 DEF Joined
<1>3. Unseen(from, t) \in Seq(Frames)
  BY UnseenIsSeq
<1>4. QED
  BY <1>1, <1>2, <1>3, ConcatEmptySeq

\* The first frame of s that is for the page after from, and what follows it.
FirstKept(from, s, k) ==
  /\ k \in 1..Len(s) /\ Keeps(from, s[k]) /\ \A i \in 1..k - 1 : ~Keeps(from, s[i])
  /\ Unseen(from, s) # <<>> /\ Head(Unseen(from, s)) = s[k] /\ Tail(Unseen(from, s)) = Unseen(k, s)

InOrder(s) == \A i \in 1..Len(s) : s[i].seq = i

\* The first frame that is kept comes first, and the rest is what is unseen after it.
LEMMA UnseenFirst ==
  ASSUME NEW from \in Int, NEW s \in Seq(Frames), InOrder(s),
         NEW any \in 1..Len(s), Keeps(from, s[any])
  PROVE  \E k : FirstKept(from, s, k)
<1> DEFINE n == Len(s)
           K == {i \in 1..n : Keeps(from, s[i])}
<1>1. n \in Nat /\ (\A i \in 1..n : s[i] \in Frames /\ s[i].seq = i)
  BY DEF InOrder
<1>2. PICK k \in K : \A i \in K : k <= i
  <2>1. K \subseteq Nat /\ K # {}
    OBVIOUS
  <2> HIDE DEF K
  <2>2. QED
    BY <2>1, LeastIn
<1>3. k \in 1..n /\ Keeps(from, s[k]) /\ \A i \in 1..k - 1 : ~Keeps(from, s[i])
  <2>1. k \in 1..n /\ Keeps(from, s[k])
    OBVIOUS
  <2>2. ASSUME NEW i \in 1..k - 1, Keeps(from, s[i]) PROVE FALSE
    <3>1. i \in K /\ ~(k <= i)
      BY <1>1, <2>1, <2>2
    <3> HIDE DEF K
    <3>2. QED
      BY <1>2, <3>1
  <2>3. QED
    BY <2>1, <2>2
<1> HIDE DEF K
<1>4. PICK g : Sifts(g, from, s) /\ Unseen(from, s) = g[n]
  BY UnseenSifts
<1>5. PICK h : Sifts(h, k, s) /\ Unseen(k, s) = h[n]
  BY UnseenSifts
<1>6. /\ g \in [0..n -> Seq(Frames)]
      /\ \A m \in 1..n : g[m] = IF Keeps(from, s[m]) THEN Append(g[m - 1], s[m]) ELSE g[m - 1]
  BY <1>4 DEF Sifts
<1>7. /\ h \in [0..n -> Seq(Frames)]
      /\ \A m \in 1..n : h[m] = IF Keeps(k, s[m]) THEN Append(h[m - 1], s[m]) ELSE h[m - 1]
  BY <1>5 DEF Sifts
<1>8. g[k - 1] = <<>>
  <2>1. k - 1 \in 0..n /\ Sifts(g, from, s) /\ \A i \in 1..k - 1 : ~Keeps(from, s[i])
    BY <1>1, <1>3, <1>4
  <2>2. QED
    BY <2>1, NothingKept
<1>9. h[k] = <<>>
  <2>1. k \in 0..n /\ \A i \in 1..k : ~Keeps(k, s[i])
    BY <1>1, <1>3 DEF Keeps
  <2>2. QED
    BY <1>5, <2>1, NothingKept
<1> DEFINE T == {m \in k..n : g[m] # <<>> /\ Head(g[m]) = s[k] /\ Tail(g[m]) = h[m]}
<1>10. k \in T
  <2>1. g[k] = Append(<<>>, s[k]) /\ s[k] \in Frames /\ <<>> \in Seq(Frames)
    BY <1>1, <1>3, <1>6, <1>8, EmptySeq
  <2>2. g[k] # <<>>
    BY <2>1, AppendProperties
  <2>3. Head(g[k]) = s[k] /\ Tail(g[k]) = <<>>
    BY <2>1, HeadTailAppend
  <2>4. k \in k..n
    BY <1>1, <1>3
  <2>5. QED
    BY <1>9, <2>2, <2>3, <2>4
<1>11. \A m \in k + 1..n : m - 1 \in T => m \in T
  <2>1. SUFFICES ASSUME NEW m \in k + 1..n, m - 1 \in T PROVE m \in T
    <3> HIDE DEF T
    <3>1. QED
      OBVIOUS
  <2>2. m \in 1..n /\ m - 1 \in 0..n /\ m \in k..n
    BY <1>1, <1>3
  <2>3. g[m - 1] \in Seq(Frames) /\ g[m - 1] # <<>> /\ Head(g[m - 1]) = s[k] /\ Tail(g[m - 1]) = h[m - 1]
    BY <1>6, <2>1, <2>2
  <2>4. Keeps(from, s[m]) <=> Keeps(k, s[m])
    BY <1>1, <1>3, <2>2 DEF Keeps
  <2>5. CASE ~Keeps(k, s[m])
    <3>1. g[m] = g[m - 1] /\ h[m] = h[m - 1]
      BY <1>6, <1>7, <2>2, <2>4, <2>5
    <3>2. QED
      BY <2>2, <2>3, <3>1
  <2>6. CASE Keeps(k, s[m])
    <3>1. g[m] = Append(g[m - 1], s[m]) /\ h[m] = Append(h[m - 1], s[m]) /\ s[m] \in Frames
      BY <1>1, <1>6, <1>7, <2>2, <2>4, <2>6
    <3>2. g[m] # <<>>
      <4> PICK before \in Seq(Frames), f \in Frames : before = g[m - 1] /\ f = s[m]
        BY <2>3, <3>1
      <4>1. Append(before, f) # <<>>
        BY AppendProperties
      <4>2. QED
        BY <3>1, <4>1
    <3>3. Head(g[m]) = Head(g[m - 1]) /\ Tail(g[m]) = Append(Tail(g[m - 1]), s[m])
      BY <2>3, <3>1, HeadTailAppend
    <3>4. QED
      BY <2>2, <2>3, <3>1, <3>2, <3>3
  <2>7. QED
    BY <2>5, <2>6
<1>12. n \in T
  <2> HIDE DEF T
  <2>1. k \in Nat /\ n \in k..n
    BY <1>1, <1>3
  <2>2. QED
    BY <1>1, <1>10, <1>11, <2>1, Climbs
<1>13. QED
  BY <1>3, <1>4, <1>5, <1>12 DEF FirstKept

\* Nothing is left to be seen, or there is a first one.
LEMMA UnseenFirstOrNone ==
  ASSUME NEW from \in Int, NEW s \in Seq(Frames), InOrder(s)
  PROVE  \/ Unseen(from, s) = <<>> /\ \A i \in 1..Len(s) : ~Keeps(from, s[i])
         \/ \E k : FirstKept(from, s, k)
  BY UnseenNone, UnseenFirst

-----------------------------------------------------------------------------
(* What is on its way *)

\* A frame before it is numbered.
Plain == [kind : {"partial", "commit", "retract", "cardEnd", "tts"}, card : Nat,
          text : Texts \cup {NoText}, tr : [Langs -> Translation]]

Snapshots == [kind : {"snapshot"}, seq : Nat, cards : Seq(PageCard)]

WireInv ==
  /\ EngineInv /\ wire \in Seq(Frames) /\ InOrder(wire)
  /\ phase \in {"down", "asking", "attached"} /\ link \in Seq(Frames \cup Snapshots)
  /\ resume \in 0..Len(wire) \cup {None}
  /\ phase # "attached" => link = <<>>
  /\ StartsAfresh => link[1] \in Snapshots /\ link[1].seq <= Len(wire)
  /\ NeverAGap

\* What the page will have seen when it has the snapshot that is on its way.
Since == IF StartsAfresh THEN link[1].seq ELSE resume

\* What emit() numbers.
LEMMA NumberedIs ==
  ASSUME NEW frames \in Seq(Plain), NEW low \in Nat
  PROVE  LET numbered == [i \in 1..Len(frames) |-> Numbered(frames[i], low + i)]
         IN  /\ numbered \in Seq(Frames) /\ Len(numbered) = Len(frames)
             /\ \A i \in 1..Len(frames) : numbered[i].seq = low + i
<1> DEFINE numbered == [i \in 1..Len(frames) |-> Numbered(frames[i], low + i)]
<1>1. Len(frames) \in Nat
  OBVIOUS
<1>2. ASSUME NEW i \in 1..Len(frames)
      PROVE  Numbered(frames[i], low + i) \in Frames /\ Numbered(frames[i], low + i).seq = low + i
  <2>1. frames[i] \in Plain /\ low + i \in Nat
    BY <1>1
  <2>2. QED
    BY <2>1 DEF Numbered, Plain, Frames
<1>3. numbered \in Seq(Frames) /\ Len(numbered) = Len(frames)
  BY <1>1, <1>2, IsASeq
<1>4. QED
  BY <1>2, <1>3

\* The rest of a list that has another one after it.
LEMMA TailConcat ==
  ASSUME NEW X, NEW a \in Seq(X), NEW b \in Seq(X), a # <<>>
  PROVE  Tail(a \o b) = Tail(a) \o b /\ (a \o b)[1] = a[1] /\ a \o b # <<>> /\ a \o b \in Seq(X)
<1> DEFINE ab == a \o b
<1>1. /\ ab \in Seq(X) /\ Len(ab) = Len(a) + Len(b) /\ Len(a) \in Nat \ {0} /\ Len(b) \in Nat
      /\ \A i \in 1..Len(a) + Len(b) : ab[i] = IF i <= Len(a) THEN a[i] ELSE b[i - Len(a)]
  BY ConcatProperties, EmptySeq
<1> HIDE DEF ab
<1>2. ab # <<>>
  BY <1>1, EmptySeq
<1>3. /\ Tail(ab) \in Seq(X) /\ Len(Tail(ab)) = Len(ab) - 1
      /\ \A i \in 1..Len(Tail(ab)) : Tail(ab)[i] = ab[i + 1]
  BY <1>1, <1>2, HeadTailProperties
<1>4. /\ Tail(a) \in Seq(X) /\ Len(Tail(a)) = Len(a) - 1
      /\ \A i \in 1..Len(Tail(a)) : Tail(a)[i] = a[i + 1]
  BY HeadTailProperties
<1> DEFINE tb == Tail(a) \o b
<1>5. /\ tb \in Seq(X) /\ Len(tb) = Len(Tail(a)) + Len(b)
      /\ \A i \in 1..Len(Tail(a)) + Len(b) : tb[i] = IF i <= Len(Tail(a)) THEN Tail(a)[i] ELSE b[i - Len(Tail(a))]
  BY <1>4, ConcatProperties
<1> HIDE DEF tb
<1>6. Len(tb) = Len(Tail(ab))
  BY <1>1, <1>3, <1>4, <1>5
<1>7. ASSUME NEW i \in 1..Len(tb) PROVE tb[i] = Tail(ab)[i]
  <2>1. i \in 1..Len(Tail(ab)) /\ Tail(ab)[i] = ab[i + 1] /\ i + 1 \in 1..Len(a) + Len(b)
    BY <1>1, <1>3, <1>6
  <2>2. CASE i <= Len(a) - 1
    <3>1. i \in 1..Len(Tail(a)) /\ i + 1 <= Len(a)
      BY <1>1, <1>4, <2>2
    <3>2. tb[i] = a[i + 1] /\ ab[i + 1] = a[i + 1]
      BY <1>1, <1>4, <1>5, <2>1, <3>1
    <3>3. QED
      BY <2>1, <3>2
  <2>3. CASE ~(i <= Len(a) - 1)
    <3>1. ~(i <= Len(Tail(a))) /\ ~(i + 1 <= Len(a)) /\ i - Len(Tail(a)) = i + 1 - Len(a)
      BY <1>1, <1>4, <2>3
    <3>2. tb[i] = b[i - Len(Tail(a))]
      BY <1>1, <1>4, <1>5, <3>1
    <3>3. ab[i + 1] = b[i + 1 - Len(a)]
      BY <1>1, <2>1, <3>1
    <3>4. QED
      BY <2>1, <3>1, <3>2, <3>3
  <2>4. QED
    BY <2>2, <2>3
<1>8. tb = Tail(ab)
  BY <1>3, <1>5, <1>6, <1>7, SeqEqual
<1>9. ab[1] = a[1]
  BY <1>1
<1>10. QED
  BY <1>1, <1>2, <1>8, <1>9 DEF ab, tb

\* A list of frames does not start afresh.
LEMMA FramesAreNoSnapshot ==
  ASSUME NEW s \in Seq(Frames), s # <<>>
  PROVE  s[1] \in Frames /\ s[1].kind # "snapshot"
<1>1. Len(s) \in Nat \ {0}
  BY EmptySeq
<1>2. s[1] \in Frames
  BY <1>1
<1>3. QED
  BY <1>2 DEF Frames

\* Frames are among what a link may carry.
LEMMA FramesAreParcels ==
  ASSUME NEW s \in Seq(Frames)
  PROVE  s \in Seq(Frames \cup Snapshots)
<1>1. Len(s) \in Nat /\ \A i \in 1..Len(s) : s[i] \in Frames \cup Snapshots
  OBVIOUS
<1>2. s = [i \in 1..Len(s) |-> s[i]]
  OBVIOUS
<1>3. [i \in 1..Len(s) |-> s[i]] \in Seq(Frames \cup Snapshots)
  BY <1>1, IsASeq
<1>4. QED
  BY <1>2, <1>3

\* The wire is longer by the frames, and so is what is on its way to an attached page.
LEMMA EmitKeeps ==
  ASSUME WireInv, EngineInv', NEW frames \in Seq(Plain), Emit(frames)
  PROVE  /\ WireInv' /\ resume' = resume /\ cards' = cards /\ lastSeq' = lastSeq
         /\ (StartsAfresh' <=> StartsAfresh) /\ (StartsAfresh => link'[1] = link[1])
         /\ Len(wire') = Len(wire) + Len(frames)
         /\ \A i \in 1..Len(wire) : wire'[i] = wire[i]
         /\ \A i \in 1..Len(frames) : wire'[Len(wire) + i] = Numbered(frames[i], Len(wire) + i)
<1> PICK low \in Nat : low = Len(wire)
  BY DEF WireInv
<1> DEFINE numbered == [i \in 1..Len(frames) |-> Numbered(frames[i], low + i)]
           parcels == Frames \cup Snapshots
<1>1. /\ wire' = wire \o numbered
      /\ link' = IF phase = "attached" THEN link \o Unseen(low, numbered) ELSE link
      /\ phase' = phase /\ resume' = resume /\ cards' = cards /\ lastSeq' = lastSeq
  BY DEF Emit, pageVars, seq
<1>2. /\ numbered \in Seq(Frames) /\ Len(numbered) = Len(frames) /\ Len(frames) \in Nat
      /\ \A i \in 1..Len(frames) : numbered[i].seq = low + i
      /\ \A i \in 1..Len(frames) : numbered[i] = Numbered(frames[i], low + i)
  BY NumberedIs
<1> HIDE DEF numbered
<1>3. /\ wire \in Seq(Frames) /\ InOrder(wire) /\ link \in Seq(parcels)
      /\ phase \in {"down", "asking", "attached"} /\ resume \in 0..low \cup {None}
      /\ (phase # "attached" => link = <<>>)
      /\ (StartsAfresh => link[1] \in Snapshots /\ link[1].seq <= low)
  BY DEF WireInv
<1>4. /\ wire' \in Seq(Frames) /\ Len(wire') = low + Len(frames)
      /\ \A i \in 1..low : wire'[i] = wire[i]
      /\ \A i \in 1..Len(frames) : wire'[low + i] = numbered[i]
  <2>1. /\ wire' \in Seq(Frames) /\ Len(wire') = low + Len(frames)
        /\ \A i \in 1..low + Len(frames) : wire'[i] = IF i <= low THEN wire[i] ELSE numbered[i - low]
    <3> PICK a \in Seq(Frames), b \in Seq(Frames) : a = wire /\ b = numbered
      BY <1>2, <1>3
    <3>1. /\ a \o b \in Seq(Frames) /\ Len(a \o b) = Len(a) + Len(b)
          /\ \A i \in 1..Len(a) + Len(b) : (a \o b)[i] = IF i <= Len(a) THEN a[i] ELSE b[i - Len(a)]
      BY ConcatProperties
    <3>2. wire' = a \o b /\ Len(a) = low /\ Len(b) = Len(frames)
      BY <1>1, <1>2
    <3>3. QED
      BY <3>1, <3>2
  <2>2. ASSUME NEW i \in 1..Len(frames) PROVE wire'[low + i] = numbered[i]
    <3>1. low + i \in 1..low + Len(frames) /\ ~(low + i <= low) /\ low + i - low = i
      BY <1>2
    <3>2. QED
      BY <2>1, <3>1
  <2>3. \A i \in 1..low : wire'[i] = wire[i]
    BY <1>2, <2>1
  <2>4. QED
    BY <2>1, <2>2, <2>3
<1>5. InOrder(wire')
  <2>1. SUFFICES ASSUME NEW i \in 1..Len(wire') PROVE wire'[i].seq = i
    BY DEF InOrder
  <2>2. CASE i \in 1..low
    BY <1>3, <1>4, <2>2 DEF InOrder
  <2>3. CASE i \notin 1..low
    <3>1. i - low \in 1..Len(frames) /\ low + (i - low) = i
      BY <1>2, <1>4, <2>3
    <3>2. wire'[i] = numbered[i - low]
      BY <1>4, <3>1
    <3>3. QED
      BY <1>2, <3>1, <3>2
  <2>4. QED
    BY <2>2, <2>3
<1>6. resume' \in 0..Len(wire') \cup {None}
  BY <1>1, <1>2, <1>3, <1>4
<1>7. CASE phase # "attached"
  <2>1. link = <<>> /\ link' = link
    BY <1>1, <1>3, <1>7
  <2>2. ~StartsAfresh /\ ~StartsAfresh'
    BY <2>1 DEF StartsAfresh
  <2>3. NeverAGap'
    BY <1>1, <1>7 DEF NeverAGap
  <2>4. WireInv'
    BY <1>1, <1>3, <1>4, <1>5, <1>6, <1>7, <2>1, <2>2, <2>3 DEF WireInv
  <2>5. QED
    BY <1>1, <1>2, <1>4, <2>2, <2>4
<1>8. CASE phase = "attached"
  <2> DEFINE since == IF StartsAfresh THEN link[1].seq ELSE resume
             rest == IF StartsAfresh THEN Tail(link) ELSE link
             more == Unseen(low, numbered)
  <2>1. since # None /\ rest = Unseen(since, wire)
    BY <1>8 DEF WireInv, NeverAGap
  <2>2. since \in 0..low
    <3>1. CASE StartsAfresh
      <4>1. link[1].seq \in Nat /\ link[1].seq <= low
        BY <1>3, <3>1 DEF Snapshots
      <4>2. QED
        BY <3>1, <4>1
    <3>2. CASE ~StartsAfresh
      BY <1>3, <2>1, <3>2
    <3>3. QED
      BY <3>1, <3>2
  <2> HIDE DEF since
  <2>3. SameFor(since, low, numbered)
    <3>1. SUFFICES ASSUME NEW i \in 1..Len(numbered)
                   PROVE  Keeps(since, numbered[i]) <=> Keeps(low, numbered[i])
      BY DEF SameFor
    <3>2. numbered[i].seq > since /\ numbered[i].seq > low
      BY <1>2, <2>2
    <3>3. QED
      BY <3>2 DEF Keeps
  <2>4. Unseen(since, wire') = Unseen(since, wire) \o more
    <3>1. Joined(since, low, wire, numbered)
      BY <1>2, <1>3, <2>3, UnseenConcat
    <3>2. QED
      BY <1>1, <3>1 DEF Joined
  <2>5. more \in Seq(Frames) /\ Unseen(since, wire') \in Seq(Frames)
    BY <1>2, <1>4, UnseenIsSeq
  <2>6. more \in Seq(parcels)
    BY <2>5, FramesAreParcels
  <2> HIDE DEF more, parcels
  <2>7. link' = link \o more
    BY <1>1, <1>8 DEF more
  <2>8. CASE StartsAfresh
    <3>1. link # <<>> /\ link[1].kind = "snapshot"
      BY <2>8 DEF StartsAfresh
    <3>2. Tail(link') = Tail(link) \o more /\ link'[1] = link[1] /\ link' # <<>> /\ link' \in Seq(parcels)
      BY <1>3, <2>6, <2>7, <3>1, TailConcat
    <3>3. StartsAfresh'
      BY <3>1, <3>2 DEF StartsAfresh
    <3>4. Tail(link') = Unseen(since, wire') /\ link'[1].seq = since
      BY <2>1, <2>4, <2>8, <3>2 DEF since
    <3>5. NeverAGap'
      BY <2>1, <3>3, <3>4 DEF NeverAGap
    <3>6. link'[1] \in Snapshots /\ link'[1].seq <= Len(wire')
      <4>1. link'[1].seq <= low /\ low <= Len(wire')
        BY <1>2, <1>3, <1>4, <2>8, <3>2
      <4>2. QED
        BY <1>2, <1>3, <1>4, <2>2, <2>8, <3>2, <3>4
    <3>7. WireInv'
      BY <1>1, <1>3, <1>4, <1>5, <1>6, <1>8, <3>2, <3>3, <3>5, <3>6 DEF WireInv, parcels
    <3>8. QED
      BY <1>1, <1>2, <1>4, <2>8, <3>2, <3>3, <3>7
  <2>9. CASE ~StartsAfresh
    <3>1. since = resume /\ link = Unseen(resume, wire)
      BY <2>1, <2>9 DEF since
    <3>2. link' = Unseen(resume, wire')
      BY <2>4, <2>7, <3>1
    <3>3. link' \in Seq(Frames)
      BY <2>5, <3>1, <3>2
    <3>4. ~StartsAfresh'
      <4>1. link' # <<>> => link'[1].kind # "snapshot"
        BY <3>3, FramesAreNoSnapshot
      <4>2. QED
        BY <4>1 DEF StartsAfresh
    <3>5. NeverAGap'
      BY <1>1, <2>1, <3>1, <3>2, <3>4 DEF NeverAGap
    <3>6. link' \in Seq(parcels)
      BY <3>3, FramesAreParcels DEF parcels
    <3>7. WireInv'
      BY <1>1, <1>3, <1>4, <1>5, <1>6, <1>8, <3>4, <3>5, <3>6 DEF WireInv, parcels
    <3>8. QED
      BY <1>1, <1>2, <1>4, <2>9, <3>4, <3>7
  <2>10. QED
    BY <2>8, <2>9
<1>9. QED
  BY <1>7, <1>8

-----------------------------------------------------------------------------
(* Every step *)

\* The engine rests.
LEMMA EngineRests ==
  ASSUME EngineInv, UNCHANGED engineVars
  PROVE  EngineInv'
<1>1. live' = live /\ settled' = settled /\ opened' = opened
  BY DEF engineVars
<1>2. SettledCards' = SettledCards
  BY <1>1 DEF SettledCards
<1>3. EngineTypeOK' /\ CardsInv'
  BY <1>1, <1>2 DEF EngineInv, EngineTypeOK, CardsInv
<1>4. QED
  BY <1>3 DEF EngineInv

\* A list of one.
LEMMA Singleton ==
  ASSUME NEW X, NEW x \in X
  PROVE  <<x>> \in Seq(X) /\ Len(<<x>>) = 1 /\ <<x>>[1] = x
  OBVIOUS

\* The frames about cards are frames.
LEMMA MessagesArePlain ==
  ASSUME NEW s \in Seq(Messages)
  PROVE  s \in Seq(Plain)
<1>1. Len(s) \in Nat /\ \A i \in 1..Len(s) : s[i] \in Messages
  OBVIOUS
<1>2. Messages \subseteq Plain
  BY DEF Messages, Plain
<1>3. s = [i \in 1..Len(s) |-> s[i]]
  OBVIOUS
<1>4. [i \in 1..Len(s) |-> s[i]] \in Seq(Plain)
  BY <1>1, <1>2, IsASeq
<1>5. QED
  BY <1>3, <1>4

\* What one of the handlers of the relay has to say.
Says(frames) == frames \in Seq(Plain) /\ Emit(frames) /\ EngineInv'

\* A partial transcript is one frame.
LEMMA HearsSays ==
  ASSUME WireInv, NEW text \in Texts, Hears(text)
  PROVE  Says(WhenHeard(text))
<1>1. EngineInv
  BY DEF WireInv
<1>2. EngineInv'
  BY <1>1, PartialKeeps DEF Hears
<1>3. Current.id \in Nat
  BY <1>1, CurrentIs
<1>4. Frame("partial", Current.id, text, NoTr) \in Messages
  BY <1>3, FrameIs
<1>5. WhenHeard(text) \in Seq(Plain)
  BY <1>4, Singleton, MessagesArePlain DEF WhenHeard
<1>6. QED
  BY <1>2, <1>5 DEF Hears, Says

\* A committed one is one frame or two.
LEMMA SettlesSays ==
  ASSUME WireInv, NEW text \in Texts, Settles(text)
  PROVE  Says(WhenSettled(text))
<1>1. EngineInv
  BY DEF WireInv
<1>2. EngineInv'
  BY <1>1, CommitKeeps DEF Settles
<1>3. WhenSettled(text) \in Seq(Plain)
  BY <1>1, WhenSettledIs, MessagesArePlain
<1>4. QED
  BY <1>2, <1>3 DEF Settles, Says

\* Silence ends the live card.
LEMMA GoesQuietSays ==
  ASSUME WireInv, GoesQuiet
  PROVE  Says(WhenQuiet)
<1>1. EngineInv
  BY DEF WireInv
<1>2. EngineInv'
  BY <1>1, ClosingKeeps DEF GoesQuiet
<1>3. live.id \in Nat
  BY <1>1, CardFields DEF EngineInv, EngineTypeOK
<1>4. Frame("cardEnd", live.id, NoText, NoTr) \in Messages
  BY <1>3, FrameIs
<1>5. WhenQuiet \in Seq(Plain)
  BY <1>4, Singleton, MessagesArePlain DEF WhenQuiet
<1>6. QED
  BY <1>2, <1>5 DEF GoesQuiet, Says

\* The frame of a card that is restated.
RestatedFrame(c) == Frame(IF c.state = "live" THEN "partial" ELSE "retract", c.id, c.text, c.tr)

\* A translation restates its card.
LEMMA RestatesSays ==
  ASSUME WireInv, NEW id \in Nat \ {0}, NEW lang \in Langs, NEW text \in Texts, NEW final \in BOOLEAN,
         Restates(id, lang, text, final)
  PROVE  \E c \in Card : /\ c \in {live'} \cup SettledCards' /\ c.id = id
                         /\ Says(<<RestatedFrame(c)>>)
<1>1. EngineInv
  BY DEF WireInv
<1>2. EngineInv'
  BY <1>1, ApplyKeeps DEF Restates
<1>3. PICK c \in {live'} \cup SettledCards' : c.id = id /\ Emit(<<RestatedFrame(c)>>)
  BY DEF Restates, SettledCards, RestatedFrame
<1>4. c \in Card
  BY <1>2 DEF EngineInv, EngineTypeOK, SettledCards
<1>5. RestatedFrame(c) \in Messages
  BY <1>4 DEF RestatedFrame, Frame, Messages, Card
<1>6. <<RestatedFrame(c)>> \in Seq(Plain)
  BY <1>5, Singleton, MessagesArePlain
<1>7. QED
  BY <1>2, <1>3, <1>4, <1>6 DEF Says

\* Only cards that have been opened are translated.
LEMMA TranslatesAre ==
  ASSUME WireInv, Translates
  PROVE  \E id \in Nat \ {0}, lang \in Langs, text \in Texts, final \in BOOLEAN :
           Restates(id, lang, text, final)
<1>1. EngineInv
  BY DEF WireInv
<1>2. PICK c \in SettledCards \cup {live}, lang \in Langs, text \in Texts, final \in BOOLEAN :
        c # NoCard /\ Restates(c.id, lang, text, final)
  BY DEF Translates
<1>3. c.id \in Nat \ {0}
  <2>1. CASE c \in SettledCards
    BY <1>1, <2>1, IdsAreReal
  <2>2. CASE c = live
    BY <1>1, <1>2, <2>2 DEF EngineInv, EngineTypeOK, CardsInv
  <2>3. QED
    BY <2>1, <2>2
<1>4. QED
  BY <1>2, <1>3

\* Voice audio is a frame without a card.
LEMMA SpeaksSays ==
  ASSUME WireInv, Speaks
  PROVE  Says(<<Frame("tts", 0, NoText, NoTr)>>)
<1>1. Frame("tts", 0, NoText, NoTr) \in Plain
  BY DEF Frame, Plain, NoTr, NoTranslation, Translation
<1>2. EngineInv
  BY DEF WireInv
<1>3. UNCHANGED engineVars
  BY DEF Speaks
<1>4. EngineInv'
  BY <1>2, <1>3, EngineRests
<1>5. <<Frame("tts", 0, NoText, NoTr)>> \in Seq(Plain)
  BY <1>1, Singleton
<1>6. QED
  BY <1>4, <1>5 DEF Speaks, Says

\* Nothing the relay says opens a gap.
LEMMA SayingKeeps ==
  ASSUME WireInv, NEW frames, Says(frames)
  PROVE  WireInv'
  BY EmitKeeps DEF Says

\* Whatever the relay says, no gap opens.
LEMMA EmitsKeep ==
  ASSUME WireInv, Emits
  PROVE  WireInv'
<1>1. CASE \E text \in Texts : Hears(text)
  BY <1>1, HearsSays, SayingKeeps
<1>2. CASE \E text \in Texts : Settles(text)
  BY <1>2, SettlesSays, SayingKeeps
<1>3. CASE GoesQuiet
  BY <1>3, GoesQuietSays, SayingKeeps
<1>4. CASE Translates
  <2>1. PICK id \in Nat \ {0}, lang \in Langs, text \in Texts, final \in BOOLEAN :
          Restates(id, lang, text, final)
    BY <1>4, TranslatesAre
  <2>2. PICK c \in Card : Says(<<RestatedFrame(c)>>)
    BY <2>1, RestatesSays
  <2>3. QED
    BY <2>2, SayingKeeps
<1>5. CASE Speaks
  BY <1>5, SpeaksSays, SayingKeeps
<1>6. QED
  BY <1>1, <1>2, <1>3, <1>4, <1>5 DEF Emits

\* A list is what is cut off it and what is left.
IsJoined(s, gone, r, d) == s = gone \o r /\ Len(gone) = d /\ \A i \in 1..d : gone[i] = s[i]

\* What Newest drops comes before what it keeps.
LEMMA CutOff ==
  ASSUME NEW X, NEW s \in Seq(X), NEW r \in Seq(X), NEW n \in Nat, NEW d \in 0..Len(s), IsCut(r, s, n, d)
  PROVE  \E gone \in Seq(X) : IsJoined(s, gone, r, d)
<1> DEFINE ls == Len(s)
           gone == [i \in 1..d |-> s[i]]
<1>1. ls \in Nat /\ d \in Nat /\ d <= ls /\ \A i \in 1..ls : s[i] \in X
  OBVIOUS
<1>2. gone \in Seq(X) /\ Len(gone) = d /\ \A i \in 1..d : gone[i] = s[i]
  <2>1. \A i \in 1..d : s[i] \in X
    BY <1>1
  <2>2. QED
    BY <1>1, <2>1, IsASeq
<1>3. Len(r) = ls - d /\ \A i \in 1..ls - d : d + i \in 1..ls /\ r[i] = s[d + i]
  BY DEF IsCut
<1> HIDE DEF gone, ls
<1> DEFINE all == gone \o r
<1>4. /\ all \in Seq(X) /\ Len(all) = Len(gone) + Len(r)
      /\ \A i \in 1..Len(gone) + Len(r) : all[i] = IF i <= Len(gone) THEN gone[i] ELSE r[i - Len(gone)]
  BY <1>2, ConcatProperties
<1> HIDE DEF all
<1>5. Len(all) = ls
  BY <1>1, <1>2, <1>3, <1>4
<1>6. ASSUME NEW i \in 1..ls PROVE all[i] = s[i]
  <2>1. CASE i <= d
    BY <1>1, <1>2, <1>4, <1>5, <2>1
  <2>2. CASE ~(i <= d)
    <3> PICK j \in 1..ls - d : j = i - d
      BY <1>1, <2>2
    <3>1. all[i] = r[j] /\ d + j = i
      BY <1>1, <1>2, <1>4, <1>5, <2>2
    <3>2. QED
      BY <1>3, <3>1
  <2>3. QED
    BY <2>1, <2>2
<1>7. all = s
  BY <1>4, <1>5, <1>6, SeqEqual DEF ls
<1>8. QED
  BY <1>2, <1>7 DEF all, IsJoined

\* A snapshot is numbered, and its cards are those of the engine.
LEMMA SnapshotIs ==
  ASSUME WireInv
  PROVE  Snapshot \in Snapshots /\ Snapshot.seq = Len(wire) /\ Snapshot.cards = EngineCards
                                /\ Snapshot.kind = "snapshot"
<1>1. EngineCards \in Seq(PageCard)
  BY EngineCardsAre DEF WireInv
<1>2. Len(wire) \in Nat
  BY DEF WireInv
<1>3. QED
  BY <1>1, <1>2 DEF Snapshot, Snapshots, seq

\* A page that is backfilled gets everything it has not seen.
LEMMA BackfillIs ==
  ASSUME WireInv, CanBackfill(resume)
  PROVE  /\ resume \in 0..Len(wire) /\ Unseen(resume, History) = Unseen(resume, wire)
         /\ Unseen(resume, wire) \in Seq(Frames)
<1>1. wire \in Seq(Frames) /\ Len(wire) \in Nat /\ resume \in 0..Len(wire) /\ Len(wire) # 0
  BY DEF WireInv, CanBackfill
<1>2. History \in Seq(Frames)
  BY <1>1, ProjectorAssumption, NewestIs DEF History
<1> PICK d \in 0..Len(wire) : IsCut(History, wire, HistoryLimit, d)
  BY <1>1, ProjectorAssumption, NewestIs DEF History
<1>3. d <= resume
  <2>1. Len(History) = Len(wire) - d /\ (d = 0 \/ Len(wire) - d = HistoryLimit)
    BY DEF IsCut
  <2>2. 1 \in 1..Len(wire) - d
    BY <1>1, <2>1, ProjectorAssumption
  <2>3. d + 1 \in 1..Len(wire) /\ History[1] = wire[d + 1]
    BY <2>2 DEF IsCut
  <2>4. History[1].seq = d + 1
    BY <2>3 DEF WireInv, InOrder
  <2>5. History[1].seq <= resume + 1
    BY DEF CanBackfill
  <2>6. QED
    BY <1>1, <2>4, <2>5
<1>4. PICK gone \in Seq(Frames) : /\ wire = gone \o History /\ Len(gone) = d
                                  /\ \A i \in 1..d : gone[i] = wire[i]
  <2> PICK s \in Seq(Frames), r \in Seq(Frames), n \in Nat :
        s = wire /\ r = History /\ n = HistoryLimit
    BY <1>1, <1>2, ProjectorAssumption
  <2>1. d \in 0..Len(s) /\ IsCut(r, s, n, d)
    OBVIOUS
  <2>2. \E gone \in Seq(Frames) : IsJoined(s, gone, r, d)
    BY <2>1, CutOff
  <2>3. QED
    BY <2>2 DEF IsJoined
<1>5. \A i \in 1..Len(gone) : ~Keeps(resume, gone[i])
  <2>1. SUFFICES ASSUME NEW i \in 1..d PROVE ~(gone[i].seq > resume)
    BY <1>4 DEF Keeps
  <2>2. i \in 1..Len(wire) /\ gone[i] = wire[i]
    BY <1>1, <1>4
  <2>3. gone[i].seq = i
    BY <2>2 DEF WireInv, InOrder
  <2>4. QED
    BY <1>1, <1>3, <2>3
<1>6. Unseen(resume, gone \o History) = Unseen(resume, History)
  BY <1>2, <1>5, UnseenSuffix
<1>7. QED
  BY <1>1, <1>4, <1>6, UnseenIsSeq

\* Nothing is unseen after the last frame.
LEMMA NoneAfterTheLast ==
  ASSUME WireInv
  PROVE  Unseen(Len(wire), wire) = <<>>
<1>1. wire \in Seq(Frames) /\ \A i \in 1..Len(wire) : ~Keeps(Len(wire), wire[i])
  BY DEF WireInv, InOrder, Keeps
<1>2. QED
  BY <1>1, UnseenNone

\* An attach sends what was missed, or the snapshot of now (attachProjector).
LEMMA AttachKeeps ==
  ASSUME WireInv, Attach
  PROVE  /\ WireInv'
         /\ \/ ~StartsAfresh' /\ resume # None
            \/ StartsAfresh' /\ link'[1] = Snapshot
<1>1. /\ phase = "asking" /\ phase' = "attached" /\ wire' = wire /\ resume' = resume
      /\ live' = live /\ settled' = settled /\ opened' = opened
      /\ link' = IF CanBackfill(resume) THEN Unseen(resume, History) ELSE <<Snapshot>>
  BY DEF Attach, relayVars, engineVars, pageVars
<1>2. EngineInv' /\ wire' \in Seq(Frames) /\ InOrder(wire') /\ resume' \in 0..Len(wire') \cup {None}
  BY <1>1, EngineRests DEF WireInv, engineVars
<1>3. CASE CanBackfill(resume)
  <2>1. /\ resume \in 0..Len(wire) /\ link' = Unseen(resume, wire) /\ link' \in Seq(Frames)
    BY <1>1, <1>3, BackfillIs
  <2>2. ~StartsAfresh'
    <3>1. link' # <<>> => link'[1].kind # "snapshot"
      BY <2>1, FramesAreNoSnapshot
    <3>2. QED
      BY <3>1 DEF StartsAfresh
  <2>3. resume # None
    BY <2>1 DEF None
  <2>4. NeverAGap'
    BY <1>1, <2>1, <2>2, <2>3 DEF NeverAGap
  <2>5. link' \in Seq(Frames \cup Snapshots)
    BY <2>1, FramesAreParcels
  <2>6. QED
    BY <1>1, <1>2, <2>2, <2>3, <2>4, <2>5 DEF WireInv
<1>4. CASE ~CanBackfill(resume)
  <2>1. link' = <<Snapshot>> /\ Snapshot \in Snapshots /\ Snapshot.seq = Len(wire) /\ Snapshot.kind = "snapshot"
    BY <1>1, <1>4, SnapshotIs
  <2>2. link' \in Seq(Frames \cup Snapshots) /\ link' # <<>> /\ link'[1] = Snapshot /\ Tail(link') = <<>>
    BY <2>1
  <2>3. StartsAfresh'
    BY <2>1, <2>2 DEF StartsAfresh
  <2>4. Len(wire) \in Nat
    BY DEF WireInv
  <2>5. NeverAGap'
    <3>1. Unseen(Len(wire), wire') = <<>> /\ Len(wire) # None
      BY <1>1, <2>4, NoneAfterTheLast DEF None
    <3>2. QED
      BY <2>1, <2>2, <2>3, <3>1 DEF NeverAGap
  <2>6. QED
    BY <1>1, <1>2, <2>1, <2>2, <2>3, <2>4, <2>5 DEF WireInv
<1>5. QED
  BY <1>3, <1>4

\* What a message tells the page about: itself, or everything so far.
LEMMA DeliverKeeps ==
  ASSUME WireInv, Deliver
  PROVE  /\ WireInv' /\ ~StartsAfresh' /\ wire' = wire /\ resume' = Head(link).seq
         /\ \/ StartsAfresh /\ resume' = link[1].seq
            \/ /\ ~StartsAfresh /\ resume \in 0..Len(wire) /\ FirstKept(resume, wire, resume')
               /\ Head(link) = wire[resume']
<1>1. /\ link # <<>> /\ resume' = Head(link).seq /\ link' = Tail(link) /\ wire' = wire /\ phase' = phase
      /\ live' = live /\ settled' = settled /\ opened' = opened
  BY DEF Deliver, relayVars, engineVars
<1>2. EngineInv' /\ wire' \in Seq(Frames) /\ InOrder(wire')
  BY <1>1, EngineRests DEF WireInv, engineVars
<1>3. /\ wire \in Seq(Frames) /\ InOrder(wire) /\ Len(wire) \in Nat /\ phase = "attached"
      /\ link \in Seq(Frames \cup Snapshots) /\ Len(link) \in Nat \ {0} /\ Head(link) = link[1]
  BY <1>1, EmptySeq DEF WireInv
<1>4. NeverAGap
  BY DEF WireInv
<1>5. CASE StartsAfresh
  <2>1. /\ link[1] \in Snapshots /\ link[1].seq <= Len(wire) /\ link[1].seq # None
        /\ Tail(link) = Unseen(link[1].seq, wire)
    BY <1>3, <1>4, <1>5 DEF WireInv, NeverAGap
  <2>2. resume' = link[1].seq /\ resume' \in 0..Len(wire') /\ resume' # None /\ link' = Unseen(resume', wire')
    BY <1>1, <1>3, <2>1 DEF Snapshots, None
  <2>3. link' \in Seq(Frames)
    BY <1>2, <2>2, UnseenIsSeq
  <2>4. ~StartsAfresh'
    <3>1. link' # <<>> => link'[1].kind # "snapshot"
      BY <2>3, FramesAreNoSnapshot
    <3>2. QED
      BY <3>1 DEF StartsAfresh
  <2>5. NeverAGap'
    BY <2>2, <2>4 DEF NeverAGap
  <2>6. link' \in Seq(Frames \cup Snapshots)
    BY <2>3, FramesAreParcels
  <2>7. WireInv'
    BY <1>1, <1>2, <1>3, <2>2, <2>4, <2>5, <2>6 DEF WireInv
  <2>8. QED
    BY <1>1, <1>5, <2>2, <2>4, <2>7
<1>6. CASE ~StartsAfresh
  <2>1. resume # None /\ link = Unseen(resume, wire)
    BY <1>3, <1>4, <1>6 DEF NeverAGap
  <2>2. resume \in 0..Len(wire)
    BY <2>1 DEF WireInv
  <2>3. PICK k : FirstKept(resume, wire, k)
    <3>1. resume \in Int
      BY <1>3, <2>2
    <3>2. QED
      BY <1>1, <1>3, <2>1, <3>1, UnseenFirstOrNone
  <2>4. k \in 1..Len(wire) /\ Head(link) = wire[k] /\ link' = Unseen(k, wire) /\ wire[k].seq = k
    BY <1>1, <1>3, <2>1, <2>3 DEF FirstKept, InOrder
  <2>5. resume' = k /\ resume' # None /\ link' = Unseen(resume', wire') /\ resume' \in 0..Len(wire')
    BY <1>1, <1>3, <2>4 DEF None
  <2>6. link' \in Seq(Frames)
    BY <1>2, <2>5, UnseenIsSeq
  <2>7. ~StartsAfresh'
    <3>1. link' # <<>> => link'[1].kind # "snapshot"
      BY <2>6, FramesAreNoSnapshot
    <3>2. QED
      BY <3>1 DEF StartsAfresh
  <2>8. NeverAGap'
    BY <2>5, <2>7 DEF NeverAGap
  <2>9. link' \in Seq(Frames \cup Snapshots)
    BY <2>6, FramesAreParcels
  <2>10. WireInv'
    BY <1>1, <1>2, <1>3, <2>5, <2>7, <2>8, <2>9 DEF WireInv
  <2>11. QED
    BY <1>1, <1>6, <2>2, <2>3, <2>4, <2>5, <2>7, <2>10
<1>7. QED
  BY <1>5, <1>6

\* A page that is not attached is owed nothing yet.
LEMMA AwayKeeps ==
  ASSUME WireInv, phase' \in {"down", "asking"}, link' = <<>>, UNCHANGED relayVars,
         resume' \in {resume, None}
  PROVE  WireInv' /\ ~StartsAfresh'
<1>1. wire' = wire /\ live' = live /\ settled' = settled /\ opened' = opened
  BY DEF relayVars, engineVars
<1>2. EngineInv' /\ wire' \in Seq(Frames) /\ InOrder(wire') /\ resume' \in 0..Len(wire') \cup {None}
  BY <1>1, EngineRests DEF WireInv, engineVars
<1>3. link' \in Seq(Frames \cup Snapshots)
  OBVIOUS
<1>4. ~StartsAfresh' /\ NeverAGap'
  BY DEF StartsAfresh, NeverAGap
<1>5. QED
  BY <1>2, <1>3, <1>4 DEF WireInv

\* The wire invariant holds at first.
LEMMA WireStarts ==
  ASSUME Init
  PROVE  WireInv
<1>1. /\ live = NoCard /\ settled = <<>> /\ opened = 0 /\ wire = <<>> /\ phase = "down" /\ link = <<>>
      /\ resume = None
  BY DEF Init, EngineInit
<1>2. SettledCards = {} /\ Len(settled) = 0
  BY <1>1 DEF SettledCards
<1>3. EngineTypeOK
  BY <1>1, <1>2, NoCardIs, EmptySeq DEF EngineTypeOK
<1>4. CardsInv
  BY <1>1, <1>2, NoCardIs DEF CardsInv
<1>5. wire \in Seq(Frames) /\ link \in Seq(Frames \cup Snapshots) /\ InOrder(wire)
  BY <1>1 DEF InOrder
<1>6. ~StartsAfresh /\ NeverAGap
  BY <1>1 DEF StartsAfresh, NeverAGap
<1>7. QED
  BY <1>1, <1>3, <1>4, <1>5, <1>6 DEF WireInv, EngineInv

\* And every step keeps it.
LEMMA WireKeeps ==
  ASSUME WireInv, [Next]_vars
  PROVE  WireInv'
<1>1. CASE Emits
  BY <1>1, EmitsKeep
<1>2. CASE Attach
  BY <1>2, AttachKeeps
<1>3. CASE Deliver
  BY <1>3, DeliverKeeps
<1>4. CASE Reconnect
  <2>1. phase = "down" /\ phase' = "asking" /\ link' = link /\ UNCHANGED relayVars /\ resume' = resume
    BY <1>4 DEF Reconnect, pageVars
  <2>2. link = <<>>
    BY <2>1 DEF WireInv
  <2>3. QED
    BY <2>1, <2>2, AwayKeeps
<1>5. CASE LoseLink
  BY <1>5, AwayKeeps DEF LoseLink, pageVars
<1>6. CASE Reload
  BY <1>6, AwayKeeps DEF Reload
<1>7. CASE UNCHANGED vars
  <2>1. /\ wire' = wire /\ live' = live /\ settled' = settled /\ opened' = opened
        /\ link' = link /\ phase' = phase /\ resume' = resume
    BY <1>7 DEF vars, relayVars, engineVars, pageVars
  <2>2. EngineInv'
    BY <2>1, EngineRests DEF WireInv, engineVars
  <2>3. (StartsAfresh' <=> StartsAfresh) /\ NeverAGap'
    BY <2>1 DEF WireInv, StartsAfresh, NeverAGap
  <2>4. QED
    BY <2>1, <2>2, <2>3 DEF WireInv
<1>8. QED
  BY <1>1, <1>2, <1>3, <1>4, <1>5, <1>6, <1>7 DEF Next

\* What is on its way to an attached page is every frame for it since the last one it
\* has seen, once, in order, whether it was backfilled or started from a snapshot and
\* whatever the link went through before (session-actor.ts, emit and attachProjector).
THEOREM ProjectorNeverAGap == Spec => []NeverAGap
<1>1. Init => WireInv
  BY WireStarts
<1>2. WireInv /\ [Next]_vars => WireInv'
  BY WireKeeps
<1>3. WireInv => NeverAGap
  BY DEF WireInv
<1>4. QED
  BY <1>1, <1>2, <1>3, PTL DEF Spec

-----------------------------------------------------------------------------
(* What the page makes of one frame *)

\* w is v after f: what is left of it when the oldest d are gone.
After(w, v, f, d) ==
  /\ w \in Seq(PageCard) /\ Len(w) \in Nat /\ Len(v) \in Nat
  /\ Len(w) = (IF Has(v, f.card) THEN Len(v) ELSE Len(v) + 1) - d
  /\ d = 0 \/ (~Has(v, f.card) /\ Len(w) = MaxCards)
  /\ \A i \in 1..Len(w) :
       /\ d + i \in 1..Len(v) => w[i] = IF v[d + i].id = f.card THEN Updated(v[d + i], f) ELSE v[d + i]
       /\ d + i \notin 1..Len(v) => /\ d + i = Len(v) + 1 /\ ~Has(v, f.card)
                                    /\ w[i] = Updated(BlankCard(f.card), f)

\* WithCard, card by card.
LEMMA AfterIs ==
  ASSUME NEW v \in Seq(PageCard), NEW f \in Messages
  PROVE  \E d \in 0..Len(v) + 1 : After(WithCard(v, f), v, f, d)
<1> DEFINE w == WithCard(v, f)
<1>1. Len(v) \in Nat
  OBVIOUS
<1>2. CASE Has(v, f.card)
  <2>1. /\ w \in Seq(PageCard) /\ Len(w) = Len(v)
        /\ \A i \in 1..Len(v) : w[i] = IF v[i].id = f.card THEN Updated(v[i], f) ELSE v[i]
    BY <1>2, Restated
  <2> HIDE DEF w
  <2>2. \A i \in 1..Len(w) : 0 + i = i
    BY <1>1, <2>1
  <2>3. After(w, v, f, 0) /\ 0 \in 0..Len(v) + 1
    BY <1>1, <1>2, <2>1, <2>2 DEF After
  <2>4. QED
    BY <2>3 DEF w
<1>3. CASE ~Has(v, f.card)
  <2>1. PICK d \in 0..Len(v) + 1 :
          /\ w \in Seq(PageCard) /\ Len(w) = Len(v) + 1 - d
          /\ d = 0 \/ Len(v) + 1 - d = MaxCards
          /\ \A i \in 1..Len(v) + 1 - d :
               /\ d + i \in 1..Len(v) + 1
               /\ d + i \in 1..Len(v) => w[i] = v[d + i]
               /\ d + i = Len(v) + 1 => w[i] = Updated(BlankCard(f.card), f)
    BY <1>3, Added
  <2> HIDE DEF w
  <2>2. ASSUME NEW i \in 1..Len(w)
        PROVE  /\ d + i \in 1..Len(v) => w[i] = IF v[d + i].id = f.card THEN Updated(v[d + i], f) ELSE v[d + i]
               /\ d + i \notin 1..Len(v) => d + i = Len(v) + 1 /\ w[i] = Updated(BlankCard(f.card), f)
    <3>1. d + i \in 1..Len(v) + 1
      BY <2>1
    <3>2. d + i \in 1..Len(v) => w[i] = v[d + i] /\ v[d + i].id # f.card
      BY <1>3, <2>1 DEF Has
    <3>3. d + i \notin 1..Len(v) => d + i = Len(v) + 1
      BY <1>1, <3>1
    <3>4. QED
      BY <2>1, <3>2, <3>3
  <2>3. After(w, v, f, d)
    BY <1>1, <1>3, <2>1, <2>2 DEF After
  <2>4. QED
    BY <2>3 DEF w
<1>4. QED
  BY <1>2, <1>3

\* A card of the page after f is a card it had, or the one f is about.
LEMMA ComesFrom ==
  ASSUME NEW v \in Seq(PageCard), NEW f \in Messages, NEW w, NEW d \in Nat, After(w, v, f, d),
         NEW i \in 1..Len(w)
  PROVE  /\ d + i \in 1..Len(v) => w[i].id = v[d + i].id
         /\ d + i \notin 1..Len(v) => d + i = Len(v) + 1 /\ w[i].id = f.card /\ ~Has(v, f.card)
<1>1. Len(v) \in Nat /\ f.card \in Nat
  BY DEF Messages
<1>2. CASE d + i \in 1..Len(v)
  <2>1. v[d + i] \in PageCard
    BY <1>2
  <2>2. w[i] = IF v[d + i].id = f.card THEN Updated(v[d + i], f) ELSE v[d + i]
    BY <1>2 DEF After
  <2>3. Updated(v[d + i], f).id = v[d + i].id
    BY <2>1, UpdatedIs
  <2>4. QED
    BY <1>2, <2>2, <2>3
<1>3. CASE d + i \notin 1..Len(v)
  <2>1. d + i = Len(v) + 1 /\ ~Has(v, f.card) /\ w[i] = Updated(BlankCard(f.card), f)
    BY <1>3 DEF After
  <2>2. Updated(BlankCard(f.card), f).id = f.card
    BY <1>1, BlankIs, UpdatedIs
  <2>3. QED
    BY <1>3, <2>1, <2>2
<1>4. QED
  BY <1>2, <1>3

\* The cards of a page are told apart by ids that have been handed out.
Apart(v, last) ==
  /\ \A i \in 1..Len(v) : v[i].id \in 1..last
  /\ \A i, j \in 1..Len(v) : v[i].id = v[j].id => i = j

\* A frame gives no card to the page twice.
LEMMA StaysApart ==
  ASSUME NEW v \in Seq(PageCard), NEW f \in Messages, NEW last \in Nat, NEW next \in Nat,
         Apart(v, last), last <= next, f.card \in 1..next
  PROVE  Apart(WithCard(v, f), next)
<1> PICK d \in 0..Len(v) + 1 : After(WithCard(v, f), v, f, d)
  BY AfterIs
<1> DEFINE w == WithCard(v, f)
<1>1. d \in Nat /\ Len(v) \in Nat /\ Len(w) \in Nat /\ After(w, v, f, d)
  BY DEF After
<1> HIDE DEF w
<1>2. ASSUME NEW i \in 1..Len(w)
      PROVE  /\ d + i \in 1..Len(v) => w[i].id = v[d + i].id
             /\ d + i \notin 1..Len(v) => d + i = Len(v) + 1 /\ w[i].id = f.card /\ ~Has(v, f.card)
  BY <1>1, ComesFrom
<1>3. ASSUME NEW i \in 1..Len(w) PROVE w[i].id \in 1..next
  <2>1. \A k \in 1..Len(v) : v[k].id \in 1..last
    BY DEF Apart
  <2>2. CASE d + i \in 1..Len(v)
    <3> PICK k \in 1..Len(v) : k = d + i
      BY <2>2
    <3>1. w[i].id = v[k].id /\ v[k].id \in 1..last
      BY <1>2, <2>1, <2>2
    <3>2. QED
      BY <3>1
  <2>3. CASE d + i \notin 1..Len(v)
    BY <1>2, <2>3
  <2>4. QED
    BY <2>2, <2>3
<1>4. ASSUME NEW i \in 1..Len(w), NEW j \in 1..Len(w), w[i].id = w[j].id PROVE i = j
  <2>1. CASE d + i \in 1..Len(v) /\ d + j \in 1..Len(v)
    <3> PICK k \in 1..Len(v), l \in 1..Len(v) : k = d + i /\ l = d + j
      BY <2>1
    <3>1. v[k].id = v[l].id
      BY <1>2, <1>4, <2>1
    <3>2. k = l
      BY <3>1 DEF Apart
    <3>3. QED
      BY <1>1, <3>2
  <2>2. CASE d + i \notin 1..Len(v) /\ d + j \notin 1..Len(v)
    BY <1>1, <1>2, <2>2
  <2>3. CASE d + i \in 1..Len(v) /\ d + j \notin 1..Len(v)
    BY <1>2, <1>4, <2>3 DEF Has
  <2>4. CASE d + i \notin 1..Len(v) /\ d + j \in 1..Len(v)
    BY <1>2, <1>4, <2>4 DEF Has
  <2>5. QED
    BY <2>1, <2>2, <2>3, <2>4
<1>5. QED
  BY <1>3, <1>4 DEF Apart, w

\* A card of the page and one of the engine look the same.
Same(s, c) == s.text = c.text /\ s.state = c.state /\ s.tr = c.tr

Agrees(v, E) == \A i \in 1..Len(v), c \in E : v[i].id = c.id => Same(v[i], c)

\* The frame f tells a page v, which agrees with the cards E, what it needs of E2.
Tells(f, v, E, E2) ==
  \A c \in E2 :
    /\ c.id # f.card => \E e \in E : e.id = c.id /\ Same(e, c)
    /\ c.id = f.card =>
         /\ f.kind # "cardEnd" /\ c.text = f.text
         /\ c.state = IF f.kind = "partial" THEN "live" ELSE "settled"
         /\ HasTr(f) => c.tr = f.tr
         /\ ~HasTr(f) /\ ~Has(v, f.card) => c.tr = NoTr
         /\ ~HasTr(f) /\ Has(v, f.card) => \E e \in E : e.id = f.card /\ e.tr = c.tr

\* What a frame that ends no card leaves of one.
LEMMA UpdatedShows ==
  ASSUME NEW c \in PageCard, NEW f \in Messages, f.kind # "cardEnd"
  PROVE  /\ Updated(c, f).text = f.text
         /\ Updated(c, f).state = IF f.kind = "partial" THEN "live" ELSE "settled"
         /\ Updated(c, f).tr = IF HasTr(f) THEN f.tr ELSE c.tr
<1> DEFINE tr == IF HasTr(f) THEN f.tr ELSE c.tr
           final == IF f.kind = "partial" THEN FALSE ELSE HasTr(f) \/ c.trFinal
           st == IF f.kind = "partial" THEN "live" ELSE "settled"
<1>1. Updated(c, f) = [c EXCEPT !.text = f.text, !.tr = tr, !.state = st, !.trFinal = final]
  BY DEF Updated
<1> HIDE DEF tr, final, st
<1>2. /\ Updated(c, f).text = f.text /\ Updated(c, f).state = st /\ Updated(c, f).tr = tr
  BY <1>1 DEF PageCard
<1>3. QED
  BY <1>2 DEF tr, st

\* A card that is new to the page has no translations.
LEMMA BlankHasNoTr ==
  ASSUME NEW id
  PROVE  BlankCard(id).tr = NoTr
  BY DEF BlankCard, NewCard, NoTr

\* The page agrees with what it has been told.
LEMMA AgreesAfter ==
  ASSUME NEW v \in Seq(PageCard), NEW f \in Messages, NEW E, NEW E2, Agrees(v, E), Tells(f, v, E, E2)
  PROVE  Agrees(WithCard(v, f), E2)
<1> PICK d \in 0..Len(v) + 1 : After(WithCard(v, f), v, f, d)
  BY AfterIs
<1> DEFINE w == WithCard(v, f)
<1>1. d \in Nat /\ Len(v) \in Nat /\ Len(w) \in Nat /\ After(w, v, f, d)
  BY DEF After
<1> HIDE DEF w
<1>2. SUFFICES ASSUME NEW i \in 1..Len(w), NEW c \in E2, w[i].id = c.id PROVE Same(w[i], c)
  BY DEF Agrees, w
<1>3. CASE d + i \in 1..Len(v)
  <2> PICK k \in 1..Len(v) : k = d + i
    BY <1>3
  <2>1. w[i].id = v[k].id /\ v[k] \in PageCard
    BY <1>1, <1>3, ComesFrom
  <2>2. w[i] = IF v[k].id = f.card THEN Updated(v[k], f) ELSE v[k]
    BY <1>1, <1>3 DEF After
  <2>3. \A e \in E : v[k].id = e.id => Same(v[k], e)
    BY DEF Agrees
  <2>4. CASE c.id # f.card
    <3>1. PICK e \in E : e.id = c.id /\ Same(e, c)
      BY <2>4 DEF Tells
    <3>2. w[i] = v[k] /\ Same(v[k], e)
      BY <1>2, <2>1, <2>2, <2>3, <2>4, <3>1
    <3>3. QED
      BY <3>1, <3>2 DEF Same
  <2>5. CASE c.id = f.card
    <3>1. w[i] = Updated(v[k], f) /\ Has(v, f.card) /\ f.kind # "cardEnd"
      BY <1>2, <2>1, <2>2, <2>5 DEF Has, Tells
    <3>2. /\ w[i].text = f.text /\ w[i].state = (IF f.kind = "partial" THEN "live" ELSE "settled")
          /\ w[i].tr = IF HasTr(f) THEN f.tr ELSE v[k].tr
      BY <2>1, <3>1, UpdatedShows
    <3>3. /\ c.text = f.text /\ c.state = (IF f.kind = "partial" THEN "live" ELSE "settled")
          /\ (HasTr(f) => c.tr = f.tr)
          /\ (~HasTr(f) => \E e \in E : e.id = f.card /\ e.tr = c.tr)
      BY <2>5, <3>1 DEF Tells
    <3>4. w[i].tr = c.tr
      <4>1. CASE HasTr(f)
        BY <3>2, <3>3, <4>1
      <4>2. CASE ~HasTr(f)
        <5>1. PICK e \in E : e.id = f.card /\ e.tr = c.tr
          BY <3>3, <4>2
        <5>2. v[k].tr = e.tr
          BY <1>2, <2>1, <2>3, <2>5, <5>1 DEF Same
        <5>3. QED
          BY <3>2, <4>2, <5>1, <5>2
      <4>3. QED
        BY <4>1, <4>2
    <3>5. QED
      BY <3>2, <3>3, <3>4 DEF Same
  <2>6. QED
    BY <2>4, <2>5
<1>4. CASE d + i \notin 1..Len(v)
  <2>1. w[i] = Updated(BlankCard(f.card), f) /\ ~Has(v, f.card) /\ w[i].id = f.card
    <3>1. w[i] = Updated(BlankCard(f.card), f) /\ ~Has(v, f.card)
      BY <1>1, <1>4 DEF After
    <3>2. w[i].id = f.card
      BY <1>1, <1>4, ComesFrom
    <3>3. QED
      BY <3>1, <3>2
  <2>2. BlankCard(f.card) \in PageCard
    BY BlankIs DEF Messages
  <2>3. /\ f.kind # "cardEnd" /\ c.text = f.text
        /\ c.state = (IF f.kind = "partial" THEN "live" ELSE "settled")
        /\ (HasTr(f) => c.tr = f.tr) /\ (~HasTr(f) => c.tr = NoTr)
    BY <1>2, <2>1 DEF Tells
  <2>4. /\ w[i].text = f.text /\ w[i].state = (IF f.kind = "partial" THEN "live" ELSE "settled")
        /\ w[i].tr = IF HasTr(f) THEN f.tr ELSE NoTr
    BY <2>1, <2>2, <2>3, UpdatedShows, BlankHasNoTr
  <2>5. QED
    BY <2>3, <2>4 DEF Same
<1>5. QED
  BY <1>3, <1>4

\* The live card is on the page, and only settled ones were added after it.
OnAir(v, id, S) ==
  \E i \in 1..Len(v) : v[i].id = id /\ \A j \in i + 1..Len(v) : v[j].id \in S

\* A frame about a card of the page moves none.
LEMMA OnAirStays ==
  ASSUME NEW v \in Seq(PageCard), NEW f \in Messages, Has(v, f.card), NEW id, NEW S, OnAir(v, id, S)
  PROVE  OnAir(WithCard(v, f), id, S)
<1> DEFINE w == WithCard(v, f)
<1>1. /\ Len(v) \in Nat /\ w \in Seq(PageCard) /\ Len(w) = Len(v)
      /\ \A i \in 1..Len(v) : w[i] = IF v[i].id = f.card THEN Updated(v[i], f) ELSE v[i]
  BY Restated
<1> HIDE DEF w
<1>2. ASSUME NEW i \in 1..Len(v) PROVE w[i].id = v[i].id
  <2>1. v[i] \in PageCard
    OBVIOUS
  <2>2. QED
    BY <1>1, <2>1, UpdatedIs
<1>3. PICK i \in 1..Len(v) : v[i].id = id /\ \A j \in i + 1..Len(v) : v[j].id \in S
  BY DEF OnAir
<1>4. \A j \in i + 1..Len(w) : w[j].id \in S
  BY <1>1, <1>2, <1>3
<1>5. w[i].id = id /\ i \in 1..Len(w)
  BY <1>1, <1>2, <1>3
<1>6. QED
  BY <1>4, <1>5 DEF OnAir, w

\* A card the page did not have comes last.
LEMMA OnAirOpens ==
  ASSUME NEW v \in Seq(PageCard), NEW f \in Messages, ~Has(v, f.card), NEW S
  PROVE  OnAir(WithCard(v, f), f.card, S)
<1> PICK d \in 0..Len(v) + 1 : After(WithCard(v, f), v, f, d)
  BY AfterIs
<1> DEFINE w == WithCard(v, f)
<1>1. d \in Nat /\ Len(v) \in Nat /\ Len(w) \in Nat /\ After(w, v, f, d)
  BY DEF After
<1> HIDE DEF w
<1>2. Len(w) = Len(v) + 1 - d /\ (d = 0 \/ Len(w) = MaxCards)
  BY <1>1 DEF After
<1>3. MaxCards \in Nat /\ MaxCards >= 2
  BY CaptionStoreAssumption, EngineAssumption
<1>4. Len(w) \in 1..Len(w) /\ d + Len(w) \notin 1..Len(v)
  BY <1>1, <1>2, <1>3
<1>5. w[Len(w)].id = f.card
  BY <1>1, <1>4, ComesFrom
<1>6. \A j \in Len(w) + 1..Len(w) : FALSE
  BY <1>1
<1>7. QED
  BY <1>4, <1>5, <1>6 DEF OnAir, w

\* There is room for the live card and every settled one.
LEMMA OnAirSurvives ==
  ASSUME NEW v \in Seq(PageCard), NEW f \in Messages, ~Has(v, f.card), NEW id, NEW S, OnAir(v, id, S),
         NEW last \in Nat, Apart(v, last), f.card \in S, IsFiniteSet(S), Cardinality(S) <= Backlog + 1
  PROVE  OnAir(WithCard(v, f), id, S)
<1> PICK d \in 0..Len(v) + 1 : After(WithCard(v, f), v, f, d)
  BY AfterIs
<1> DEFINE w == WithCard(v, f)
<1>1. d \in Nat /\ Len(v) \in Nat /\ Len(w) \in Nat /\ After(w, v, f, d)
  BY DEF After
<1> HIDE DEF w
<1>2. Len(w) = Len(v) + 1 - d /\ (d = 0 \/ Len(w) = MaxCards)
  BY <1>1 DEF After
<1>3. MaxCards \in Nat /\ MaxCards >= Backlog + 2 /\ Backlog \in Nat
  BY CaptionStoreAssumption, EngineAssumption
<1>4. PICK i \in 1..Len(v) : v[i].id = id /\ \A j \in i + 1..Len(v) : v[j].id \in S
  BY DEF OnAir
<1>5. Len(v) - i <= Backlog
  <2> DEFINE J == i + 1..Len(v)
             R == S \ {f.card}
             g == [j \in J |-> v[j].id]
  <2>1. \A j \in J : v[j].id \in R
    <3>1. \A j \in J : j \in 1..Len(v)
      BY <1>1
    <3>2. QED
      BY <1>4, <3>1 DEF Has
  <2>2. IsFiniteSet(R) /\ Cardinality(R) = Cardinality(S) - 1
    BY FS_RemoveElement
  <2>3. IsFiniteSet(J) /\ Cardinality(J) = Len(v) - i
    <3>1. i + 1 \in Int /\ Len(v) \in Int /\ i \in Int /\ i <= Len(v)
      BY <1>1
    <3>2. IsFiniteSet(J) /\ Cardinality(J) = IF i + 1 > Len(v) THEN 0 ELSE Len(v) - (i + 1) + 1
      BY <3>1, FS_Interval
    <3> HIDE DEF J
    <3>3. QED
      BY <3>1, <3>2
  <2>4. g \in Injection(J, R)
    <3>1. g \in [J -> R]
      BY <2>1
    <3>2. ASSUME NEW a \in J, NEW b \in J, g[a] = g[b] PROVE a = b
      <4>1. a \in 1..Len(v) /\ b \in 1..Len(v) /\ v[a].id = v[b].id
        BY <1>1, <3>2
      <4>2. QED
        BY <4>1 DEF Apart
    <3>3. IsInjective(g)
      <4> HIDE DEF J
      <4>1. DOMAIN g = J
        OBVIOUS
      <4> HIDE DEF g
      <4>2. QED
        BY <3>2, <4>1 DEF IsInjective
    <3> HIDE DEF g, J, R
    <3>4. QED
      BY <3>1, <3>3 DEF Injection
  <2>5. Cardinality(J) <= Cardinality(R)
    <3> HIDE DEF g, J, R
    <3>1. QED
      BY <2>2, <2>3, <2>4, FS_Injection
  <2>6. Cardinality(S) \in Nat
    BY FS_CardinalityType
  <2> HIDE DEF J, R, g
  <2>7. QED
    BY <1>1, <1>3, <2>2, <2>3, <2>5, <2>6
<1> PICK k \in 1..Len(w) : k = i - d
  BY <1>1, <1>2, <1>3, <1>5
<1>6. w[k].id = id
  BY <1>1, <1>4, ComesFrom
<1>7. ASSUME NEW j \in k + 1..Len(w) PROVE w[j].id \in S
  <2>1. j \in 1..Len(w)
    BY <1>1
  <2>2. CASE d + j \in 1..Len(v)
    <3> PICK l \in 1..Len(v) : l = d + j
      BY <2>2
    <3>1. w[j].id = v[l].id
      BY <1>1, <2>1, <2>2, ComesFrom
    <3>2. l \in i + 1..Len(v)
      BY <1>1
    <3>3. QED
      BY <1>4, <3>1, <3>2
  <2>3. CASE d + j \notin 1..Len(v)
    BY <1>1, <2>1, <2>3, ComesFrom
  <2>4. QED
    BY <2>2, <2>3
<1>8. QED
  BY <1>6, <1>7 DEF OnAir, w

-----------------------------------------------------------------------------
(* What the page makes of what a handler says *)

\* The cards the engine has.
EngineHas == SettledCards \cup ({live} \ {NoCard})

Ids == {c.id : c \in SettledCards}

\* A page that has seen everything.
Good(v) ==
  /\ v \in Seq(PageCard) /\ Apart(v, opened) /\ Agrees(v, EngineHas)
  /\ live # NoCard => OnAir(v, live.id, Ids)

\* The fields of a frame.
LEMMA FrameFields ==
  ASSUME NEW kind, NEW id, NEW text, NEW tr
  PROVE  /\ Frame(kind, id, text, tr).kind = kind /\ Frame(kind, id, text, tr).card = id
         /\ Frame(kind, id, text, tr).text = text /\ Frame(kind, id, text, tr).tr = tr
  BY DEF Frame

\* NoTr carries no translation.
LEMMA NoTrIsNone ==
  ASSUME NEW f, f.tr = NoTr
  PROVE  ~HasTr(f)
  BY DEF HasTr, NoTr

\* Whether the page has the card an event is about.
LEMMA CurrentOnPage ==
  ASSUME EngineInv, NEW v, Good(v)
  PROVE  /\ live # NoCard => Has(v, Current.id) /\ Current = live
         /\ live = NoCard => ~Has(v, Current.id) /\ Current.tr = NoTr
         /\ Current.id \in 1..Current.id /\ opened <= Current.id /\ opened \in Nat
<1>1. /\ opened \in Nat /\ Current.id \in Nat \ {0}
      /\ Current.id = (IF live = NoCard THEN opened + 1 ELSE opened)
  BY CurrentIs DEF EngineInv, EngineTypeOK
<1>2. CASE live = NoCard
  <2>1. \A i \in 1..Len(v) : v[i].id \in 1..opened
    BY DEF Good, Apart
  <2>2. ~Has(v, Current.id)
    BY <1>1, <1>2, <2>1 DEF Has
  <2>3. Current.tr = NoTr
    BY <1>2 DEF Current, NewCard, NoTr
  <2>4. QED
    BY <1>1, <1>2, <2>2, <2>3
<1>3. CASE live # NoCard
  <2>1. Current = live
    BY <1>3 DEF Current
  <2>2. Has(v, Current.id)
    BY <1>3, <2>1 DEF Good, OnAir, Has
  <2>3. QED
    BY <1>1, <1>3, <2>1, <2>2
<1>4. QED
  BY <1>2, <1>3

\* A partial transcript, to a page that has seen everything.
LEMMA HearingShows ==
  ASSUME EngineInv, NEW text \in Texts, Partial(text), NEW v, Good(v),
         NEW f, f = Frame("partial", Current.id, text, NoTr)
  PROVE  Good(WithCard(v, f))'
<1>1. /\ EngineInv' /\ settled' = settled /\ live' # NoCard /\ opened' = Current.id /\ live'.id = Current.id
  BY PartialKeeps
<1>2. /\ Current \in Card /\ Current.id \in Nat \ {0} /\ Current.state = "live"
  BY CurrentIs
<1>3. live'.text = text /\ live'.state = "live" /\ live'.tr = Current.tr
  <2>1. live' = [Current EXCEPT !.text = text]
    BY DEF Partial
  <2>2. QED
    BY <1>2, <2>1 DEF Card
<1>4. f \in Messages /\ f.kind = "partial" /\ f.card = Current.id /\ f.text = text /\ ~HasTr(f)
  BY <1>2, FrameIs, FrameFields, NoTrIsNone
<1>5. PICK E, E2, S : E = EngineHas /\ E2 = EngineHas' /\ S = Ids
  OBVIOUS
<1>6. v \in Seq(PageCard) /\ Apart(v, opened) /\ Agrees(v, E) /\ (live # NoCard => OnAir(v, live.id, S))
  BY <1>5 DEF Good
<1>7. Tells(f, v, E, E2)
  <2>1. SUFFICES ASSUME NEW c \in E2
                 PROVE  /\ c.id # f.card => \E e \in E : e.id = c.id /\ Same(e, c)
                        /\ c.id = f.card =>
                             /\ f.kind # "cardEnd" /\ c.text = f.text
                             /\ c.state = IF f.kind = "partial" THEN "live" ELSE "settled"
                             /\ HasTr(f) => c.tr = f.tr
                             /\ ~HasTr(f) /\ ~Has(v, f.card) => c.tr = NoTr
                             /\ ~HasTr(f) /\ Has(v, f.card) => \E e \in E : e.id = f.card /\ e.tr = c.tr
    BY DEF Tells
  <2>2. c \in SettledCards \/ c = live'
    BY <1>1, <1>5 DEF EngineHas, SettledCards
  <2>3. CASE c \in SettledCards
    <3>1. c.id # Current.id
      BY <2>3, IdsAreReal
    <3>2. c \in E /\ Same(c, c)
      BY <1>5, <2>3 DEF EngineHas, Same
    <3>3. QED
      BY <1>4, <3>1, <3>2
  <2>4. CASE c = live'
    <3>1. Has(v, f.card) => live \in E /\ live.id = f.card /\ live.tr = c.tr
      BY <1>3, <1>4, <1>5, <2>4, CurrentOnPage DEF EngineHas
    <3>2. ~Has(v, f.card) => c.tr = NoTr
      BY <1>3, <1>4, <2>4, CurrentOnPage
    <3>3. QED
      BY <1>1, <1>3, <1>4, <2>4, <3>1, <3>2
  <2>5. QED
    BY <2>2, <2>3, <2>4
<1>8. Agrees(WithCard(v, f), E2)
  BY <1>4, <1>6, <1>7, AgreesAfter
<1>9. Apart(WithCard(v, f), Current.id)
  BY <1>2, <1>4, <1>6, CurrentOnPage, StaysApart
<1>10. OnAir(WithCard(v, f), Current.id, S)
  <2>1. CASE live = NoCard
    <3>1. ~Has(v, f.card)
      BY <1>4, <2>1, CurrentOnPage
    <3>2. QED
      BY <1>4, <1>6, <3>1, OnAirOpens
  <2>2. CASE live # NoCard
    <3>1. Has(v, f.card) /\ live.id = Current.id
      BY <1>4, <2>2, CurrentOnPage
    <3>2. QED
      BY <1>4, <1>6, <2>2, <3>1, OnAirStays
  <2>3. QED
    BY <2>1, <2>2
<1>11. WithCard(v, f) \in Seq(PageCard)
  BY <1>4, <1>6, PageStays
<1> PICK w : w = WithCard(v, f)
  OBVIOUS
<1>12. Ids' = S
  BY <1>1, <1>5 DEF Ids, SettledCards
<1>13. Good(w)'
  BY <1>1, <1>5, <1>8, <1>9, <1>10, <1>11, <1>12 DEF Good
<1>14. QED
  BY <1>13

\* The oldest settled card goes when there are too many, and no more stay than the
\* backlog and one.
LEMMA CommitDrops ==
  ASSUME EngineInv, NEW text \in Texts, Commit(text), Len(settled) <= Backlog + 1
  PROVE  /\ Len(settled') <= Backlog + 1
         /\ Backlogged => \A t \in SettledCards' : t.id # settled[1].id
<1> DEFINE c == [Current EXCEPT !.text = text, !.state = "settled"]
<1>1. settled' = Append(Kept, c)
  BY DEF Commit, Kept
<1>2. c \in Card /\ c.id = Current.id
  BY CurrentIs DEF Card
<1> HIDE DEF c
<1>3. settled \in Seq(Card) /\ opened \in Nat /\ Backlog \in Nat /\ Len(settled) \in Nat
  BY EngineAssumption DEF EngineInv, EngineTypeOK
<1>4. Kept \in Seq(Card) /\ Len(Kept) \in Nat
  BY <1>3, KeptAre
<1>5. /\ Len(settled') = Len(Kept) + 1 /\ settled'[Len(Kept) + 1] = c
      /\ \A i \in 1..Len(Kept) : settled'[i] = Kept[i]
  BY <1>1, <1>2, <1>4, AppendProperties
<1>6. CASE ~Backlogged
  <2>1. Kept = settled /\ Len(settled) <= Backlog
    BY <1>3, <1>6 DEF Kept, Backlogged
  <2>2. QED
    BY <1>3, <1>5, <1>6, <2>1
<1>7. CASE Backlogged
  <2>1. Kept = Tail(settled) /\ settled # <<>>
    BY <1>3, <1>7 DEF Kept, Backlogged
  <2>2. /\ Len(Kept) = Len(settled) - 1
        /\ \A i \in 1..Len(Kept) : Kept[i] = settled[i + 1]
    BY <1>3, <2>1, HeadTailProperties
  <2>3. ASSUME NEW t \in SettledCards' PROVE t.id # settled[1].id
    <3>1. PICK i \in 1..Len(settled') : t = settled'[i]
      BY DEF SettledCards
    <3>2. Len(settled) # 0 /\ 1 \in 1..Len(settled)
      BY <1>3, <2>1, EmptySeq
    <3>3. CASE i \in 1..Len(Kept)
      <4> PICK j \in 1..Len(settled) : j = i + 1
        BY <1>3, <1>4, <2>2, <3>3
      <4>1. t = settled[j] /\ j # 1
        BY <1>4, <1>5, <2>2, <3>1, <3>3
      <4>2. QED
        BY <3>2, <4>1 DEF EngineInv, CardsInv
    <3>4. CASE i \notin 1..Len(Kept)
      <4>1. t = c
        BY <1>4, <1>5, <3>1, <3>4
      <4>2. settled[1] \in SettledCards
        BY <3>2 DEF SettledCards
      <4>3. settled[1].id # Current.id
        BY <4>2, IdsAreReal
      <4>4. QED
        BY <1>2, <4>1, <4>3
    <3>5. QED
      BY <3>3, <3>4
  <2>4. QED
    BY <1>3, <1>5, <1>7, <2>2, <2>3
<1>8. QED
  BY <1>6, <1>7

\* A card that is thrown away is told to fade.
LEMMA EndShows ==
  ASSUME NEW v \in Seq(PageCard), NEW f \in Messages, f.kind = "cardEnd", NEW E, NEW E2, Agrees(v, E),
         \A c \in E2 : c \in E /\ c.id # f.card
  PROVE  Agrees(WithCard(v, f), E2)
<1>1. \A c \in E2 : Same(c, c)
  BY DEF Same
<1>2. Tells(f, v, E, E2)
  BY <1>1 DEF Tells
<1>3. QED
  BY <1>2, AgreesAfter

\* Silence, to such a page.
LEMMA QuietShows ==
  ASSUME EngineInv, CloseLive, NEW v, Good(v), NEW f, f = Frame("cardEnd", live.id, NoText, NoTr)
  PROVE  Good(WithCard(v, f))'
<1>1. live' = NoCard /\ settled' = settled /\ opened' = opened /\ live # NoCard
  BY ClosingKeeps DEF CloseLive
<1>2. live.id \in Nat /\ opened \in Nat /\ live.id \in 1..opened
  BY <1>1 DEF EngineInv, EngineTypeOK, CardsInv, Card
<1>3. f \in Messages /\ f.kind = "cardEnd" /\ f.card = live.id
  BY <1>2, FrameIs, FrameFields
<1>4. PICK E, E2 : E = EngineHas /\ E2 = EngineHas'
  OBVIOUS
<1>5. v \in Seq(PageCard) /\ Apart(v, opened) /\ Agrees(v, E)
  BY <1>4 DEF Good
<1>6. ASSUME NEW c \in E2 PROVE c \in E /\ c.id # f.card
  <2>1. c \in SettledCards
    BY <1>1, <1>4 DEF EngineHas, SettledCards
  <2>2. c.id # Current.id /\ Current = live
    BY <1>1, <2>1, IdsAreReal DEF Current
  <2>3. QED
    BY <1>3, <1>4, <2>1, <2>2 DEF EngineHas
<1>7. Agrees(WithCard(v, f), E2)
  BY <1>3, <1>5, <1>6, EndShows
<1>8. Apart(WithCard(v, f), opened)
  BY <1>2, <1>3, <1>5, StaysApart
<1>9. WithCard(v, f) \in Seq(PageCard)
  BY <1>3, <1>5, PageStays
<1> PICK w : w = WithCard(v, f)
  OBVIOUS
<1>10. Good(w)'
  BY <1>1, <1>4, <1>7, <1>8, <1>9 DEF Good
<1>11. QED
  BY <1>10

\* The committed card takes its text, and the one that makes room fades.
LEMMA SettlingShows ==
  ASSUME EngineInv, NEW text \in Texts, Commit(text), Len(settled) <= Backlog + 1, NEW v, Good(v),
         NEW f \in Messages, f.kind \in {"commit", "retract"}, f.card = Current.id, f.text = text,
         f.tr = NoTr, NEW g
  PROVE  /\ ~Backlogged => Good(WithCard(v, f))'
         /\ Backlogged /\ g \in Messages /\ g.kind = "cardEnd" /\ g.card = settled[1].id =>
              Good(WithCard(WithCard(v, f), g))'
<1>1. EngineInv' /\ live' = NoCard /\ opened' = Current.id
  BY CommitKeeps
<1>2. PICK c \in Card : /\ c.id = Current.id /\ c.text = text /\ c.state = "settled" /\ c.tr = Current.tr
                        /\ SettledCards' \subseteq SettledCards \cup {c}
  BY CommitKeeps
<1>3. Current.id \in Nat /\ ~HasTr(f) /\ f.kind # "cardEnd" /\ f.kind # "partial"
  BY CurrentIs, NoTrIsNone
<1>4. PICK E, E1, E2 : E = EngineHas /\ E1 = SettledCards \cup {c} /\ E2 = EngineHas'
  OBVIOUS
<1>5. v \in Seq(PageCard) /\ Apart(v, opened) /\ Agrees(v, E)
  BY <1>4 DEF Good
<1>6. Tells(f, v, E, E1)
  <2>1. SUFFICES ASSUME NEW k \in E1
                 PROVE  /\ k.id # f.card => \E e \in E : e.id = k.id /\ Same(e, k)
                        /\ k.id = f.card =>
                             /\ f.kind # "cardEnd" /\ k.text = f.text
                             /\ k.state = IF f.kind = "partial" THEN "live" ELSE "settled"
                             /\ HasTr(f) => k.tr = f.tr
                             /\ ~HasTr(f) /\ ~Has(v, f.card) => k.tr = NoTr
                             /\ ~HasTr(f) /\ Has(v, f.card) => \E e \in E : e.id = f.card /\ e.tr = k.tr
    BY DEF Tells
  <2>2. CASE k \in SettledCards
    <3>1. k.id # Current.id
      BY <2>2, IdsAreReal
    <3>2. k \in E /\ Same(k, k)
      BY <1>4, <2>2 DEF EngineHas, Same
    <3>3. QED
      BY <3>1, <3>2
  <2>3. CASE k = c
    <3>1. Has(v, f.card) => live \in E /\ live.id = f.card /\ live.tr = k.tr
      BY <1>2, <1>4, <2>3, CurrentOnPage DEF EngineHas
    <3>2. ~Has(v, f.card) => k.tr = NoTr
      BY <1>2, <2>3, CurrentOnPage
    <3>3. QED
      BY <1>2, <1>3, <2>3, <3>1, <3>2
  <2>4. QED
    BY <1>4, <2>2, <2>3
<1>7. Agrees(WithCard(v, f), E1)
  BY <1>5, <1>6, AgreesAfter
<1>8. Apart(WithCard(v, f), Current.id)
  BY <1>3, <1>5, CurrentOnPage, StaysApart
<1>9. WithCard(v, f) \in Seq(PageCard)
  BY <1>5, PageStays
<1> PICK w : w = WithCard(v, f)
  OBVIOUS
<1>10. w \in Seq(PageCard) /\ Apart(w, Current.id) /\ Agrees(w, E1)
  BY <1>7, <1>8, <1>9
<1>11. E2 = SettledCards' /\ \A k \in E2 : k \in E1
  BY <1>1, <1>2, <1>4 DEF EngineHas
<1>12. ASSUME ~Backlogged PROVE Good(w)'
  <2>1. Agrees(w, E2)
    BY <1>10, <1>11 DEF Agrees
  <2>2. QED
    BY <1>1, <1>4, <1>10, <2>1 DEF Good
<1>13. ASSUME Backlogged, g \in Messages, g.kind = "cardEnd", g.card = settled[1].id
       PROVE  Good(WithCard(w, g))'
  <2>1. \A k \in E2 : k \in E1 /\ k.id # g.card
    BY <1>11, <1>13, CommitDrops
  <2>2. Agrees(WithCard(w, g), E2)
    BY <1>10, <1>13, <2>1, EndShows
  <2>3. g.card \in 1..Current.id
    <3>1. Len(settled) \in Nat \ {0}
      BY <1>13, WhenSettledIs
    <3>2. settled[1].id \in 1..opened
      BY <3>1 DEF EngineInv, CardsInv
    <3>3. QED
      BY <1>3, <1>13, <3>2, CurrentOnPage
  <2>4. Apart(WithCard(w, g), Current.id)
    BY <1>3, <1>10, <1>13, <2>3, StaysApart
  <2>5. WithCard(w, g) \in Seq(PageCard)
    BY <1>10, <1>13, PageStays
  <2> PICK x : x = WithCard(w, g)
    OBVIOUS
  <2>6. Good(x)'
    BY <1>1, <1>4, <2>2, <2>4, <2>5 DEF Good
  <2>7. QED
    BY <2>6
<1>14. QED
  BY <1>12, <1>13

\* There are no more ids than settled cards.
LEMMA IdsAreFew ==
  ASSUME EngineInv
  PROVE  IsFiniteSet(Ids) /\ Cardinality(Ids) <= Len(settled)
<1> DEFINE I == 1..Len(settled)
           g == [i \in I |-> settled[i].id]
<1>1. Len(settled) \in Nat
  BY DEF EngineInv, EngineTypeOK
<1>2. IsFiniteSet(I) /\ Cardinality(I) = Len(settled)
  <2>1. 1 \in Int /\ Len(settled) \in Int
    BY <1>1
  <2>2. IsFiniteSet(1..Len(settled)) /\ Cardinality(1..Len(settled)) = IF 1 > Len(settled) THEN 0 ELSE Len(settled) - 1 + 1
    BY <2>1, FS_Interval
  <2>3. QED
    BY <1>1, <2>2
<1>3. g \in [I -> Ids] /\ \A id \in Ids : \E i \in I : g[i] = id
  BY DEF Ids, SettledCards
<1> HIDE DEF I, g
<1>4. g \in Surjection(I, Ids)
  BY <1>3 DEF Surjection
<1>5. QED
  BY <1>2, <1>4, FS_Surjection

\* A translation does not change whose card it is.
LEMMA TranslatedKeepsId ==
  ASSUME NEW c \in Card, NEW lang \in Langs, NEW text \in Texts, NEW final \in BOOLEAN
  PROVE  Translated(c, lang, text, final) \in Card /\ Translated(c, lang, text, final).id = c.id
  BY TranslatedIs

\* What a translation changes: the card it is for.
LEMMA ApplyIs ==
  ASSUME EngineInv, NEW id \in Nat \ {0}, NEW lang \in Langs, NEW text \in Texts, NEW final \in BOOLEAN,
         ApplyTranslation(id, lang, text, final)
  PROVE  /\ opened' = opened /\ Len(settled') = Len(settled) /\ Ids' = Ids
         /\ live'.id = live.id /\ (live' = NoCard <=> live = NoCard)
         /\ \A t \in EngineHas' : /\ t.id # id => t \in EngineHas
                                  /\ t.id = id => t.tr[lang] = [of |-> text, final |-> final]
<1>1. opened' = opened /\ live'.id = live.id /\ (live' = NoCard <=> live = NoCard)
  BY ApplyKeeps
<1>2. ASSUME NEW t \in SettledCards'
      PROVE  /\ t.id # id => t \in SettledCards
             /\ t.id = id => t.tr[lang] = [of |-> text, final |-> final]
  BY ApplyKeeps
<1>3. /\ live \in Card /\ settled \in Seq(Card) /\ Len(settled) \in Nat
      /\ \A i \in 1..Len(settled) : settled[i] \in Card
  BY DEF EngineInv, EngineTypeOK
<1>4. CASE live.id = id /\ live' = Translated(live, lang, text, final) /\ settled' = settled
  <2>1. live'.tr[lang] = [of |-> text, final |-> final]
    BY <1>3, <1>4, TranslatedIs
  <2>2. Ids' = Ids
    BY <1>4 DEF Ids, SettledCards
  <2>3. QED
    BY <1>1, <1>2, <1>4, <2>1, <2>2 DEF EngineHas
<1>5. CASE live' = live /\ \E i \in 1..Len(settled) :
             /\ settled[i].id = id
             /\ settled' = [settled EXCEPT ![i] = Translated(@, lang, text, final)]
  <2>1. PICK i \in 1..Len(settled) :
          settled[i].id = id /\ settled' = [settled EXCEPT ![i] = Translated(@, lang, text, final)]
    BY <1>5
  <2> DEFINE t == Translated(settled[i], lang, text, final)
  <2>2. t \in Card /\ t.id = id
    BY <1>3, <2>1, TranslatedKeepsId
  <2>3. settled' = [settled EXCEPT ![i] = t]
    BY <2>1
  <2> HIDE DEF t
  <2>4. /\ Len(settled') = Len(settled) /\ settled'[i] = t
        /\ \A j \in 1..Len(settled) : j # i => settled'[j] = settled[j]
    BY <1>3, <2>2, <2>3, ExceptSeq
  <2>5. \A j \in 1..Len(settled) : settled'[j].id = settled[j].id
    BY <2>1, <2>2, <2>4
  <2>6. Ids' = Ids
    BY <2>4, <2>5 DEF Ids, SettledCards
  <2>7. live # NoCard => live.id # id
    BY <2>1 DEF EngineInv, CardsInv
  <2>8. QED
    BY <1>1, <1>2, <1>5, <2>4, <2>6, <2>7 DEF EngineHas
<1>6. QED
  BY <1>4, <1>5 DEF ApplyTranslation

\* The page has the translations of a card that is restated, even if it had thrown
\* the card away, and the live card stays on it.
LEMMA RestatingShows ==
  ASSUME EngineInv, EngineInv', Len(settled) <= Backlog + 1,
         NEW id \in Nat \ {0}, NEW lang \in Langs, NEW text \in Texts, NEW final \in BOOLEAN,
         ApplyTranslation(id, lang, text, final),
         NEW c \in Card, c \in {live'} \cup SettledCards', c.id = id,
         NEW f, f = RestatedFrame(c), NEW v, Good(v)
  PROVE  Good(WithCard(v, f))'
<1>a. /\ opened' = opened /\ Ids' = Ids /\ live'.id = live.id /\ (live' = NoCard <=> live = NoCard)
  BY ApplyIs
<1>b. opened \in Nat /\ live \in Card /\ Len(settled) \in Nat
  BY DEF EngineInv, EngineTypeOK
<1>1. /\ opened' = opened /\ Ids' = Ids /\ live'.id = live.id /\ (live' = NoCard <=> live = NoCard)
      /\ opened \in Nat /\ live \in Card /\ Len(settled) \in Nat
  BY <1>a, <1>b
<1>2. PICK E, E2, S : E = EngineHas /\ E2 = EngineHas' /\ S = Ids
  OBVIOUS
<1>3. ASSUME NEW t \in E2
      PROVE  /\ t.id # id => t \in E
             /\ t.id = id => t.tr[lang] = [of |-> text, final |-> final]
  BY <1>2, ApplyIs
<1>4. c \in E2
  BY <1>2, NoCardIs DEF EngineHas
<1>5. ASSUME NEW t \in E2, t.id = id PROVE t = c
  <2>1. t \in SettledCards' \/ (t = live' /\ live' # NoCard)
    BY <1>2 DEF EngineHas
  <2>2. c \in SettledCards' \/ (c = live' /\ live' # NoCard)
    BY <1>2, <1>4 DEF EngineHas
  <2>3. Len(settled') \in Nat /\ \A e \in SettledCards' : \E i \in 1..Len(settled') : e = settled'[i]
    BY DEF EngineInv, EngineTypeOK, SettledCards
  <2>4. /\ \A i, j \in 1..Len(settled') : settled'[i].id = settled'[j].id => i = j
        /\ live' # NoCard => \A i \in 1..Len(settled') : settled'[i].id # live'.id
    BY DEF EngineInv, CardsInv
  <2>5. CASE t \in SettledCards' /\ c \in SettledCards'
    <3>1. PICK i, j \in 1..Len(settled') : t = settled'[i] /\ c = settled'[j]
      BY <2>3, <2>5
    <3>2. i = j
      BY <1>5, <2>4, <3>1
    <3>3. QED
      BY <3>1, <3>2
  <2>6. CASE t \in SettledCards' /\ c = live' /\ live' # NoCard
    BY <1>5, <2>3, <2>4, <2>6
  <2>7. CASE t = live' /\ live' # NoCard /\ c \in SettledCards'
    BY <1>5, <2>3, <2>4, <2>7
  <2>8. QED
    BY <2>1, <2>2, <2>5, <2>6, <2>7
<1>6. /\ f \in Messages /\ f.card = id /\ f.text = c.text /\ f.tr = c.tr /\ f.kind # "cardEnd"
      /\ f.kind = IF c.state = "live" THEN "partial" ELSE "retract"
  BY DEF RestatedFrame, Frame, Messages, Card
<1>7. HasTr(f)
  <2>1. f.tr[lang] = [of |-> text, final |-> final]
    BY <1>3, <1>4, <1>6
  <2>2. f.tr[lang] # NoTranslation
    BY <2>1, EngineAssumption DEF NoTranslation
  <2>3. QED
    BY <2>2 DEF HasTr
<1>8. c.state = IF f.kind = "partial" THEN "live" ELSE "settled"
  BY <1>6 DEF Card
<1>9. v \in Seq(PageCard) /\ Apart(v, opened) /\ Agrees(v, E) /\ (live # NoCard => OnAir(v, live.id, S))
  BY <1>2 DEF Good
<1>10. Tells(f, v, E, E2)
  <2>1. SUFFICES ASSUME NEW t \in E2
                 PROVE  /\ t.id # f.card => \E e \in E : e.id = t.id /\ Same(e, t)
                        /\ t.id = f.card =>
                             /\ f.kind # "cardEnd" /\ t.text = f.text
                             /\ t.state = IF f.kind = "partial" THEN "live" ELSE "settled"
                             /\ HasTr(f) => t.tr = f.tr
                             /\ ~HasTr(f) /\ ~Has(v, f.card) => t.tr = NoTr
                             /\ ~HasTr(f) /\ Has(v, f.card) => \E e \in E : e.id = f.card /\ e.tr = t.tr
    BY DEF Tells
  <2>2. CASE t.id # id
    <3>1. t \in E /\ Same(t, t)
      BY <1>3, <2>2 DEF Same
    <3>2. QED
      BY <1>6, <2>2, <3>1
  <2>3. CASE t.id = id
    <3>1. t = c
      BY <1>5, <2>3
    <3>2. QED
      BY <1>6, <1>7, <1>8, <2>3, <3>1
  <2>4. QED
    BY <2>2, <2>3
<1>11. Agrees(WithCard(v, f), E2)
  BY <1>6, <1>9, <1>10, AgreesAfter
<1>12. id \in 1..opened
  <2>1. CASE c = live'
    BY <1>1, <1>2, <1>4, <2>1, NoCardIs DEF EngineInv, CardsInv
  <2>2. CASE c \in SettledCards'
    BY <1>1, <2>2 DEF EngineInv, CardsInv, SettledCards
  <2>3. QED
    BY <2>1, <2>2
<1>13. Apart(WithCard(v, f), opened)
  BY <1>1, <1>6, <1>9, <1>12, StaysApart
<1>14. WithCard(v, f) \in Seq(PageCard)
  BY <1>6, <1>9, PageStays
<1>15. live # NoCard => OnAir(WithCard(v, f), live.id, S)
  <2>1. SUFFICES ASSUME live # NoCard PROVE OnAir(WithCard(v, f), live.id, S)
    OBVIOUS
  <2>2. CASE Has(v, f.card)
    BY <1>6, <1>9, <2>1, <2>2, OnAirStays
  <2>3. CASE ~Has(v, f.card)
    <3>1. live.id # id
      <4>1. Has(v, live.id)
        BY <1>9, <2>1 DEF OnAir, Has
      <4>2. QED
        BY <1>6, <2>3, <4>1
    <3>2. c \in SettledCards'
      BY <1>1, <3>1
    <3>3. id \in S
      <4>1. id \in Ids'
        BY <3>2 DEF Ids
      <4>2. QED
        BY <1>1, <1>2, <4>1
    <3>4. IsFiniteSet(S) /\ Cardinality(S) <= Backlog + 1
      <4>1. IsFiniteSet(S) /\ Cardinality(S) <= Len(settled)
        BY <1>2, IdsAreFew
      <4>2. Cardinality(S) \in Nat /\ Backlog \in Nat
        BY <4>1, FS_CardinalityType, EngineAssumption
      <4>3. QED
        BY <1>1, <4>1, <4>2
    <3> PICK old : old = live.id
      OBVIOUS
    <3>5. OnAir(v, old, S)
      BY <1>9, <2>1
    <3>6. OnAir(WithCard(v, f), old, S)
      BY <1>1, <1>6, <1>9, <2>3, <3>3, <3>4, <3>5, OnAirSurvives
    <3>7. QED
      BY <3>6
  <2>4. QED
    BY <2>2, <2>3
<1> PICK w : w = WithCard(v, f)
  OBVIOUS
<1>16. live' # NoCard => OnAir(w, live'.id, Ids')
  BY <1>1, <1>2, <1>15
<1>17. Good(w)'
  BY <1>1, <1>2, <1>11, <1>13, <1>14, <1>16 DEF Good
<1>18. QED
  BY <1>17

-----------------------------------------------------------------------------
(* The virtual page *)

\* What a page shows after f, which may be about no card.
Shows(store, f) == IF ForCaptions(f) THEN WithCard(store, f) ELSE store

\* A page that shows base after low frames of s shows w after n.
Runs(v, base, low, s, n, w) ==
  /\ low \in Nat /\ n \in low..Len(s) /\ v \in [low..n -> Seq(PageCard)]
  /\ v[low] = base /\ v[n] = w
  /\ \A m \in low + 1..n : v[m] = Shows(v[m - 1], s[m])

Ends(base, low, s, n, w) == \E v : Runs(v, base, low, s, n, w)

\* The number of a frame does not matter to the store.
LEMMA SameNews ==
  ASSUME NEW f, NEW g, f.kind = g.kind, f.card = g.card, f.text = g.text, f.tr = g.tr, NEW store
  PROVE  WithCard(store, f) = WithCard(store, g) /\ Shows(store, f) = Shows(store, g)
<1>1. HasTr(f) <=> HasTr(g)
  BY DEF HasTr
<1>2. \A c : Updated(c, f) = Updated(c, g)
  BY <1>1 DEF Updated
<1>3. Has(store, f.card) <=> Has(store, g.card)
  OBVIOUS
<1>4. WithCard(store, f) = WithCard(store, g)
  BY <1>2, <1>3 DEF WithCard
<1>5. QED
  BY <1>4 DEF Shows, ForCaptions

\* A page stays a page.
LEMMA ShowsIs ==
  ASSUME NEW store \in Seq(PageCard), NEW f \in Plain \cup Frames
  PROVE  Shows(store, f) \in Seq(PageCard)
<1>1. CASE ForCaptions(f)
  <2> DEFINE g == Frame(f.kind, f.card, f.text, f.tr)
  <2>1. g \in Messages
    BY <1>1 DEF Frame, Messages, Plain, Frames, ForCaptions
  <2>2. g.kind = f.kind /\ g.card = f.card /\ g.text = f.text /\ g.tr = f.tr
    BY FrameFields
  <2> HIDE DEF g
  <2>3. WithCard(store, f) = WithCard(store, g)
    BY <2>2, SameNews
  <2>4. WithCard(store, g) \in Seq(PageCard)
    BY <2>1, PageStays
  <2>5. QED
    BY <1>1, <2>3, <2>4 DEF Shows
<1>2. CASE ~ForCaptions(f)
  BY <1>2 DEF Shows
<1>3. QED
  BY <1>1, <1>2

\* Types of a run.
LEMMA EndsIs ==
  ASSUME NEW base, NEW low, NEW s, NEW n, NEW w, Ends(base, low, s, n, w)
  PROVE  low \in Nat /\ n \in low..Len(s) /\ base \in Seq(PageCard) /\ w \in Seq(PageCard)
<1>1. PICK v : Runs(v, base, low, s, n, w)
  BY DEF Ends
<1>2. low \in Nat /\ n \in low..Len(s) /\ v \in [low..n -> Seq(PageCard)] /\ v[low] = base /\ v[n] = w
  BY <1>1 DEF Runs
<1>3. n \in Int /\ low <= n /\ low \in low..n /\ n \in low..n
  BY <1>2
<1>4. QED
  BY <1>2, <1>3

\* A run that reads nothing.
LEMMA EndsHere ==
  ASSUME NEW base \in Seq(PageCard), NEW s \in Seq(Frames), NEW n \in 0..Len(s)
  PROVE  Ends(base, n, s, n, base)
<1> DEFINE v == [m \in n..n |-> base]
<1>1. Len(s) \in Nat /\ n \in Nat /\ n \in n..Len(s) /\ n \in n..n /\ n + 1..n = {}
  OBVIOUS
<1>2. v \in [n..n -> Seq(PageCard)] /\ v[n] = base
  BY <1>1
<1> HIDE DEF v
<1>3. Runs(v, base, n, s, n, base)
  BY <1>1, <1>2 DEF Runs
<1>4. QED
  BY <1>3 DEF Ends

\* A run that reads one more frame.
LEMMA EndsNext ==
  ASSUME NEW s \in Seq(Frames), NEW base, NEW low, NEW n, NEW w, Ends(base, low, s, n, w), n < Len(s)
  PROVE  Ends(base, low, s, n + 1, Shows(w, s[n + 1]))
<1>1. PICK v : Runs(v, base, low, s, n, w)
  BY DEF Ends
<1>2. /\ low \in Nat /\ n \in low..Len(s) /\ v \in [low..n -> Seq(PageCard)] /\ v[low] = base /\ v[n] = w
      /\ \A m \in low + 1..n : v[m] = Shows(v[m - 1], s[m])
  BY <1>1 DEF Runs
<1> PICK next : next = Shows(w, s[n + 1])
  OBVIOUS
<1>3. /\ Len(s) \in Nat /\ n \in Nat /\ low <= n /\ n + 1 \in 1..Len(s) /\ s[n + 1] \in Frames
      /\ n + 1 \in low..Len(s)
  BY <1>2
<1>4. w \in Seq(PageCard)
  BY EndsIs
<1>5. next \in Seq(PageCard)
  BY <1>3, <1>4, ShowsIs
<1> DEFINE u == [m \in low..n + 1 |-> IF m = n + 1 THEN next ELSE v[m]]
<1>6. u \in [low..n + 1 -> Seq(PageCard)]
  BY <1>2, <1>3, <1>5
<1>7. u[n + 1] = next /\ \A m \in low..n : u[m] = v[m]
  BY <1>2, <1>3
<1> HIDE DEF u
<1>8. u[low] = base
  BY <1>2, <1>3, <1>7
<1>9. ASSUME NEW m \in low + 1..n + 1 PROVE u[m] = Shows(u[m - 1], s[m])
  <2>1. CASE m = n + 1
    <3>1. m - 1 = n /\ n \in low..n
      BY <1>2, <1>3, <2>1
    <3>2. u[m - 1] = w
      BY <1>2, <1>7, <3>1
    <3>3. QED
      BY <1>7, <2>1, <3>2
  <2>2. CASE m # n + 1
    <3>1. m \in low + 1..n /\ m - 1 \in low..n /\ m \in low..n
      BY <1>2, <1>3, <2>2
    <3>2. u[m] = v[m] /\ u[m - 1] = v[m - 1]
      BY <1>7, <3>1
    <3>3. v[m] = Shows(v[m - 1], s[m])
      BY <1>2, <3>1
    <3>4. QED
      BY <3>2, <3>3
  <2>3. QED
    BY <2>1, <2>2
<1>10. Runs(u, base, low, s, n + 1, next)
  BY <1>2, <1>3, <1>6, <1>7, <1>8, <1>9 DEF Runs
<1>11. QED
  BY <1>10 DEF Ends

\* Only the first n frames matter.
LEMMA EndsSame ==
  ASSUME NEW s \in Seq(Frames), NEW t \in Seq(Frames), NEW base, NEW low, NEW n, NEW w,
         Ends(base, low, s, n, w), n <= Len(t), \A i \in 1..n : t[i] = s[i]
  PROVE  Ends(base, low, t, n, w)
<1>1. PICK v : Runs(v, base, low, s, n, w)
  BY DEF Ends
<1>2. /\ low \in Nat /\ n \in low..Len(s) /\ v \in [low..n -> Seq(PageCard)] /\ v[low] = base /\ v[n] = w
      /\ \A m \in low + 1..n : v[m] = Shows(v[m - 1], s[m])
  BY <1>1 DEF Runs
<1>3. n \in low..Len(t)
  BY <1>2
<1>4. ASSUME NEW m \in low + 1..n PROVE v[m] = Shows(v[m - 1], t[m])
  <2>1. m \in 1..n
    BY <1>2
  <2>2. QED
    BY <1>2, <2>1
<1>5. Runs(v, base, low, t, n, w)
  BY <1>2, <1>3, <1>4 DEF Runs
<1>6. QED
  BY <1>5 DEF Ends

\* A run can be cut in two.
LEMMA EndsCut ==
  ASSUME NEW s \in Seq(Frames), NEW base, NEW low, NEW n, NEW w, Ends(base, low, s, n, w), NEW k \in low..n
  PROVE  \E u : Ends(base, low, s, k, u) /\ Ends(u, k, s, n, w)
<1>1. PICK v : Runs(v, base, low, s, n, w)
  BY DEF Ends
<1>2. /\ low \in Nat /\ n \in low..Len(s) /\ v \in [low..n -> Seq(PageCard)] /\ v[low] = base /\ v[n] = w
      /\ \A m \in low + 1..n : v[m] = Shows(v[m - 1], s[m])
  BY <1>1 DEF Runs
<1> DEFINE a == [m \in low..k |-> v[m]]
           b == [m \in k..n |-> v[m]]
<1>3. /\ Len(s) \in Nat /\ n \in Nat /\ k \in Nat /\ low <= k /\ k <= n
      /\ k \in low..Len(s) /\ n \in k..Len(s)
  BY <1>2
<1>4. a \in [low..k -> Seq(PageCard)] /\ \A m \in low..k : a[m] = v[m]
  BY <1>2, <1>3
<1>5. b \in [k..n -> Seq(PageCard)] /\ \A m \in k..n : b[m] = v[m]
  BY <1>2, <1>3
<1> HIDE DEF a, b
<1>6. Runs(a, base, low, s, k, v[k])
  <2>1. a[low] = base /\ a[k] = v[k]
    BY <1>2, <1>3, <1>4
  <2>2. ASSUME NEW m \in low + 1..k PROVE a[m] = Shows(a[m - 1], s[m])
    <3>1. m \in low + 1..n /\ m \in low..k /\ m - 1 \in low..k
      BY <1>2, <1>3
    <3>2. QED
      BY <1>2, <1>4, <3>1
  <2>3. QED
    BY <1>2, <1>3, <1>4, <2>1, <2>2 DEF Runs
<1>7. Runs(b, v[k], k, s, n, w)
  <2>1. b[k] = v[k] /\ b[n] = w
    BY <1>2, <1>3, <1>5
  <2>2. ASSUME NEW m \in k + 1..n PROVE b[m] = Shows(b[m - 1], s[m])
    <3>1. m \in low + 1..n /\ m \in k..n /\ m - 1 \in k..n
      BY <1>2, <1>3
    <3>2. QED
      BY <1>2, <1>5, <3>1
  <2>3. QED
    BY <1>2, <1>3, <1>5, <2>1, <2>2 DEF Runs
<1>8. QED
  BY <1>6, <1>7 DEF Ends

\* Frames that are not for the page do not change it.
LEMMA EndsIdle ==
  ASSUME NEW s \in Seq(Frames), NEW base, NEW low, NEW n, NEW w, Ends(base, low, s, n, w),
         \A i \in low + 1..n : ~ForCaptions(s[i])
  PROVE  w = base
<1>1. PICK v : Runs(v, base, low, s, n, w)
  BY DEF Ends
<1>2. /\ low \in Nat /\ n \in low..Len(s) /\ v \in [low..n -> Seq(PageCard)] /\ v[low] = base /\ v[n] = w
      /\ \A m \in low + 1..n : v[m] = Shows(v[m - 1], s[m])
  BY <1>1 DEF Runs
<1> DEFINE S == {m \in low..n : v[m] = base}
<1>3. n \in Nat /\ low <= n /\ low \in S
  BY <1>2
<1>4. \A m \in low + 1..n : m - 1 \in S => m \in S
  <2>1. SUFFICES ASSUME NEW m \in low + 1..n, m - 1 \in S PROVE v[m] = base
    BY <1>2, <1>3
  <2>2. v[m - 1] = base
    BY <2>1
  <2>3. QED
    BY <1>2, <2>2 DEF Shows
<1>5. n \in S
  <2> HIDE DEF S
  <2>1. \A m \in low..n : m \in S
    BY <1>2, <1>3, <1>4, Climbs
  <2>2. QED
    BY <1>3, <2>1
<1>6. QED
  BY <1>2, <1>5

\* The first frame for the page after low is what it shows next.
LEMMA EndsFirst ==
  ASSUME NEW s \in Seq(Frames), InOrder(s), NEW base, NEW low, NEW n, NEW w, Ends(base, low, s, n, w),
         NEW k \in low + 1..n, ForCaptions(s[k]), \A i \in 1..k - 1 : ~Keeps(low, s[i])
  PROVE  Ends(WithCard(base, s[k]), k, s, n, w)
<1>1. low \in Nat /\ n \in low..Len(s) /\ Len(s) \in Nat
  BY EndsIs
<1>2. k \in low..n /\ k - 1 \in low..k /\ k \in Nat
  BY <1>1
<1>3. PICK u : Ends(base, low, s, k, u) /\ Ends(u, k, s, n, w)
  BY <1>2, EndsCut
<1>4. PICK t : Ends(base, low, s, k - 1, t) /\ Ends(t, k - 1, s, k, u)
  BY <1>2, <1>3, EndsCut
<1>5. t = base
  <2>1. ASSUME NEW i \in low + 1..k - 1 PROVE ~ForCaptions(s[i])
    <3>1. i \in 1..k - 1 /\ i \in 1..Len(s) /\ i > low
      BY <1>1, <1>2
    <3>2. s[i].seq > low
      BY <3>1 DEF InOrder
    <3>3. QED
      BY <3>1, <3>2 DEF Keeps
  <2>2. QED
    BY <1>4, <2>1, EndsIdle
<1>6. u = Shows(t, s[k])
  <2>1. PICK v : Runs(v, t, k - 1, s, k, u)
    BY <1>4 DEF Ends
  <2>2. v[k - 1] = t /\ v[k] = u /\ \A m \in k - 1 + 1..k : v[m] = Shows(v[m - 1], s[m])
    BY <2>1 DEF Runs
  <2>3. k \in k - 1 + 1..k
    BY <1>2
  <2>4. QED
    BY <2>2, <2>3
<1>7. u = WithCard(base, s[k])
  BY <1>5, <1>6 DEF Shows
<1>8. QED
  BY <1>3, <1>7

-----------------------------------------------------------------------------
(* What the page will show when it has seen everything *)

Fits(base, low) == \E w : Ends(base, low, wire, Len(wire), w) /\ Good(w)

PageInv ==
  /\ WireInv /\ cards \in Seq(PageCard)
  /\ resume # None => Fits(cards, resume)
  /\ StartsAfresh => Fits(Newest(MaxCards, link[1].cards), link[1].seq)
  /\ lastSeq = IF resume = None THEN 0 ELSE resume
  /\ Len(settled) <= Backlog + 1

\* A page is as good as the engine it is compared with.
LEMMA GoodStays ==
  ASSUME UNCHANGED engineVars, NEW w, Good(w)
  PROVE  Good(w)'
<1>1. live' = live /\ settled' = settled /\ opened' = opened
  BY DEF engineVars
<1>2. QED
  BY <1>1 DEF Good, EngineHas, SettledCards, Ids

\* And so is one that is behind.
LEMMA FitsStays ==
  ASSUME UNCHANGED relayVars, NEW base, NEW low, Fits(base, low)
  PROVE  \E w : Ends(base, low, wire', Len(wire'), w) /\ Good(w)'
<1>1. wire' = wire /\ UNCHANGED engineVars
  BY DEF relayVars
<1>2. PICK w : Ends(base, low, wire, Len(wire), w) /\ Good(w)
  BY DEF Fits
<1>3. Good(w)'
  BY <1>1, <1>2, GoodStays
<1>4. QED
  BY <1>1, <1>2, <1>3

\* A snapshot holds every card of the engine, and nothing else.
LEMMA SnapshotShows ==
  ASSUME EngineInv, Len(settled) <= Backlog + 1
  PROVE  Newest(MaxCards, EngineCards) = EngineCards /\ Good(EngineCards) /\ EngineCards \in Seq(PageCard)
<1> PICK w : w = EngineCards
  OBVIOUS
<1>1. /\ w \in Seq(PageCard) /\ Len(w) = Len(settled) + (IF live = NoCard THEN 0 ELSE 1)
      /\ \A i \in 1..Len(settled) : w[i] = settled[i]
      /\ live # NoCard => w[Len(settled) + 1] = live
  BY EngineCardsAre DEF LiveCards
<1>2. /\ Len(settled) \in Nat /\ opened \in Nat /\ Backlog \in Nat
      /\ MaxCards \in Nat /\ MaxCards >= Backlog + 2
  BY CaptionStoreAssumption, EngineAssumption DEF EngineInv, EngineTypeOK
<1>3. Newest(MaxCards, w) = w
  <2>1. Len(w) <= MaxCards
    BY <1>1, <1>2
  <2>2. QED
    BY <2>1 DEF Newest
<1>4. /\ live = NoCard \/ (live.id = opened /\ opened # 0)
      /\ \A i \in 1..Len(settled) : settled[i].id \in 1..opened /\ (settled[i].id = live.id => live = NoCard)
      /\ \A i, j \in 1..Len(settled) : settled[i].id = settled[j].id => i = j
  BY DEF EngineInv, CardsInv
<1>5. ASSUME NEW i \in 1..Len(w)
      PROVE  \/ i \in 1..Len(settled) /\ w[i] = settled[i]
             \/ i = Len(settled) + 1 /\ w[i] = live /\ live # NoCard
  BY <1>1, <1>2
<1>6. Apart(w, opened)
  <2>1. ASSUME NEW i \in 1..Len(w) PROVE w[i].id \in 1..opened
    BY <1>2, <1>4, <1>5
  <2>2. ASSUME NEW i \in 1..Len(w), NEW j \in 1..Len(w), w[i].id = w[j].id PROVE i = j
    BY <1>2, <1>4, <1>5, <2>2
  <2>3. QED
    BY <2>1, <2>2 DEF Apart
<1>7. Agrees(w, EngineHas)
  <2>1. SUFFICES ASSUME NEW i \in 1..Len(w), NEW c \in EngineHas, w[i].id = c.id PROVE w[i] = c
    BY DEF Agrees, Same
  <2>2. CASE c \in SettledCards
    <3> PICK j \in 1..Len(settled) : c = settled[j]
      BY <2>2 DEF SettledCards
    <3>1. CASE i \in 1..Len(settled) /\ w[i] = settled[i]
      BY <1>4, <2>1, <3>1
    <3>2. CASE i = Len(settled) + 1 /\ w[i] = live /\ live # NoCard
      BY <1>4, <2>1, <3>2
    <3>3. QED
      BY <1>5, <3>1, <3>2
  <2>3. CASE c = live /\ live # NoCard
    BY <1>4, <1>5, <2>1, <2>3
  <2>4. QED
    BY <2>2, <2>3 DEF EngineHas
<1>8. live # NoCard => OnAir(w, live.id, Ids)
  <2>1. SUFFICES ASSUME live # NoCard PROVE OnAir(w, live.id, Ids)
    OBVIOUS
  <2>2. Len(settled) + 1 \in 1..Len(w) /\ w[Len(settled) + 1].id = live.id /\ Len(settled) + 1 + 1..Len(w) = {}
    BY <1>1, <1>2, <2>1
  <2>3. QED
    BY <2>2 DEF OnAir
<1>9. Good(w)
  BY <1>1, <1>6, <1>7, <1>8 DEF Good
<1>10. QED
  BY <1>1, <1>3, <1>9

\* What a page that has seen everything shows after one or two frames.
Read(w, frames) == IF Len(frames) = 1 THEN Shows(w, frames[1]) ELSE Shows(Shows(w, frames[1]), frames[2])

\* A page that is behind, when the relay has said one or two frames more.
LEMMA FitsGrow ==
  ASSUME WireInv, NEW frames, Says(frames), Len(frames) \in {1, 2}, NEW base, NEW low, Fits(base, low),
         \A w : Good(w) => Good(Read(w, frames))'
  PROVE  \E w : Ends(base, low, wire', Len(wire'), w) /\ Good(w)'
<1>1. PICK w : Ends(base, low, wire, Len(wire), w) /\ Good(w)
  BY DEF Fits
<1>2. PICK n \in Nat, s \in Seq(Frames) : n = Len(wire) /\ s = wire
  BY DEF WireInv
<1>3. /\ wire' \in Seq(Frames) /\ Len(wire') = n + Len(frames)
      /\ \A i \in 1..n : wire'[i] = s[i]
      /\ \A i \in 1..Len(frames) : wire'[n + i] = Numbered(frames[i], n + i)
  <2>1. frames \in Seq(Plain) /\ Emit(frames) /\ EngineInv'
    BY DEF Says
  <2>2. WireInv'
    BY <2>1, EmitKeeps
  <2>3. QED
    BY <1>2, <2>1, <2>2, EmitKeeps DEF WireInv
<1> PICK t \in Seq(Frames) : t = wire'
  BY <1>3
<1>4. Ends(base, low, t, n, w)
  BY <1>1, <1>2, <1>3, EndsSame
<1>5. ASSUME NEW i \in 1..Len(frames), NEW store PROVE Shows(store, t[n + i]) = Shows(store, frames[i])
  <2> PICK g : g = Numbered(frames[i], n + i)
    OBVIOUS
  <2>1. g.kind = frames[i].kind /\ g.card = frames[i].card /\ g.text = frames[i].text /\ g.tr = frames[i].tr
    BY DEF Numbered
  <2>2. Shows(store, g) = Shows(store, frames[i])
    BY <2>1, SameNews
  <2>3. QED
    BY <1>3, <2>2
<1>6. 1 \in 1..Len(frames) /\ n < Len(t)
  BY <1>3
<1> PICK z : z = Shows(w, frames[1])
  OBVIOUS
<1>7. Ends(base, low, t, n + 1, z)
  BY <1>4, <1>5, <1>6, EndsNext
<1>8. CASE Len(frames) = 1
  <2>1. n + 1 = Len(t) /\ Good(z)'
    BY <1>1, <1>3, <1>8 DEF Read
  <2>2. QED
    BY <1>7, <2>1
<1>9. CASE Len(frames) = 2
  <2>1. n + 1 < Len(t) /\ n + 1 + 1 = Len(t) /\ 2 \in 1..Len(frames) /\ n + 1 + 1 = n + 2
    BY <1>3, <1>9
  <2> PICK y : y = Shows(z, frames[2])
    OBVIOUS
  <2>2. Ends(base, low, t, n + 1 + 1, Shows(z, t[n + 1 + 1]))
    BY <1>7, <2>1, EndsNext
  <2>3. Shows(z, t[n + 1 + 1]) = y
    BY <1>5, <2>1
  <2>4. Good(y)'
    BY <1>1, <1>9 DEF Read
  <2>5. QED
    BY <2>1, <2>2, <2>3, <2>4
<1>10. QED
  BY <1>8, <1>9

\* What the relay says keeps the invariant of the page.
LEMMA SayingShows ==
  ASSUME PageInv, NEW frames, Says(frames), Len(frames) \in {1, 2}, Len(settled') <= Backlog + 1,
         \A w : Good(w) => Good(Read(w, frames))'
  PROVE  PageInv'
<1>1. frames \in Seq(Plain) /\ Emit(frames) /\ EngineInv' /\ WireInv
  BY DEF Says, PageInv
<1>2. /\ WireInv' /\ resume' = resume /\ cards' = cards /\ lastSeq' = lastSeq
      /\ (StartsAfresh' <=> StartsAfresh) /\ (StartsAfresh => link'[1] = link[1])
  BY <1>1, EmitKeeps
<1>3. (resume # None => Fits(cards, resume))'
  <2>1. SUFFICES ASSUME resume # None PROVE Fits(cards, resume)'
    BY <1>2
  <2> PICK base, low : base = cards /\ low = resume
    OBVIOUS
  <2>2. Fits(base, low)
    BY <2>1 DEF PageInv
  <2>3. \E w : Ends(base, low, wire', Len(wire'), w) /\ Good(w)'
    BY <1>1, <2>2, FitsGrow
  <2>4. QED
    BY <1>2, <2>3 DEF Fits
<1>4. (StartsAfresh => Fits(Newest(MaxCards, link[1].cards), link[1].seq))'
  <2>1. SUFFICES ASSUME StartsAfresh PROVE Fits(Newest(MaxCards, link[1].cards), link[1].seq)'
    BY <1>2
  <2> PICK base, low : base = Newest(MaxCards, link[1].cards) /\ low = link[1].seq
    OBVIOUS
  <2>2. Fits(base, low)
    BY <2>1 DEF PageInv
  <2>3. \E w : Ends(base, low, wire', Len(wire'), w) /\ Good(w)'
    BY <1>1, <2>2, FitsGrow
  <2>4. base = Newest(MaxCards, link'[1].cards) /\ low = link'[1].seq
    BY <1>2, <2>1
  <2>5. QED
    BY <2>3, <2>4 DEF Fits
<1>5. QED
  BY <1>2, <1>3, <1>4 DEF PageInv

-----------------------------------------------------------------------------
(* The relay speaks *)

\* A frame about a card changes the page.
LEMMA PlainShows ==
  ASSUME NEW w, NEW f, f.kind # "tts"
  PROVE  Shows(w, f) = WithCard(w, f)
  BY DEF Shows, ForCaptions

\* Reading one such frame.
LEMMA ReadOne ==
  ASSUME NEW w, NEW f, f.kind # "tts"
  PROVE  Len(<<f>>) = 1 /\ Read(w, <<f>>) = WithCard(w, f)
<1>1. Len(<<f>>) = 1 /\ <<f>>[1] = f
  OBVIOUS
<1>2. QED
  BY <1>1, PlainShows DEF Read

\* onSttEvent(), a partial transcript.
LEMMA HearsShows ==
  ASSUME PageInv, NEW text \in Texts, Hears(text)
  PROVE  PageInv'
<1>1. WireInv /\ EngineInv /\ Partial(text) /\ Len(settled) <= Backlog + 1
  BY DEF PageInv, WireInv, Hears
<1> PICK f : f = Frame("partial", Current.id, text, NoTr)
  OBVIOUS
<1>2. f.kind # "tts"
  BY FrameFields
<1>3. Says(<<f>>)
  <2>1. Says(WhenHeard(text))
    BY <1>1, HearsSays
  <2>2. QED
    BY <2>1 DEF WhenHeard
<1>4. settled' = settled
  BY <1>1, PartialKeeps
<1>5. ASSUME NEW w, Good(w) PROVE Good(Read(w, <<f>>))'
  <2>1. Good(WithCard(w, f))'
    BY <1>1, <1>5, HearingShows
  <2>2. Read(w, <<f>>) = WithCard(w, f)
    BY <1>2, ReadOne
  <2>3. QED
    BY <2>1, <2>2
<1>6. Len(<<f>>) \in {1, 2}
  BY <1>2, ReadOne
<1> PICK frames : frames = <<f>>
  OBVIOUS
<1>7. \A w : Good(w) => Good(Read(w, frames))'
  BY <1>5
<1>8. QED
  BY <1>1, <1>3, <1>4, <1>6, <1>7, SayingShows

\* onSttEvent(), silence.
LEMMA GoesQuietShows ==
  ASSUME PageInv, GoesQuiet
  PROVE  PageInv'
<1>1. WireInv /\ EngineInv /\ CloseLive /\ Len(settled) <= Backlog + 1
  BY DEF PageInv, WireInv, GoesQuiet
<1> PICK f : f = Frame("cardEnd", live.id, NoText, NoTr)
  OBVIOUS
<1>2. f.kind # "tts"
  BY FrameFields
<1>3. Says(<<f>>)
  <2>1. Says(WhenQuiet)
    BY <1>1, GoesQuietSays
  <2>2. QED
    BY <2>1 DEF WhenQuiet
<1>4. settled' = settled
  BY <1>1, ClosingKeeps
<1>5. ASSUME NEW w, Good(w) PROVE Good(Read(w, <<f>>))'
  <2>1. Good(WithCard(w, f))'
    BY <1>1, <1>5, QuietShows
  <2>2. Read(w, <<f>>) = WithCard(w, f)
    BY <1>2, ReadOne
  <2>3. QED
    BY <2>1, <2>2
<1>6. Len(<<f>>) \in {1, 2}
  BY <1>2, ReadOne
<1> PICK frames : frames = <<f>>
  OBVIOUS
<1>7. \A w : Good(w) => Good(Read(w, frames))'
  BY <1>5
<1>8. QED
  BY <1>1, <1>3, <1>4, <1>6, <1>7, SayingShows

\* The frame of a committed card carries its text and no translations.
LEMMA FirstSettled ==
  ASSUME NEW text
  PROVE  WhenSettled(text)[1].text = text /\ WhenSettled(text)[1].tr = NoTr
<1> PICK kind : kind = IF Current.text \in {NoText, text} THEN "commit" ELSE "retract"
  OBVIOUS
<1> PICK f : f = Frame(kind, Current.id, text, NoTr)
  OBVIOUS
<1>1. f.text = text /\ f.tr = NoTr
  BY FrameFields
<1>2. CASE Backlogged
  <2> PICK g : g = Frame("cardEnd", Head(settled).id, NoText, NoTr)
    OBVIOUS
  <2>1. WhenSettled(text) = <<f>> \o <<g>>
    BY <1>2 DEF WhenSettled
  <2>2. (<<f>> \o <<g>>)[1] = f
    OBVIOUS
  <2>3. QED
    BY <1>1, <2>1, <2>2
<1>3. CASE ~Backlogged
  <2>1. WhenSettled(text) = <<f>> \o <<>>
    BY <1>3 DEF WhenSettled
  <2>2. (<<f>> \o <<>>)[1] = f
    OBVIOUS
  <2>3. QED
    BY <1>1, <2>1, <2>2
<1>4. QED
  BY <1>2, <1>3

\* onSttEvent(), a committed transcript.
LEMMA SettlesShows ==
  ASSUME PageInv, NEW text \in Texts, Settles(text)
  PROVE  PageInv'
<1>1. WireInv /\ EngineInv /\ Commit(text) /\ Len(settled) <= Backlog + 1
  BY DEF PageInv, WireInv, Settles
<1> PICK frames : frames = WhenSettled(text)
  OBVIOUS
<1>2. Says(frames)
  BY <1>1, SettlesSays
<1>3. /\ Len(frames) \in {1, 2} /\ frames[1] \in Messages /\ frames[1].card = Current.id
      /\ frames[1].kind \in {"commit", "retract"}
      /\ ~Backlogged => Len(frames) = 1
      /\ Backlogged => /\ Len(frames) = 2 /\ frames[2] \in Messages
                       /\ frames[2].card = settled[1].id /\ frames[2].kind = "cardEnd"
  BY <1>1, WhenSettledIs
<1>4. frames[1].text = text /\ frames[1].tr = NoTr
  BY FirstSettled
<1>5. Len(settled') <= Backlog + 1
  BY <1>1, CommitDrops
<1> PICK f, g : f = frames[1] /\ g = frames[2]
  OBVIOUS
<1>6. ASSUME NEW w, Good(w) PROVE Good(Read(w, frames))'
  <2>1. /\ ~Backlogged => Good(WithCard(w, f))'
        /\ Backlogged => Good(WithCard(WithCard(w, f), g))'
    BY <1>1, <1>3, <1>4, <1>6, SettlingShows
  <2>2. Shows(w, f) = WithCard(w, f)
    BY <1>3, PlainShows
  <2>3. Backlogged => Shows(WithCard(w, f), g) = WithCard(WithCard(w, f), g)
    BY <1>3, PlainShows
  <2>4. CASE Backlogged
    <3>1. Read(w, frames) = WithCard(WithCard(w, f), g)
      BY <1>3, <2>2, <2>3, <2>4 DEF Read
    <3>2. QED
      BY <2>1, <2>4, <3>1
  <2>5. CASE ~Backlogged
    <3>1. Read(w, frames) = WithCard(w, f)
      BY <1>3, <2>2, <2>5 DEF Read
    <3>2. QED
      BY <2>1, <2>5, <3>1
  <2>6. QED
    BY <2>4, <2>5
<1>7. QED
  BY <1>2, <1>3, <1>5, <1>6, SayingShows

\* A result of the translator.
LEMMA TranslatesShows ==
  ASSUME PageInv, Translates
  PROVE  PageInv'
<1>1. WireInv /\ EngineInv /\ Len(settled) <= Backlog + 1
  BY DEF PageInv, WireInv
<1>2. PICK id \in Nat \ {0}, lang \in Langs, text \in Texts, final \in BOOLEAN :
        Restates(id, lang, text, final)
  BY <1>1, TranslatesAre
<1>3. PICK c \in Card : c \in {live'} \cup SettledCards' /\ c.id = id /\ Says(<<RestatedFrame(c)>>)
  BY <1>1, <1>2, RestatesSays
<1> PICK f : f = RestatedFrame(c)
  OBVIOUS
<1>4. EngineInv' /\ ApplyTranslation(id, lang, text, final) /\ f.kind # "tts"
  BY <1>2, <1>3, FrameFields DEF Says, Restates, RestatedFrame
<1>5. Len(settled') = Len(settled)
  BY <1>1, <1>4, ApplyIs
<1>6. ASSUME NEW w, Good(w) PROVE Good(Read(w, <<f>>))'
  <2>1. Good(WithCard(w, f))'
    BY <1>1, <1>3, <1>4, <1>6, RestatingShows
  <2>2. Read(w, <<f>>) = WithCard(w, f)
    BY <1>4, ReadOne
  <2>3. QED
    BY <2>1, <2>2
<1>7. Len(<<f>>) \in {1, 2}
  BY <1>4, ReadOne
<1> PICK frames : frames = <<f>>
  OBVIOUS
<1>8. \A w : Good(w) => Good(Read(w, frames))'
  BY <1>6
<1>9. QED
  BY <1>1, <1>3, <1>5, <1>7, <1>8, SayingShows

\* Voice audio.
LEMMA SpeaksShows ==
  ASSUME PageInv, Speaks
  PROVE  PageInv'
<1> PICK f : f = Frame("tts", 0, NoText, NoTr)
  OBVIOUS
<1> PICK frames : frames = <<f>>
  OBVIOUS
<1>1. Says(frames) /\ UNCHANGED engineVars /\ Len(settled') <= Backlog + 1
  BY SpeaksSays DEF PageInv, Speaks, engineVars
<1>2. f.kind = "tts" /\ Len(frames) = 1 /\ frames[1] = f
  BY FrameFields
<1>3. ASSUME NEW w, Good(w) PROVE Good(Read(w, frames))'
  <2>1. Read(w, frames) = w
    BY <1>2 DEF Read, Shows, ForCaptions
  <2>2. Good(w)'
    BY <1>1, <1>3, GoodStays
  <2>3. QED
    BY <2>1, <2>2
<1>4. QED
  BY <1>1, <1>2, <1>3, SayingShows

-----------------------------------------------------------------------------
(* The page listens *)

\* attachProjector().
LEMMA AttachShows ==
  ASSUME PageInv, Attach
  PROVE  PageInv'
<1>1. UNCHANGED relayVars /\ cards' = cards /\ resume' = resume /\ lastSeq' = lastSeq /\ WireInv
  BY DEF Attach, pageVars, PageInv
<1>2. /\ WireInv'
      /\ \/ ~StartsAfresh' /\ resume # None
         \/ StartsAfresh' /\ link'[1] = Snapshot
  BY <1>1, AttachKeeps
<1>3. settled' = settled /\ wire' = wire
  BY <1>1 DEF relayVars, engineVars
<1>4. (resume # None => Fits(cards, resume))'
  <2>1. SUFFICES ASSUME resume # None PROVE Fits(cards, resume)'
    BY <1>1
  <2> PICK base, low : base = cards /\ low = resume
    OBVIOUS
  <2>2. Fits(base, low)
    BY <2>1 DEF PageInv
  <2>3. \E w : Ends(base, low, wire', Len(wire'), w) /\ Good(w)'
    BY <1>1, <2>2, FitsStays
  <2>4. QED
    BY <1>1, <2>3 DEF Fits
<1>5. (StartsAfresh => Fits(Newest(MaxCards, link[1].cards), link[1].seq))'
  <2>1. SUFFICES ASSUME StartsAfresh' PROVE Fits(Newest(MaxCards, link[1].cards), link[1].seq)'
    OBVIOUS
  <2>2. link'[1].cards = EngineCards /\ link'[1].seq = Len(wire)
    BY <1>1, <1>2, <2>1, SnapshotIs
  <2> PICK w, n, s : w = EngineCards /\ n = Len(wire) /\ s = wire
    OBVIOUS
  <2>3. Newest(MaxCards, w) = w /\ Good(w) /\ w \in Seq(PageCard)
    BY SnapshotShows DEF PageInv, WireInv
  <2>4. Good(w)'
    BY <1>1, <2>3, GoodStays DEF relayVars
  <2>5. Ends(w, n, s, n, w)
    <3>1. s \in Seq(Frames) /\ n \in 0..Len(s)
      BY DEF PageInv, WireInv
    <3>2. QED
      BY <2>3, <3>1, EndsHere
  <2>6. Newest(MaxCards, link'[1].cards) = w /\ link'[1].seq = n /\ wire' = s /\ Len(wire') = n
    BY <1>3, <2>2, <2>3
  <2>7. QED
    BY <2>4, <2>5, <2>6 DEF Fits
<1>6. QED
  BY <1>1, <1>2, <1>3, <1>4, <1>5 DEF PageInv

\* ws.onmessage.
LEMMA DeliverShows ==
  ASSUME PageInv, Deliver
  PROVE  PageInv'
<1>1. /\ UNCHANGED relayVars /\ WireInv
      /\ IF Head(link).kind = "snapshot"
         THEN cards' = Newest(MaxCards, Head(link).cards) /\ lastSeq' = Head(link).seq
         ELSE IF Head(link).seq <= lastSeq THEN cards' = cards /\ lastSeq' = lastSeq
         ELSE lastSeq' = Head(link).seq /\ cards' = WithCard(cards, Head(link))
  BY DEF Deliver, PageInv
<1>2. /\ WireInv' /\ ~StartsAfresh' /\ wire' = wire /\ resume' = Head(link).seq
      /\ \/ StartsAfresh /\ resume' = link[1].seq
         \/ /\ ~StartsAfresh /\ resume \in 0..Len(wire) /\ FirstKept(resume, wire, resume')
            /\ Head(link) = wire[resume']
  BY <1>1, DeliverKeeps
<1>3. settled' = settled /\ Len(settled) <= Backlog + 1
  BY <1>1 DEF relayVars, engineVars, PageInv
<1>4. wire \in Seq(Frames) /\ InOrder(wire) /\ Len(wire) \in Nat
  BY <1>1 DEF WireInv
<1>5. CASE StartsAfresh
  <2>1. /\ link # <<>> /\ link[1].kind = "snapshot" /\ Head(link) = link[1]
        /\ link[1] \in Snapshots
    BY <1>1, <1>5 DEF StartsAfresh, WireInv
  <2>2. cards' = Newest(MaxCards, link[1].cards) /\ lastSeq' = link[1].seq /\ resume' = link[1].seq
    BY <1>1, <1>2, <2>1
  <2>3. link[1].cards \in Seq(PageCard) /\ link[1].seq \in Nat
    BY <2>1 DEF Snapshots
  <2>4. cards' \in Seq(PageCard) /\ resume' # None
    <3>1. Newest(MaxCards, link[1].cards) \in Seq(PageCard)
      BY <2>3, NewestIs, CaptionStoreAssumption
    <3>2. QED
      BY <2>2, <2>3, <3>1 DEF None
  <2>5. Fits(cards, resume)'
    <3> PICK base, low : base = Newest(MaxCards, link[1].cards) /\ low = link[1].seq
      OBVIOUS
    <3>1. Fits(base, low)
      BY <1>5 DEF PageInv
    <3>2. \E w : Ends(base, low, wire', Len(wire'), w) /\ Good(w)'
      BY <1>1, <3>1, FitsStays
    <3>3. QED
      BY <2>2, <3>2 DEF Fits
  <2>6. QED
    BY <1>2, <1>3, <2>2, <2>4, <2>5 DEF PageInv
<1>6. CASE ~StartsAfresh
  <2> PICK k, from : k = resume' /\ from = resume
    OBVIOUS
  <2>1. /\ from \in 0..Len(wire) /\ k \in 1..Len(wire) /\ Keeps(from, wire[k])
        /\ \A i \in 1..k - 1 : ~Keeps(from, wire[i])
    BY <1>2, <1>6 DEF FirstKept
  <2>2. wire[k].seq = k /\ wire[k] \in Frames
    BY <1>4, <2>1 DEF InOrder
  <2>3. k > from /\ ForCaptions(wire[k]) /\ from # None /\ k # None
    BY <2>1, <2>2 DEF Keeps, None
  <2>4. lastSeq = from
    BY <2>3 DEF PageInv
  <2>5. Head(link) = wire[k] /\ wire[k].kind # "snapshot"
    BY <1>2, <1>6, <2>2 DEF Frames
  <2>6. cards' = WithCard(cards, wire[k]) /\ lastSeq' = k
    <3>1. ~(Head(link).seq <= lastSeq)
      BY <2>1, <2>2, <2>3, <2>4, <2>5
    <3>2. QED
      BY <1>1, <2>2, <2>5, <3>1
  <2> PICK base : base = cards
    OBVIOUS
  <2>7. PICK w : Ends(base, from, wire, Len(wire), w) /\ Good(w)
    BY <2>3 DEF PageInv, Fits
  <2>8. Ends(WithCard(base, wire[k]), k, wire, Len(wire), w)
    <3>1. k \in from + 1..Len(wire)
      BY <1>4, <2>1, <2>3
    <3>2. QED
      BY <1>4, <2>1, <2>3, <2>7, <3>1, EndsFirst
  <2>9. cards' \in Seq(PageCard)
    BY <2>6, <2>8, EndsIs
  <2>10. Good(w)'
    BY <1>1, <2>7, GoodStays DEF relayVars
  <2>11. Ends(cards', resume', wire', Len(wire'), w)
    BY <1>2, <2>6, <2>8
  <2>12. Fits(cards, resume)'
    BY <2>10, <2>11 DEF Fits
  <2>13. lastSeq' = resume' /\ resume' # None
    BY <2>3, <2>6
  <2>14. QED
    BY <1>2, <1>3, <2>9, <2>12, <2>13 DEF PageInv
<1>7. QED
  BY <1>5, <1>6

\* A page that loses its link, or is reloaded, has what it had, or nothing.
LEMMA AwayShows ==
  ASSUME PageInv, phase' \in {"down", "asking"}, link' = <<>>, UNCHANGED relayVars,
         \/ UNCHANGED pageVars
         \/ resume' = None /\ cards' = <<>> /\ lastSeq' = 0
  PROVE  PageInv'
<1>1. resume' \in {resume, None} /\ WireInv
  BY DEF pageVars, PageInv
<1>2. WireInv' /\ ~StartsAfresh'
  BY <1>1, AwayKeeps
<1>3. settled' = settled /\ Len(settled) <= Backlog + 1
  BY DEF relayVars, engineVars, PageInv
<1>4. CASE UNCHANGED pageVars
  <2>1. cards' = cards /\ resume' = resume /\ lastSeq' = lastSeq
    BY <1>4 DEF pageVars
  <2>2. (resume # None => Fits(cards, resume))'
    <3>1. SUFFICES ASSUME resume # None PROVE Fits(cards, resume)'
      BY <2>1
    <3> PICK base, low : base = cards /\ low = resume
      OBVIOUS
    <3>2. Fits(base, low)
      BY <3>1 DEF PageInv
    <3>3. \E w : Ends(base, low, wire', Len(wire'), w) /\ Good(w)'
      BY <3>2, FitsStays
    <3>4. QED
      BY <2>1, <3>3 DEF Fits
  <2>3. QED
    BY <1>2, <1>3, <2>1, <2>2 DEF PageInv
<1>5. CASE resume' = None /\ cards' = <<>> /\ lastSeq' = 0
  <2>1. cards' \in Seq(PageCard)
    BY <1>5
  <2>2. QED
    BY <1>2, <1>3, <1>5, <2>1 DEF PageInv
<1>6. QED
  BY <1>4, <1>5

\* The page starts empty.
LEMMA PageStarts ==
  ASSUME Init
  PROVE  PageInv
<1>1. WireInv
  BY WireStarts
<1>2. cards = <<>> /\ resume = None /\ lastSeq = 0 /\ link = <<>> /\ settled = <<>>
  BY DEF Init, EngineInit
<1>3. cards \in Seq(PageCard) /\ ~StartsAfresh /\ Len(settled) <= Backlog + 1
  BY <1>2, EngineAssumption DEF StartsAfresh
<1>4. QED
  BY <1>1, <1>2, <1>3 DEF PageInv

\* Every step keeps the invariant of the page.
LEMMA PageKeeps ==
  ASSUME PageInv, [Next]_vars
  PROVE  PageInv'
<1>1. CASE \E text \in Texts : Hears(text)
  BY <1>1, HearsShows
<1>2. CASE \E text \in Texts : Settles(text)
  BY <1>2, SettlesShows
<1>3. CASE GoesQuiet
  BY <1>3, GoesQuietShows
<1>4. CASE Translates
  BY <1>4, TranslatesShows
<1>5. CASE Speaks
  BY <1>5, SpeaksShows
<1>6. CASE Attach
  BY <1>6, AttachShows
<1>7. CASE Deliver
  BY <1>7, DeliverShows
<1>8. CASE Reconnect
  <2>1. phase = "down" /\ phase' = "asking" /\ link' = link /\ UNCHANGED relayVars /\ UNCHANGED pageVars
    BY <1>8 DEF Reconnect
  <2>2. link = <<>>
    BY <2>1 DEF PageInv, WireInv
  <2>3. QED
    BY <2>1, <2>2, AwayShows
<1>9. CASE LoseLink
  BY <1>9, AwayShows DEF LoseLink
<1>10. CASE Reload
  BY <1>10, AwayShows DEF Reload
<1>11. CASE UNCHANGED vars
  <2>1. /\ UNCHANGED relayVars /\ link' = link /\ phase' = phase /\ resume' = resume
        /\ cards' = cards /\ lastSeq' = lastSeq
    BY <1>11 DEF vars, pageVars
  <2>2. /\ wire' = wire /\ live' = live /\ settled' = settled /\ opened' = opened
    BY <2>1 DEF relayVars, engineVars
  <2>3. WireInv'
    BY <1>11, WireKeeps DEF PageInv
  <2>4. QED
    BY <2>1, <2>2, <2>3 DEF PageInv, StartsAfresh, Fits, Good, EngineHas, SettledCards, Ids
<1>12. QED
  BY <1>1, <1>2, <1>3, <1>4, <1>5, <1>6, <1>7, <1>8, <1>9, <1>10, <1>11 DEF Next, Emits

\* A page that is caught up has nothing left to be told.
LEMMA CaughtUpAgrees ==
  ASSUME PageInv
  PROVE  ScreenAgrees
<1>1. SUFFICES ASSUME CaughtUp, NEW i \in 1..Len(cards), NEW c \in SettledCards \cup {live}, cards[i].id = c.id
               PROVE  cards[i].text = c.text /\ cards[i].state = c.state /\ cards[i].tr = c.tr
  BY DEF ScreenAgrees
<1>2. wire \in Seq(Frames) /\ InOrder(wire) /\ Len(wire) \in Nat /\ NeverAGap /\ EngineInv
      /\ resume \in 0..Len(wire) \cup {None}
  BY DEF PageInv, WireInv
<1>3. phase = "attached" /\ link = <<>> /\ ~StartsAfresh
  BY <1>1 DEF CaughtUp, StartsAfresh
<1>4. resume # None /\ Unseen(resume, wire) = <<>> /\ resume \in 0..Len(wire)
  BY <1>2, <1>3 DEF NeverAGap
<1>5. \A m \in 1..Len(wire) : ~Keeps(resume, wire[m])
  <2>1. resume \in Int
    BY <1>4
  <2>2. ~(\E k : FirstKept(resume, wire, k))
    BY <1>4 DEF FirstKept
  <2>3. QED
    BY <1>2, <2>1, <2>2, UnseenFirstOrNone
<1>6. PICK w : Ends(cards, resume, wire, Len(wire), w) /\ Good(w)
  BY <1>4 DEF PageInv, Fits
<1>7. w = cards
  <2>1. ASSUME NEW m \in resume + 1..Len(wire) PROVE ~ForCaptions(wire[m])
    <3>1. m \in 1..Len(wire) /\ m > resume
      BY <1>2, <1>4
    <3>2. wire[m].seq > resume
      BY <1>2, <3>1 DEF InOrder
    <3>3. QED
      BY <1>5, <3>1, <3>2 DEF Keeps
  <2>2. QED
    BY <1>2, <1>6, <2>1, EndsIdle
<1>8. Apart(cards, opened) /\ Agrees(cards, EngineHas) /\ opened \in Nat
  BY <1>2, <1>6, <1>7 DEF Good, EngineInv, EngineTypeOK
<1>9. c # NoCard
  <2>1. cards[i].id # 0
    BY <1>8 DEF Apart
  <2>2. QED
    BY <1>1, <2>1, NoCardIs
<1>10. c \in EngineHas
  BY <1>9 DEF EngineHas
<1>11. QED
  BY <1>1, <1>8, <1>10 DEF Agrees, Same

\* A page that is caught up agrees with the engine about every card both have,
\* whatever it went through to get there (caption-store.ts, applyRelayMessage and
\* withCard; session-actor.ts, buildSnapshot and backfillFrom).
THEOREM ProjectorScreenAgrees == Spec => []ScreenAgrees
<1>1. Init => PageInv
  BY PageStarts
<1>2. PageInv /\ [Next]_vars => PageInv'
  BY PageKeeps
<1>3. PageInv => ScreenAgrees
  BY CaughtUpAgrees
<1>4. QED
  BY <1>1, <1>2, <1>3, PTL DEF Spec
=============================================================================
