---------------------------- MODULE LedgerProofs ----------------------------
(***************************************************************************)
(* Credits, for every account: what the tariff and the spending plan       *)
(* promise, that the books and the hold of an account balance whatever its *)
(* sessions do at once, and that webhooks, links and flushes keep the      *)
(* ledger and the row made from it together.                               *)
(***************************************************************************)
EXTENDS Account, Billing, Tariff, FiniteSetTheorems, TLAPS

-----------------------------------------------------------------------------
(* Rates and the spending plan                                             *)

\* Rates are whole numbers, and no configuration is free: the lowest rate of a minute is
\* that of captions alone (pricing.ts:13-20).
LEMMA RatesArePositive ==
  ASSUME NEW burn \in BurnConfigs(Nat)
  PROVE  /\ BurnRatePerMinute(burn) \in Nat /\ BurnRatePerMinute(burn) >= 10000
         /\ BurnRatePerSecond(burn) \in Nat /\ BurnRatePerSecond(burn) >= 167
<1> DEFINE n == burn.targetLanguages
<1>1. n \in Nat /\ burn.voiceEnabled \in BOOLEAN
  BY DEF BurnConfigs
<1>2. BurnRatePerMinute(burn) \in Nat /\ BurnRatePerMinute(burn) >= 10000
  <2>1. RateCaptions = 10000 /\ RateTranslation = 5000 /\ RateVoice = 30000
    BY DEF RateCaptions, RateTranslation, RateVoice, Credit
  <2>2. CASE burn.voiceEnabled
    BY <1>1, <2>1, <2>2 DEF BurnRatePerMinute
  <2>3. CASE ~burn.voiceEnabled
    BY <1>1, <2>1, <2>3 DEF BurnRatePerMinute
  <2>4. QED
    BY <2>2, <2>3
<1>3. QED
  BY <1>2 DEF BurnRatePerSecond, Second

\* What division leaves: the quotient times the divisor, and less than one divisor.
LEMMA Division ==
  ASSUME NEW a \in Nat, NEW d \in Nat, d > 0
  PROVE  /\ a \div d \in Nat
         /\ (a \div d) * d <= a
         /\ a < (a \div d + 1) * d
  OBVIOUS

\* "Floors - never over-promise airtime" (pricing.ts:27): at the rate the relay bills by,
\* the seconds a session is told it has cost no more than its credits, and one second more
\* would cost more.
THEOREM EstimateNeverOverPromises ==
  \A credits \in Nat, burn \in BurnConfigs(Nat) :
    LET seconds == EstimateSeconds(credits, burn)
    IN  /\ CreditsForSeconds(seconds, burn) <= credits
        /\ CreditsForSeconds(seconds + 1, burn) > credits
<1> SUFFICES ASSUME NEW credits \in Nat, NEW burn \in BurnConfigs(Nat)
             PROVE  LET seconds == EstimateSeconds(credits, burn)
                    IN  /\ CreditsForSeconds(seconds, burn) <= credits
                        /\ CreditsForSeconds(seconds + 1, burn) > credits
  OBVIOUS
<1> DEFINE rate == BurnRatePerSecond(burn)
<1>1. rate \in Nat /\ rate > 0
  BY RatesArePositive
<1> HIDE DEF rate
<1>2. /\ credits \div rate \in Nat
      /\ (credits \div rate) * rate <= credits
      /\ credits < (credits \div rate + 1) * rate
  BY <1>1, Division
<1>3. QED
  BY <1>2 DEF EstimateSeconds, CreditsForSeconds, rate

\* Credits bought for a number of seconds are told to last just as long: a balance does
\* not shrink by being counted in seconds and back (pricing.test.ts:47-51).
THEOREM SecondsComeBack ==
  \A seconds \in Nat, burn \in BurnConfigs(Nat) :
    EstimateSeconds(CreditsForSeconds(seconds, burn), burn) = seconds
<1> SUFFICES ASSUME NEW seconds \in Nat, NEW burn \in BurnConfigs(Nat)
             PROVE  EstimateSeconds(CreditsForSeconds(seconds, burn), burn) = seconds
  OBVIOUS
<1> DEFINE rate == BurnRatePerSecond(burn)
<1>1. rate \in Nat /\ rate > 0
  BY RatesArePositive
<1> HIDE DEF rate
<1>2. (seconds * rate) \div rate = seconds
  BY <1>1
<1>3. QED
  BY <1>2 DEF EstimateSeconds, CreditsForSeconds, rate

\* The rate is rounded once, by the second: a minute that is billed by the second differs
\* from the advertised price of a minute by no more than 30 parts in 10000 of a credit, for
\* every number of languages, with or without the voice (pricing.ts:23-25, 71-74).
THEOREM MinuteIsClose ==
  \A burn \in BurnConfigs(Nat) :
    LET charged    == CreditsForSeconds(60, burn)
        advertised == BurnRatePerMinute(burn)
    IN  charged <= advertised + 30 /\ advertised < charged + 30
<1> SUFFICES ASSUME NEW burn \in BurnConfigs(Nat)
             PROVE  /\ CreditsForSeconds(60, burn) <= BurnRatePerMinute(burn) + 30
                    /\ BurnRatePerMinute(burn) < CreditsForSeconds(60, burn) + 30
  OBVIOUS
<1> DEFINE perMinute == BurnRatePerMinute(burn)
<1>1. perMinute \in Nat
  BY RatesArePositive
<1> HIDE DEF perMinute
<1>2. /\ 60 * ((perMinute + 30) \div 60) <= perMinute + 30
      /\ perMinute < 60 * ((perMinute + 30) \div 60) + 30
  BY <1>1
<1>3. QED
  BY <1>2 DEF CreditsForSeconds, BurnRatePerSecond, Second, perMinute

\* One turn of the loop pays what the bucket and the rest allow.
LEMMA TakeBounds ==
  ASSUME NEW available \in Int, NEW remaining \in Nat
  PROVE  /\ Take(available, remaining) \in Nat
         /\ Take(available, remaining) = Smaller(Positive(available), remaining)
  BY DEF Take, Smaller, Positive

\* Whatever the buckets and the amount, the plan is honest: it never overdraws a
\* bucket, covers as much as there is, and spends the soonest to expire first
\* (ledger.ts:78-95).
THEOREM PlanSpendIsHonest ==
  ASSUME NEW balances \in [Buckets -> Int], NEW amount \in Nat
  PROVE  /\ PlanSpend(balances, amount) \in [Buckets -> Nat]
         /\ HonestPlan(PlanSpend(balances, amount), balances, amount)
<1> DEFINE trial        == Take(balances["trial"], amount)
           subscription == Take(balances["subscription"], amount - trial)
           topup        == Take(balances["topup"], amount - trial - subscription)
           a == Positive(balances["trial"])
           b == Positive(balances["subscription"])
           c == Positive(balances["topup"])
<1>1. /\ balances["trial"] \in Int /\ balances["subscription"] \in Int
      /\ balances["topup"] \in Int
  BY DEF Buckets
<1>2. a \in Nat /\ b \in Nat /\ c \in Nat
  BY <1>1 DEF Positive
<1>3. trial \in Nat /\ trial = Smaller(a, amount)
  BY <1>1, TakeBounds
<1>4. amount - trial \in Nat
  BY <1>2, <1>3 DEF Smaller
<1>5. subscription \in Nat /\ subscription = Smaller(b, amount - trial)
  BY <1>1, <1>4, TakeBounds
<1>6. amount - trial - subscription \in Nat
  BY <1>2, <1>3, <1>4, <1>5 DEF Smaller
<1>7. topup \in Nat /\ topup = Smaller(c, amount - trial - subscription)
  BY <1>1, <1>6, TakeBounds
<1> DEFINE plan == PlanSpend(balances, amount)
<1>8. /\ plan = [q \in Buckets |-> CASE q = "trial" -> trial
                                     [] q = "subscription" -> subscription
                                     [] q = "topup" -> topup]
  BY DEF PlanSpend
<1>9. /\ plan["trial"] = trial /\ plan["subscription"] = subscription
      /\ plan["topup"] = topup
  BY <1>8 DEF Buckets
<1>10. TotalAvailable(balances) = a + b + c
  BY DEF TotalAvailable, Total, Buckets
<1> HIDE DEF trial, subscription, topup, a, b, c, plan
<1>11. /\ trial <= a /\ subscription <= b /\ topup <= c
       /\ trial + subscription + topup = Smaller(amount, a + b + c)
       /\ subscription > 0 => trial = a
       /\ topup > 0 => trial = a /\ subscription = b
  BY <1>2, <1>3, <1>5, <1>7 DEF Smaller
<1>12. plan \in [Buckets -> Nat]
  <2> DEFINE paid(q) == CASE q = "trial" -> trial
                          [] q = "subscription" -> subscription
                          [] q = "topup" -> topup
  <2>1. ASSUME NEW q \in Buckets PROVE paid(q) \in Nat
    BY <1>3, <1>5, <1>7 DEF Buckets
  <2>2. plan = [q \in Buckets |-> paid(q)]
    BY <1>8
  <2> HIDE DEF paid
  <2>3. QED
    BY <2>1, <2>2
<1>13. Covered(plan) = Smaller(amount, TotalAvailable(balances))
  BY <1>9, <1>10, <1>11 DEF Covered, Total
<1>14. \A q \in Buckets : plan[q] <= Positive(balances[q])
  BY <1>9, <1>11 DEF Buckets, a, b, c
<1>15. /\ plan["subscription"] > 0 => plan["trial"] = Positive(balances["trial"])
       /\ plan["topup"] > 0 =>
            \A q \in {"trial", "subscription"} : plan[q] = Positive(balances[q])
  BY <1>9, <1>11 DEF a, b
<1>16. HonestPlan(plan, balances, amount)
  BY <1>13, <1>14, <1>15 DEF HonestPlan
<1>17. QED
  BY <1>12, <1>16 DEF plan

-----------------------------------------------------------------------------
(* Sums over a finite set                                                  *)

\* g adds f up over every subset of S, taking its elements as FoldSet does.
Adds(g, f, S) ==
  g = [T \in SUBSET S |-> IF T = {} THEN 0
                          ELSE LET x == CHOOSE x \in T : TRUE IN f[x] + g[T \ {x}]]

SumOver(f, S) == (CHOOSE g : Adds(g, f, S))[S]

\* Of the sets of subsets of a finite set each has one without a smaller one in it.
LEMMA Smallest ==
  ASSUME NEW S, IsFiniteSet(S), NEW B, B \subseteq SUBSET S, B # {}
  PROVE  \E T \in B : \A U \in SUBSET T : U # T => U \notin B
<1>1. IsWellFoundedOn(StrictSubsetOrdering(S), SUBSET S)
  BY FS_StrictSubsetOrderingWellFounded, FS_FiniteSubsetsOfFinite
<1>2. PICK T \in B : \A U \in B : <<U, T>> \notin StrictSubsetOrdering(S)
  BY <1>1, WFMin
<1>3. ASSUME NEW U \in SUBSET T, U # T, U \in B PROVE FALSE
  BY <1>2, <1>3 DEF StrictSubsetOrdering
<1>4. QED
  BY <1>3

\* Two such functions agree where both add up.
LEMMA AddsAgree ==
  ASSUME NEW f, NEW S, NEW R, NEW g, NEW h, Adds(g, f, S), Adds(h, f, R),
         NEW V, IsFiniteSet(V), V \subseteq S, V \subseteq R
  PROVE  g[V] = h[V]
<1> DEFINE B == {T \in SUBSET V : g[T] # h[T]}
<1>1. SUFFICES ASSUME B # {} PROVE FALSE
  OBVIOUS
<1>2. PICK T \in B : \A U \in SUBSET T : U # T => U \notin B
  <2>1. B \subseteq SUBSET V
    OBVIOUS
  <2> HIDE DEF B
  <2>2. QED
    BY <1>1, <2>1, Smallest
<1>3. /\ g[T] = IF T = {} THEN 0 ELSE LET x == CHOOSE x \in T : TRUE IN f[x] + g[T \ {x}]
      /\ h[T] = IF T = {} THEN 0 ELSE LET x == CHOOSE x \in T : TRUE IN f[x] + h[T \ {x}]
  <2>1. T \in SUBSET S /\ T \in SUBSET R
    OBVIOUS
  <2>2. QED
    BY <2>1 DEF Adds
<1>4. T # {}
  BY <1>3
<1> DEFINE x == CHOOSE x \in T : TRUE
<1>5. x \in T
  BY <1>4
<1>6. g[T \ {x}] = h[T \ {x}]
  BY <1>2, <1>5
<1>7. QED
  BY <1>3, <1>4, <1>6

\* There is one for every finite set.
LEMMA AddsExists ==
  ASSUME NEW f, NEW S, IsFiniteSet(S)
  PROVE  \E g : Adds(g, f, S)
<1> DEFINE Has(T) == \E g : Adds(g, f, T)
           B == {T \in SUBSET S : ~Has(T)}
<1>1. SUFFICES ASSUME B # {} PROVE FALSE
  OBVIOUS
<1>2. PICK T \in B : \A U \in SUBSET T : U # T => U \notin B
  <2>1. B \subseteq SUBSET S
    OBVIOUS
  <2> HIDE DEF B
  <2>2. QED
    BY <1>1, <2>1, Smallest
<1>3. ASSUME NEW U \in SUBSET T, U # T PROVE Adds(CHOOSE g : Adds(g, f, U), f, U)
  BY <1>2, <1>3
<1> DEFINE first(U) == CHOOSE x \in U : TRUE
           G == [U \in SUBSET T |-> IF U = {} THEN 0 ELSE f[first(U)] + SumOver(f, U \ {first(U)})]
<1>4. ASSUME NEW U \in SUBSET T, U # T PROVE G[U] = SumOver(f, U)
  <2> DEFINE g == CHOOSE g : Adds(g, f, U)
  <2>1. Adds(g, f, U)
    BY <1>3, <1>4
  <2>2. SumOver(f, U) = g[U]
    BY DEF SumOver
  <2> HIDE DEF g
  <2>3. g[U] = IF U = {} THEN 0 ELSE f[first(U)] + g[U \ {first(U)}]
    BY <2>1 DEF Adds
  <2>4. CASE U = {}
    BY <2>2, <2>3, <2>4
  <2>5. CASE U # {}
    <3> DEFINE W == U \ {first(U)}
               h == CHOOSE h : Adds(h, f, W)
    <3>1. first(U) \in U
      BY <2>5
    <3>2. W \in SUBSET T /\ W # T /\ W \subseteq U
      BY <1>4, <3>1
    <3> HIDE DEF W
    <3>3. Adds(h, f, W)
      BY <1>3, <3>2
    <3>4. SumOver(f, W) = h[W]
      BY DEF SumOver
    <3> HIDE DEF h
    <3>5. IsFiniteSet(W)
      BY <3>2, FS_Subset
    <3>6. g[W] = h[W]
      BY <2>1, <3>2, <3>3, <3>5, AddsAgree
    <3>7. G[U] = f[first(U)] + SumOver(f, W)
      BY <2>5 DEF W
    <3>8. g[U] = f[first(U)] + g[W]
      BY <2>3, <2>5 DEF W
    <3>9. QED
      BY <2>2, <3>4, <3>6, <3>7, <3>8
  <2>6. QED
    BY <2>4, <2>5
<1>5. Adds(G, f, T)
  <2>1. ASSUME NEW U \in SUBSET T, U # {} PROVE SumOver(f, U \ {first(U)}) = G[U \ {first(U)}]
    <3>1. first(U) \in U
      BY <2>1
    <3>2. U \ {first(U)} \in SUBSET T /\ U \ {first(U)} # T
      BY <3>1
    <3> HIDE DEF first, G
    <3>3. QED
      BY <1>4, <3>2
  <2>2. G = [U \in SUBSET T |-> IF U = {} THEN 0 ELSE f[first(U)] + G[U \ {first(U)}]]
    <3> DEFINE H == [U \in SUBSET T |-> IF U = {} THEN 0 ELSE f[first(U)] + G[U \ {first(U)}]]
    <3>1. ASSUME NEW U \in SUBSET T PROVE G[U] = H[U]
      <4>1. CASE U = {}
        BY <4>1
      <4>2. CASE U # {}
        <5>1. G[U] = f[first(U)] + SumOver(f, U \ {first(U)})
          BY <4>2
        <5>2. H[U] = f[first(U)] + G[U \ {first(U)}]
          <6> HIDE DEF G, first
          <6>1. QED
            BY <4>2
        <5> HIDE DEF G, H, first
        <5>3. QED
          BY <2>1, <4>2, <5>1, <5>2
      <4>3. QED
        BY <4>1, <4>2
    <3>2. QED
      BY <3>1
  <2>3. QED
    BY <2>2 DEF Adds
<1>6. QED
  BY <1>2, <1>5

\* The sum of nothing, and of a set that has an element.
LEMMA SumIs ==
  ASSUME NEW f, NEW S, IsFiniteSet(S)
  PROVE  /\ S = {} => SumOver(f, S) = 0
         /\ S # {} => \E x \in S : SumOver(f, S) = f[x] + SumOver(f, S \ {x})
<1> DEFINE g == CHOOSE g : Adds(g, f, S)
<1>1. Adds(g, f, S) /\ SumOver(f, S) = g[S]
  BY AddsExists DEF SumOver
<1> HIDE DEF g
<1>2. S = {} => g[S] = 0
  BY <1>1 DEF Adds
<1>3. ASSUME S # {} PROVE \E x \in S : SumOver(f, S) = f[x] + SumOver(f, S \ {x})
  <2> DEFINE x == CHOOSE x \in S : TRUE
             W == S \ {x}
             h == CHOOSE h : Adds(h, f, W)
  <2>1. x \in S
    BY <1>3
  <2>2. g[S] = f[x] + g[W]
    BY <1>1, <1>3 DEF Adds
  <2>3. W \subseteq S
    OBVIOUS
  <2> HIDE DEF x
  <2>4. IsFiniteSet(W)
    BY <2>3, FS_Subset
  <2>5. Adds(h, f, W) /\ SumOver(f, W) = h[W]
    BY <2>4, AddsExists DEF SumOver
  <2> HIDE DEF h
  <2>6. g[W] = h[W]
    BY <1>1, <2>3, <2>4, <2>5, AddsAgree
  <2>7. QED
    BY <1>1, <2>1, <2>2, <2>5, <2>6
<1>4. QED
  BY <1>1, <1>2, <1>3

\* It is a number.
LEMMA SumType ==
  ASSUME NEW D, NEW f \in [D -> Int], NEW S \in SUBSET D, IsFiniteSet(S)
  PROVE  SumOver(f, S) \in Int
<1> DEFINE B == {T \in SUBSET S : SumOver(f, T) \notin Int}
<1>1. SUFFICES ASSUME B # {} PROVE FALSE
  OBVIOUS
<1>2. PICK T \in B : \A U \in SUBSET T : U # T => U \notin B
  <2>1. B \subseteq SUBSET S
    OBVIOUS
  <2> HIDE DEF B
  <2>2. QED
    BY <1>1, <2>1, Smallest
<1>3. IsFiniteSet(T)
  BY FS_Subset
<1>4. T # {}
  BY <1>3, SumIs
<1>5. PICK x \in T : SumOver(f, T) = f[x] + SumOver(f, T \ {x})
  BY <1>3, <1>4, SumIs
<1>6. SumOver(f, T \ {x}) \in Int
  BY <1>2
<1>7. f[x] \in Int
  OBVIOUS
<1>8. QED
  BY <1>5, <1>6, <1>7

\* Any element can be taken first.
LEMMA SumWithout ==
  ASSUME NEW D, NEW f \in [D -> Int], NEW S \in SUBSET D, IsFiniteSet(S), NEW s \in S
  PROVE  SumOver(f, S) = f[s] + SumOver(f, S \ {s})
<1> DEFINE Fits(T, t) == SumOver(f, T) = f[t] + SumOver(f, T \ {t})
           B == {T \in SUBSET S : \E t \in T : ~Fits(T, t)}
<1>1. SUFFICES ASSUME B # {} PROVE FALSE
  OBVIOUS
<1>2. PICK T \in B : \A U \in SUBSET T : U # T => U \notin B
  <2>1. B \subseteq SUBSET S
    OBVIOUS
  <2> HIDE DEF B
  <2>2. QED
    BY <1>1, <2>1, Smallest
<1>3. PICK t \in T : ~Fits(T, t)
  BY <1>2
<1>4. \A U \in SUBSET T : IsFiniteSet(U) /\ SumOver(f, U) \in Int
  <2>1. SUFFICES ASSUME NEW U \in SUBSET T PROVE IsFiniteSet(U) /\ SumOver(f, U) \in Int
    OBVIOUS
  <2>2. IsFiniteSet(U)
    BY FS_Subset
  <2>3. QED
    BY <2>2, SumType
<1>5. PICK x \in T : Fits(T, x)
  BY <1>4, SumIs
<1>6. CASE x = t
  BY <1>3, <1>5, <1>6
<1>7. CASE x # t
  <2>1. Fits(T \ {x}, t)
    BY <1>2, <1>7
  <2>2. Fits(T \ {t}, x)
    BY <1>2, <1>7
  <2>3. (T \ {x}) \ {t} = (T \ {t}) \ {x}
    OBVIOUS
  <2>4. /\ f[x] \in Int /\ f[t] \in Int
        /\ SumOver(f, T) \in Int /\ SumOver(f, T \ {x}) \in Int /\ SumOver(f, T \ {t}) \in Int
        /\ SumOver(f, (T \ {t}) \ {x}) \in Int
    BY <1>4
  <2>5. Fits(T, t)
    <3> DEFINE both == SumOver(f, (T \ {t}) \ {x})
               lessx == SumOver(f, T \ {x})
               lesst == SumOver(f, T \ {t})
    <3>1. SumOver(f, T) = f[x] + lessx
      BY <1>5
    <3>2. lessx = f[t] + both
      BY <2>1, <2>3
    <3>3. lesst = f[x] + both
      BY <2>2
    <3>4. both \in Int /\ lessx \in Int /\ lesst \in Int
      BY <2>4
    <3> HIDE DEF both, lessx, lesst
    <3>5. SumOver(f, T) = f[t] + lesst
      BY <2>4, <3>1, <3>2, <3>3, <3>4
    <3>6. QED
      BY <3>5 DEF lesst
  <2>6. QED
    BY <1>3, <2>5
<1>8. QED
  BY <1>6, <1>7

\* Functions that agree on a set have the same sum over it.
LEMMA SumAlike ==
  ASSUME NEW C, NEW D, NEW f \in [C -> Int], NEW g \in [D -> Int],
         NEW S \in SUBSET C, S \in SUBSET D, IsFiniteSet(S),
         \A s \in S : f[s] = g[s]
  PROVE  SumOver(f, S) = SumOver(g, S)
<1> DEFINE B == {T \in SUBSET S : SumOver(f, T) # SumOver(g, T)}
<1>1. SUFFICES ASSUME B # {} PROVE FALSE
  OBVIOUS
<1>2. PICK T \in B : \A U \in SUBSET T : U # T => U \notin B
  <2>1. B \subseteq SUBSET S
    OBVIOUS
  <2> HIDE DEF B
  <2>2. QED
    BY <1>1, <2>1, Smallest
<1>3. IsFiniteSet(T)
  BY FS_Subset
<1>4. T # {}
  BY <1>3, SumIs
<1>5. PICK x \in T : SumOver(f, T) = f[x] + SumOver(f, T \ {x})
  BY <1>3, <1>4, SumIs
<1>6. SumOver(g, T) = g[x] + SumOver(g, T \ {x})
  BY <1>3, SumWithout
<1>7. SumOver(f, T \ {x}) = SumOver(g, T \ {x})
  BY <1>2
<1>8. QED
  BY <1>5, <1>6, <1>7

\* A function that changes at one place changes its sum by as much.
LEMMA SumChanges ==
  ASSUME NEW D, IsFiniteSet(D), NEW f \in [D -> Int], NEW g \in [D -> Int], NEW s \in D,
         \A t \in D : t # s => g[t] = f[t]
  PROVE  SumOver(g, D) = SumOver(f, D) + g[s] - f[s]
<1> DEFINE R == D \ {s}
<1>1. R \in SUBSET D /\ IsFiniteSet(R) /\ \A t \in R : g[t] = f[t]
  BY FS_Subset
<1>2. SumOver(g, D) = g[s] + SumOver(g, R) /\ SumOver(f, D) = f[s] + SumOver(f, R)
  BY SumWithout
<1> HIDE DEF R
<1>3. SumOver(f, R) = SumOver(g, R)
  BY <1>1, SumAlike
<1>4. SumOver(f, R) \in Int /\ f[s] \in Int /\ g[s] \in Int
  BY <1>1, SumType
<1>5. QED
  BY <1>2, <1>3, <1>4

\* A sum of zeros is zero.
LEMMA SumOfZeros ==
  ASSUME NEW D, NEW f \in [D -> Int], NEW S \in SUBSET D, IsFiniteSet(S), \A s \in S : f[s] = 0
  PROVE  SumOver(f, S) = 0
<1> DEFINE B == {T \in SUBSET S : SumOver(f, T) # 0}
<1>1. SUFFICES ASSUME B # {} PROVE FALSE
  OBVIOUS
<1>2. PICK T \in B : \A U \in SUBSET T : U # T => U \notin B
  <2>1. B \subseteq SUBSET S
    OBVIOUS
  <2> HIDE DEF B
  <2>2. QED
    BY <1>1, <2>1, Smallest
<1>3. IsFiniteSet(T)
  BY FS_Subset
<1>4. T # {}
  BY <1>3, SumIs
<1>5. PICK x \in T : SumOver(f, T) = f[x] + SumOver(f, T \ {x})
  BY <1>3, <1>4, SumIs
<1>6. SumOver(f, T \ {x}) = 0
  BY <1>2
<1>7. f[x] = 0
  OBVIOUS
<1>8. QED
  BY <1>5, <1>6, <1>7

\* The sum of the larger function is the larger sum.
LEMMA SumGrows ==
  ASSUME NEW D, NEW f \in [D -> Int], NEW g \in [D -> Int], NEW S \in SUBSET D, IsFiniteSet(S),
         \A s \in S : f[s] <= g[s]
  PROVE  SumOver(f, S) <= SumOver(g, S)
<1> DEFINE B == {T \in SUBSET S : ~(SumOver(f, T) <= SumOver(g, T))}
<1>1. SUFFICES ASSUME B # {} PROVE FALSE
  OBVIOUS
<1>2. PICK T \in B : \A U \in SUBSET T : U # T => U \notin B
  <2>1. B \subseteq SUBSET S
    OBVIOUS
  <2> HIDE DEF B
  <2>2. QED
    BY <1>1, <2>1, Smallest
<1>3. IsFiniteSet(T)
  BY FS_Subset
<1>4. T # {}
  BY <1>3, SumIs
<1>5. PICK x \in T : SumOver(f, T) = f[x] + SumOver(f, T \ {x})
  BY <1>3, <1>4, SumIs
<1>6. SumOver(g, T) = g[x] + SumOver(g, T \ {x})
  BY <1>3, SumWithout
<1>7. SumOver(f, T \ {x}) <= SumOver(g, T \ {x})
  BY <1>2
<1>8. /\ f[x] \in Int /\ g[x] \in Int /\ f[x] <= g[x]
      /\ SumOver(f, T \ {x}) \in Int /\ SumOver(g, T \ {x}) \in Int
  <2>1. T \ {x} \in SUBSET D /\ IsFiniteSet(T \ {x})
    BY <1>3, FS_Subset
  <2>2. QED
    BY <2>1, SumType
<1>9. QED
  BY <1>5, <1>6, <1>7, <1>8

\* What is added without taking away only makes a sum larger.
LEMMA SumWithin ==
  ASSUME NEW D, NEW f \in [D -> Int], NEW T \in SUBSET D, IsFiniteSet(T), NEW S \in SUBSET T,
         \A x \in T \ S : f[x] >= 0
  PROVE  SumOver(f, S) <= SumOver(f, T)
<1> DEFINE B == {U \in SUBSET T : S \subseteq U /\ ~(SumOver(f, S) <= SumOver(f, U))}
<1>1. SUFFICES ASSUME B # {} PROVE FALSE
  <2>1. T \in SUBSET T /\ S \subseteq T
    OBVIOUS
  <2>2. QED
    BY <2>1
<1>2. PICK U \in B : \A V \in SUBSET U : V # U => V \notin B
  <2>1. B \subseteq SUBSET T
    OBVIOUS
  <2> HIDE DEF B
  <2>2. QED
    BY <1>1, <2>1, Smallest
<1>3. /\ IsFiniteSet(U) /\ IsFiniteSet(S) /\ U \in SUBSET D /\ S \in SUBSET D
  BY FS_Subset
<1>4. SumOver(f, S) \in Int
  BY <1>3, SumType
<1>5. PICK x \in U : x \notin S
  <2>1. S # U
    BY <1>2, <1>4
  <2>2. QED
    BY <1>2, <2>1
<1>6. SumOver(f, U) = f[x] + SumOver(f, U \ {x})
  BY <1>3, SumWithout
<1>7. SumOver(f, S) <= SumOver(f, U \ {x})
  BY <1>2, <1>5
<1>8. /\ f[x] \in Int /\ f[x] >= 0 /\ SumOver(f, U \ {x}) \in Int
  <2>1. U \ {x} \in SUBSET D /\ IsFiniteSet(U \ {x})
    BY <1>3, FS_Subset
  <2>2. x \in D /\ x \in T \ S
    BY <1>2, <1>5
  <2>3. QED
    BY <2>1, <2>2, SumType
<1>9. ~(SumOver(f, S) <= SumOver(f, U))
  BY <1>2
<1>10. QED
  BY <1>4, <1>6, <1>7, <1>8, <1>9

-----------------------------------------------------------------------------
(* The account                                                             *)

\* What a call still has to bill, and what it will take off the hold.
Bills(m) == IF m.op = "flush" /\ m.step # "unhold" THEN m.amount ELSE 0
Frees(m) == IF m.step # "unhold" THEN 0
            ELSE IF m.op = "flush" THEN Covered(PlanSpend(m.seen, m.amount)) ELSE m.amount

\* A call as its steps make it.
Shape(m) ==
  /\ m.op = "none" => m.step = "none"
  /\ m.op = "reserve" => m.step \in {"buckets", "hold", "take"}
  /\ m.op = "flush" => m.step \in {"buckets", "commit", "unhold"}
  /\ m.op = "release" => m.step = "unhold"

\* A session has nothing pending unless it runs, and nothing at all before it starts.
Stage(s) ==
  /\ phase[s] # "running" => pending[s] = 0
  /\ phase[s] = "new" => /\ opening[s] = 0 /\ reserved[s] = 0 /\ spent[s] = 0
                         /\ \A w \in {"tick", "close"} : call[<<s, w>>].op = "none"

Freeing(s) == Frees(call[<<s, "tick">>]) + Frees(call[<<s, "close">>])

Unbilled == [s \in Sessions |-> pending[s] + InFlight(s)]

\* What a session may take from the account and what its calls will take off the hold.
Due(s) == reserved[s] - spent[s] + pending[s] + InFlight(s) + Freeing(s)

Dues == [s \in Sessions |-> Due(s)]

\* The invariant.  The hold is compared with the sessions' dues, and not with what they
\* are promised, because a flush that has committed is billed and still on hold.
LedgerInv ==
  /\ TypeOK
  /\ \A c \in Callers : Shape(call[c])
  /\ \A s \in Sessions : Stage(s)
  /\ SumOf(spent) = Total(billed) + forgiven + shortfall + SumOf(Unbilled)
  /\ \A b \in Buckets : balance[b] = Granted[b] - billed[b]
  /\ ~expired => hold + SumOf(opening) >= SumOf(Dues)
  /\ ~faulty /\ ~expired => hold + SumOf(opening) = SumOf(Dues) + shortfall

LEMMA SumOfIsSum ==
  ASSUME NEW f
  PROVE  SumOf(f) = SumOver(f, Sessions)
BY DEF SumOf, FoldSet, MapThenFoldSet, SumOver, Adds

LEMMA TotalIsNat ==
  ASSUME NEW parts \in [Buckets -> Nat]
  PROVE  Total(parts) \in Nat
BY DEF Total, Buckets

\* What a call bills or frees is part of its amount.
LEMMA CallAmounts ==
  ASSUME NEW m \in Calls
  PROVE  Bills(m) \in Nat /\ Frees(m) \in Nat /\ Frees(m) <= m.amount
<1>1. m.amount \in Nat /\ m.seen \in [Buckets -> Int]
  BY DEF Calls
<1> DEFINE plan == PlanSpend(m.seen, m.amount)
<1>2. plan \in [Buckets -> Nat] /\ HonestPlan(plan, m.seen, m.amount)
  BY <1>1, PlanSpendIsHonest
<1>3. TotalAvailable(m.seen) \in Nat
  BY <1>1 DEF TotalAvailable, Total, Positive, Buckets
<1>4. Covered(plan) <= m.amount
  BY <1>1, <1>2, <1>3 DEF HonestPlan, Smaller
<1>5. Covered(plan) \in Nat
  BY <1>2, TotalIsNat DEF Covered
<1> HIDE DEF plan
<1>6. QED
  BY <1>1, <1>4, <1>5 DEF Bills, Frees, plan

LEMMA CarriedIsBills ==
  ASSUME NEW c
  PROVE  Carried(c) = Bills(call[c])
BY DEF Carried, Bills

\* A call that becomes another moves what its own session bills and frees.
LEMMA CallMoves ==
  ASSUME call \in [Callers -> Calls], NEW s \in Sessions, NEW w \in {"tick", "close"},
         NEW m \in Calls, call' = [call EXCEPT ![<<s, w>>] = m]
  PROVE  /\ call' \in [Callers -> Calls]
         /\ \A t \in Sessions : t # s => InFlight(t)' = InFlight(t) /\ Freeing(t)' = Freeing(t)
         /\ InFlight(s)' = InFlight(s) + Bills(m) - Bills(call[<<s, w>>])
         /\ Freeing(s)' = Freeing(s) + Frees(m) - Frees(call[<<s, w>>])
<1>1. \A t \in Sessions, v \in {"tick", "close"} :
        /\ <<t, v>> \in Callers
        /\ call[<<t, v>>] \in Calls
        /\ call'[<<t, v>>] = IF t = s /\ v = w THEN m ELSE call[<<t, v>>]
  BY DEF Callers
<1>2. call' \in [Callers -> Calls]
  OBVIOUS
<1>3. \A t \in Sessions :
        /\ InFlight(t) = Bills(call[<<t, "tick">>]) + Bills(call[<<t, "close">>])
        /\ InFlight(t)' = Bills(call'[<<t, "tick">>]) + Bills(call'[<<t, "close">>])
  BY CarriedIsBills DEF InFlight, Carried, Bills
<1>4. \A v \in {"tick", "close"} : Bills(call[<<s, v>>]) \in Nat /\ Frees(call[<<s, v>>]) \in Nat
  BY <1>1, CallAmounts
<1>5. Bills(m) \in Nat /\ Frees(m) \in Nat
  BY CallAmounts
<1>6. \A t \in Sessions : t # s => InFlight(t)' = InFlight(t) /\ Freeing(t)' = Freeing(t)
  BY <1>1, <1>3 DEF Freeing
<1>7. InFlight(s)' = InFlight(s) + Bills(m) - Bills(call[<<s, w>>])
  BY <1>1, <1>3, <1>4, <1>5
<1>8. Freeing(s)' = Freeing(s) + Frees(m) - Frees(call[<<s, w>>])
  BY <1>1, <1>4, <1>5 DEF Freeing
<1>9. QED
  BY <1>2, <1>6, <1>7, <1>8

\* What is in flight, is freed and is due are numbers.
DueTypes ==
  /\ \A s \in Sessions : InFlight(s) \in Nat /\ Freeing(s) \in Nat /\ Due(s) \in Int
  /\ Unbilled \in [Sessions -> Int] /\ Dues \in [Sessions -> Int]
  /\ spent \in [Sessions -> Int] /\ opening \in [Sessions -> Int]

LEMMA DuesAreNumbers == TypeOK => DueTypes
<1> SUFFICES ASSUME TypeOK PROVE DueTypes
  OBVIOUS
<1>1. /\ opening \in [Sessions -> Nat] /\ reserved \in [Sessions -> Nat]
      /\ spent \in [Sessions -> Nat] /\ pending \in [Sessions -> Nat]
      /\ call \in [Callers -> Calls]
  BY DEF TypeOK
<1>2. ASSUME NEW s \in Sessions
      PROVE  InFlight(s) \in Nat /\ Freeing(s) \in Nat /\ Due(s) \in Int
  <2>1. \A v \in {"tick", "close"} : call[<<s, v>>] \in Calls
    BY <1>1 DEF Callers
  <2>2. \A v \in {"tick", "close"} : Bills(call[<<s, v>>]) \in Nat /\ Frees(call[<<s, v>>]) \in Nat
    BY <2>1, CallAmounts
  <2>3. InFlight(s) \in Nat /\ Freeing(s) \in Nat
    BY <2>2, CarriedIsBills DEF InFlight, Freeing
  <2>4. QED
    BY <1>1, <2>3 DEF Due
<1>3. \A s \in Sessions : pending[s] + InFlight(s) \in Int
  BY <1>1, <1>2
<1>4. QED
  BY <1>1, <1>2, <1>3 DEF DueTypes, Unbilled, Dues

\* The parts of the invariant a step keeps when it touches one session only, and the
\* accounts of that session stay even.
Even(s) ==
  /\ spent'[s] - spent[s]
       = Total(billed') - Total(billed) + (forgiven' - forgiven) + (shortfall' - shortfall)
           + (pending'[s] + InFlight(s)' - pending[s] - InFlight(s))
  /\ \A b \in Buckets : balance'[b] + billed'[b] = balance[b] + billed[b]
  /\ expired' = expired
  /\ hold' - hold + (opening'[s] - opening[s]) >= Due(s)' - Due(s)
  /\ ~faulty' => /\ ~faulty
                 /\ hold' - hold + (opening'[s] - opening[s])
                      = Due(s)' - Due(s) + (shortfall' - shortfall)

Alone(s) ==
  \A t \in Sessions : t # s =>
    /\ opening'[t] = opening[t] /\ reserved'[t] = reserved[t]
    /\ spent'[t] = spent[t] /\ pending'[t] = pending[t]
    /\ InFlight(t)' = InFlight(t) /\ Freeing(t)' = Freeing(t)

LEMMA EvenStep ==
  ASSUME AccountAssumption, LedgerInv, TypeOK', NEW s \in Sessions, Alone(s), Even(s),
         \A c \in Callers : Shape(call'[c]),
         \A t \in Sessions : Stage(t)'
  PROVE  LedgerInv'
<1>1. IsFiniteSet(Sessions) /\ Granted \in [Buckets -> Nat]
  BY DEF AccountAssumption
<1>2. /\ \A t \in Sessions : InFlight(t) \in Nat /\ Due(t) \in Int
      /\ Unbilled \in [Sessions -> Int] /\ Dues \in [Sessions -> Int]
      /\ spent \in [Sessions -> Int] /\ opening \in [Sessions -> Int]
  BY DuesAreNumbers DEF DueTypes, LedgerInv
<1>3. /\ \A t \in Sessions : InFlight(t)' \in Nat /\ Due(t)' \in Int
      /\ Unbilled' \in [Sessions -> Int] /\ Dues' \in [Sessions -> Int]
      /\ spent' \in [Sessions -> Int] /\ opening' \in [Sessions -> Int]
  <2>1. DueTypes'
    BY DuesAreNumbers, PTL
  <2>2. QED
    BY <2>1 DEF DueTypes
<1>4. \A t \in Sessions : t # s =>
        /\ Unbilled'[t] = Unbilled[t] /\ Dues'[t] = Dues[t]
        /\ spent'[t] = spent[t] /\ opening'[t] = opening[t]
  BY DEF Alone, Unbilled, Dues, Due
<1>5. /\ SumOver(spent', Sessions) = SumOver(spent, Sessions) + spent'[s] - spent[s]
      /\ SumOver(opening', Sessions) = SumOver(opening, Sessions) + opening'[s] - opening[s]
      /\ SumOver(Unbilled', Sessions) = SumOver(Unbilled, Sessions) + Unbilled'[s] - Unbilled[s]
      /\ SumOver(Dues', Sessions) = SumOver(Dues, Sessions) + Dues'[s] - Dues[s]
  BY <1>1, <1>2, <1>3, <1>4, SumChanges
<1>6. /\ SumOver(spent, Sessions) \in Int /\ SumOver(opening, Sessions) \in Int
      /\ SumOver(Unbilled, Sessions) \in Int /\ SumOver(Dues, Sessions) \in Int
  BY <1>1, <1>2, SumType
<1>7. /\ SumOf(spent) = SumOver(spent, Sessions) /\ SumOf(opening) = SumOver(opening, Sessions)
      /\ SumOf(Unbilled) = SumOver(Unbilled, Sessions) /\ SumOf(Dues) = SumOver(Dues, Sessions)
      /\ SumOf(spent)' = SumOver(spent', Sessions) /\ SumOf(opening)' = SumOver(opening', Sessions)
      /\ SumOf(Unbilled)' = SumOver(Unbilled', Sessions) /\ SumOf(Dues)' = SumOver(Dues', Sessions)
  <2>1. /\ SumOf(spent)' = SumOf(spent') /\ SumOf(opening)' = SumOf(opening')
        /\ SumOf(Unbilled)' = SumOf(Unbilled') /\ SumOf(Dues)' = SumOf(Dues')
    OBVIOUS
  <2>2. QED
    BY <2>1, SumOfIsSum
<1>8. /\ Unbilled[s] = pending[s] + InFlight(s) /\ Unbilled'[s] = pending'[s] + InFlight(s)'
      /\ Dues[s] = Due(s) /\ Dues'[s] = Due(s)'
  BY DEF Unbilled, Dues
<1>9. /\ Total(billed) \in Nat /\ Total(billed') \in Nat /\ Total(billed)' = Total(billed')
      /\ hold \in Int /\ hold' \in Int /\ forgiven \in Nat /\ forgiven' \in Nat
      /\ shortfall \in Nat /\ shortfall' \in Nat /\ pending[s] \in Nat /\ pending'[s] \in Nat
      /\ spent[s] \in Nat /\ spent'[s] \in Nat /\ opening[s] \in Nat /\ opening'[s] \in Nat
      /\ InFlight(s) \in Nat /\ InFlight(s)' \in Nat /\ Due(s) \in Int /\ Due(s)' \in Int
  BY <1>2, <1>3, TotalIsNat DEF LedgerInv, TypeOK, Total
<1>10. SumOf(spent)' = Total(billed)' + forgiven' + shortfall' + SumOf(Unbilled)'
  BY <1>5, <1>6, <1>7, <1>8, <1>9 DEF LedgerInv, Even
<1>11. \A b \in Buckets : balance'[b] = Granted[b] - billed'[b]
  <2>1. \A b \in Buckets : /\ balance[b] \in Int /\ balance'[b] \in Int /\ billed[b] \in Int
                           /\ billed'[b] \in Int /\ Granted[b] \in Int
    BY <1>1 DEF LedgerInv, TypeOK
  <2>2. QED
    BY <2>1 DEF LedgerInv, Even
<1>12. ~expired' => hold' + SumOf(opening)' >= SumOf(Dues)'
  BY <1>5, <1>6, <1>7, <1>8, <1>9 DEF LedgerInv, Even
<1>13. ~faulty' /\ ~expired' => hold' + SumOf(opening)' = SumOf(Dues)' + shortfall'
  BY <1>5, <1>6, <1>7, <1>8, <1>9 DEF LedgerInv, Even
<1>14. QED
  BY <1>10, <1>11, <1>12, <1>13 DEF LedgerInv

LEMMA LedgerInit == Init => LedgerInv
<1> SUFFICES ASSUME Init PROVE LedgerInv
  OBVIOUS
<1>1. IsFiniteSet(Sessions) /\ Granted \in [Buckets -> Nat]
  BY AccountAssumption DEF AccountAssumption
<1>2. NoCall \in Calls /\ Shape(NoCall) /\ Bills(NoCall) = 0 /\ Frees(NoCall) = 0
  BY DEF NoCall, Calls, Shape, Bills, Frees
<1>3. \A c \in Callers : call[c] = NoCall
  BY DEF Init
<1>4. TypeOK
  <2>1. Granted \in [Buckets -> Int]
    BY <1>1
  <2>2. \A f \in {opening, reserved, spent, pending} : f = [s \in Sessions |-> 0]
    BY DEF Init
  <2>3. /\ \A f \in {opening, reserved, spent, pending} : f \in [Sessions -> Nat]
        /\ \A s \in Sessions : spent[s] = 0 /\ reserved[s] = 0
    BY <2>2
  <2>4. call \in [Callers -> Calls]
    BY <1>2 DEF Init
  <2>5. balance \in [Buckets -> Int]
    BY <2>1 DEF Init
  <2>6. billed \in [Buckets -> Nat] /\ hold \in Int /\ forgiven \in Nat /\ shortfall \in Nat
    BY DEF Init
  <2>7. phase \in [Sessions -> {"new", "running", "closing", "closed"}]
    BY DEF Init
  <2>8. {faulty, expired} \subseteq BOOLEAN
    BY DEF Init
  <2>9. QED
    BY <2>3, <2>4, <2>5, <2>6, <2>7, <2>8 DEF TypeOK
<1>5. \A s \in Sessions : InFlight(s) = 0 /\ Freeing(s) = 0 /\ Due(s) = 0
  <2>1. ASSUME NEW s \in Sessions PROVE InFlight(s) = 0 /\ Freeing(s) = 0
    BY <1>2, <1>3, CarriedIsBills DEF InFlight, Freeing, Callers
  <2>2. QED
    BY <2>1 DEF Due, Init
<1>6. \A s \in Sessions : Unbilled[s] = 0 /\ Dues[s] = 0 /\ spent[s] = 0 /\ opening[s] = 0
  BY <1>5 DEF Unbilled, Dues, Init
<1>7. /\ SumOf(Unbilled) = 0 /\ SumOf(Dues) = 0 /\ SumOf(spent) = 0 /\ SumOf(opening) = 0
  <2>1. DueTypes
    BY <1>4, DuesAreNumbers
  <2>2. QED
    BY <1>1, <1>6, <2>1, SumOfZeros, SumOfIsSum DEF DueTypes
<1>8. Total(billed) = 0
  BY DEF Init, Total, Buckets
<1>9. \A b \in Buckets : balance[b] = Granted[b] - billed[b]
  <2>1. SUFFICES ASSUME NEW b \in Buckets PROVE balance[b] = Granted[b] - billed[b]
    OBVIOUS
  <2>2. Granted[b] \in Nat /\ balance[b] = Granted[b] /\ billed[b] = 0
    BY <1>1 DEF Init
  <2>3. QED
    BY <2>2
<1>10. \A s \in Sessions : Stage(s)
  BY <1>3 DEF Stage, Init, NoCall, Callers
<1>11. QED
  BY <1>2, <1>3, <1>4, <1>7, <1>8, <1>9, <1>10 DEF LedgerInv, Init

\* Without a call nothing in flight or freed changes.
LEMMA CallsRest ==
  ASSUME UNCHANGED call
  PROVE  \A s \in Sessions : InFlight(s)' = InFlight(s) /\ Freeing(s)' = Freeing(s)
BY DEF InFlight, Carried, Freeing

\* What is added up here are numbers.
LEMMA Numbers ==
  ASSUME LedgerInv, NEW s \in Sessions
  PROVE  /\ Total(billed) \in Nat /\ forgiven \in Nat /\ shortfall \in Nat /\ hold \in Int
         /\ opening[s] \in Nat /\ reserved[s] \in Nat /\ spent[s] \in Nat /\ pending[s] \in Nat
         /\ InFlight(s) \in Nat /\ Freeing(s) \in Nat /\ Due(s) \in Int
         /\ \A b \in Buckets : balance[b] \in Int /\ billed[b] \in Nat
<1>1. DueTypes
  BY DuesAreNumbers DEF LedgerInv
<1>2. QED
  BY <1>1, TotalIsNat DEF LedgerInv, TypeOK, DueTypes

LEMMA StartKeeps ==
  ASSUME AccountAssumption, LedgerInv, NEW s \in Sessions, Start(s)
  PROVE  LedgerInv'
<1> DEFINE available == TotalAvailable([b \in Buckets |-> Granted[b] - billed[b]])
           window == Smaller(available, Window)
<1>1. window \in Nat
  <2>1. /\ Granted \in [Buckets -> Nat] /\ Window \in Nat /\ billed \in [Buckets -> Nat]
    BY DEF AccountAssumption, LedgerInv, TypeOK
  <2>2. available \in Nat
    BY <2>1 DEF TotalAvailable, Total, Positive, Buckets
  <2> HIDE DEF available
  <2>3. QED
    BY <2>1, <2>2 DEF Smaller
<1> HIDE DEF window
<1>2. /\ phase[s] = "new" /\ phase' = [phase EXCEPT ![s] = "running"]
      /\ opening' = [opening EXCEPT ![s] = window] /\ reserved' = [reserved EXCEPT ![s] = window]
      /\ UNCHANGED <<balance, billed, hold, spent, pending, call, ghostVars>>
  BY DEF Start, window
<1>3. reserved[s] = 0 /\ spent[s] = 0 /\ opening[s] = 0 /\ pending[s] = 0
  BY <1>2 DEF LedgerInv, Stage
<1>4. TypeOK'
  BY <1>1, <1>2, <1>3 DEF LedgerInv, TypeOK, ghostVars
<1>5. \A t \in Sessions : InFlight(t)' = InFlight(t) /\ Freeing(t)' = Freeing(t)
  BY <1>2, CallsRest
<1>6. Alone(s)
  BY <1>2, <1>5 DEF Alone, LedgerInv, TypeOK
<1>7. /\ opening'[s] = window /\ reserved'[s] = window /\ spent'[s] = 0 /\ pending'[s] = 0
      /\ phase'[s] = "running" /\ \A t \in Sessions : t # s => phase'[t] = phase[t]
  BY <1>2, <1>3 DEF LedgerInv, TypeOK
<1>8. Even(s)
  <2>1. Due(s) = InFlight(s) + Freeing(s) /\ Due(s)' = window + InFlight(s) + Freeing(s)
    BY <1>1, <1>3, <1>5, <1>7, Numbers DEF Due
  <2>2. UNCHANGED <<balance, billed, hold, forgiven, shortfall, faulty, expired>>
    BY <1>2 DEF ghostVars
  <2>3. Total(billed') = Total(billed)
    BY <2>2
  <2>4. spent'[s] - spent[s]
          = Total(billed') - Total(billed) + (forgiven' - forgiven) + (shortfall' - shortfall)
              + (pending'[s] + InFlight(s)' - pending[s] - InFlight(s))
    BY <1>3, <1>5, <1>7, <2>2, <2>3, Numbers
  <2>5. hold' - hold + (opening'[s] - opening[s]) = Due(s)' - Due(s) + (shortfall' - shortfall)
    BY <1>1, <1>3, <1>7, <2>1, <2>2, Numbers
  <2>6. shortfall' - shortfall = 0 /\ Due(s)' - Due(s) = window
    BY <1>1, <2>1, <2>2, Numbers
  <2>7. QED
    BY <1>1, <2>2, <2>4, <2>5, <2>6 DEF Even
<1>9. \A t \in Sessions : Stage(t)'
  <2>1. ASSUME NEW t \in Sessions, t # s PROVE Stage(t)'
    <3>1. /\ phase'[t] = phase[t] /\ opening'[t] = opening[t] /\ reserved'[t] = reserved[t]
          /\ UNCHANGED <<spent, pending, call>>
      BY <1>2, <1>6, <1>7, <2>1 DEF Alone
    <3>2. Stage(t)
      BY DEF LedgerInv
    <3>3. QED
      BY <3>1, <3>2 DEF Stage
  <2>2. Stage(s)'
    BY <1>7 DEF Stage
  <2>3. QED
    BY <2>1, <2>2
<1>10. \A d \in Callers : Shape(call'[d])
  BY <1>2 DEF LedgerInv
<1>11. QED
  BY <1>4, <1>6, <1>8, <1>9, <1>10, EvenStep

\* A tick charges what it spends.
LEMMA BurnKeeps ==
  ASSUME AccountAssumption, LedgerInv, NEW s \in Sessions, Burn(s)
  PROVE  LedgerInv'
<1>1. /\ phase[s] = "running" /\ spent[s] < reserved[s]
      /\ spent' = [spent EXCEPT ![s] = @ + 1] /\ pending' = [pending EXCEPT ![s] = @ + 1]
      /\ UNCHANGED <<balance, billed, hold, phase, opening, reserved, call, ghostVars>>
  BY DEF Burn
<1>2. TypeOK'
  BY <1>1 DEF LedgerInv, TypeOK, ghostVars
<1>3. \A t \in Sessions : InFlight(t)' = InFlight(t) /\ Freeing(t)' = Freeing(t)
  BY <1>1, CallsRest
<1>4. Alone(s)
  BY <1>1, <1>3 DEF Alone, LedgerInv, TypeOK
<1>5. spent'[s] = spent[s] + 1 /\ pending'[s] = pending[s] + 1
  BY <1>1 DEF LedgerInv, TypeOK
<1>6. Even(s)
  <2>1. Due(s)' = Due(s)
    <3>1. reserved[s] \in Nat /\ spent[s] \in Nat /\ pending[s] \in Nat
          /\ InFlight(s) \in Nat /\ Freeing(s) \in Nat
      BY Numbers
    <3>2. Due(s)' = reserved[s] - (spent[s] + 1) + (pending[s] + 1) + InFlight(s) + Freeing(s)
      BY <1>1, <1>3, <1>5 DEF Due
    <3>3. QED
      BY <3>1, <3>2 DEF Due
  <2>2. UNCHANGED <<balance, billed, hold, opening, forgiven, shortfall, faulty, expired>>
    BY <1>1 DEF ghostVars
  <2>3. Total(billed') = Total(billed)
    BY <2>2
  <2>4. spent'[s] - spent[s]
          = Total(billed') - Total(billed) + (forgiven' - forgiven) + (shortfall' - shortfall)
              + (pending'[s] + InFlight(s)' - pending[s] - InFlight(s))
    BY <1>3, <1>5, <2>2, <2>3, Numbers
  <2>5. /\ Due(s)' - Due(s) = 0 /\ hold' - hold = 0 /\ opening'[s] - opening[s] = 0
        /\ shortfall' - shortfall = 0
    BY <2>1, <2>2, Numbers
  <2>6. QED
    BY <2>2, <2>4, <2>5 DEF Even
<1>7. \A t \in Sessions : Stage(t)'
  BY <1>1, <1>4, <1>5 DEF Stage, Alone, LedgerInv
<1>8. \A d \in Callers : Shape(call'[d])
  BY <1>1 DEF LedgerInv
<1>9. QED
  BY <1>2, <1>4, <1>6, <1>7, <1>8, EvenStep

\* A step of a call keeps the invariant when what the call bills and frees becomes moves
\* with the ledger, the hold and its session.
LEMMA CallStep ==
  ASSUME AccountAssumption, LedgerInv, TypeOK',
         NEW s \in Sessions, NEW w \in {"tick", "close"}, NEW m \in Calls, Shape(m),
         call' = [call EXCEPT ![<<s, w>>] = m],
         \A t \in Sessions : t # s =>
           reserved'[t] = reserved[t] /\ pending'[t] = pending[t] /\ phase'[t] = phase[t],
         phase'[s] # "new", phase'[s] # "running" => pending'[s] = 0,
         UNCHANGED <<opening, spent, expired>>,
         \A b \in Buckets : balance'[b] + billed'[b] = balance[b] + billed[b],
         Total(billed') + forgiven' + shortfall' + pending'[s] + Bills(m)
           = Total(billed) + forgiven + shortfall + pending[s] + Bills(call[<<s, w>>]),
         hold' + reserved[s] + pending[s] + Bills(call[<<s, w>>]) + Frees(call[<<s, w>>])
           >= hold + reserved'[s] + pending'[s] + Bills(m) + Frees(m),
         ~faulty' =>
           /\ ~faulty
           /\ hold' + reserved[s] + pending[s] + Bills(call[<<s, w>>]) + Frees(call[<<s, w>>])
                + shortfall
                = hold + reserved'[s] + pending'[s] + Bills(m) + Frees(m) + shortfall'
  PROVE  LedgerInv'
<1> DEFINE old == call[<<s, w>>]
<1>1. call \in [Callers -> Calls] /\ old \in Calls
  BY DEF LedgerInv, TypeOK, Callers
<1>2. /\ \A t \in Sessions : t # s => InFlight(t)' = InFlight(t) /\ Freeing(t)' = Freeing(t)
      /\ InFlight(s)' = InFlight(s) + Bills(m) - Bills(old)
      /\ Freeing(s)' = Freeing(s) + Frees(m) - Frees(old)
  <2> HIDE DEF old
  <2>1. /\ \A t \in Sessions : t # s => InFlight(t)' = InFlight(t) /\ Freeing(t)' = Freeing(t)
        /\ InFlight(s)' = InFlight(s) + Bills(m) - Bills(call[<<s, w>>])
        /\ Freeing(s)' = Freeing(s) + Frees(m) - Frees(call[<<s, w>>])
    BY <1>1, CallMoves
  <2>2. old = call[<<s, w>>]
    BY DEF old
  <2>3. QED
    BY <2>1, <2>2
<1>3. Bills(m) \in Nat /\ Frees(m) \in Nat /\ Bills(old) \in Nat /\ Frees(old) \in Nat
  BY <1>1, CallAmounts
<1> HIDE DEF old
<1>4. Alone(s)
  BY <1>2 DEF Alone
<1>5. \A d \in Callers : Shape(call'[d])
  BY <1>1 DEF LedgerInv
<1>6. \A t \in Sessions : Stage(t)'
  <2>1. ASSUME NEW t \in Sessions, t # s PROVE Stage(t)'
    <3>1. \A v \in {"tick", "close"} : call'[<<t, v>>] = call[<<t, v>>]
      BY <1>1, <2>1 DEF Callers
    <3>2. QED
      BY <2>1, <3>1 DEF Stage, LedgerInv
  <2>2. Stage(s)'
    BY DEF Stage
  <2>3. QED
    BY <2>1, <2>2
<1>7. /\ reserved'[s] \in Nat /\ pending'[s] \in Nat /\ Total(billed') \in Nat
      /\ forgiven' \in Nat /\ shortfall' \in Nat /\ hold' \in Int
  BY TotalIsNat DEF TypeOK
<1>8. Even(s)
  <2>1. Due(s)' = Due(s) + (reserved'[s] - reserved[s]) + (pending'[s] - pending[s])
                    + (Bills(m) - Bills(old)) + (Frees(m) - Frees(old))
    BY <1>2, <1>3, <1>7, Numbers DEF Due
  <2>2. spent'[s] - spent[s]
          = Total(billed') - Total(billed) + (forgiven' - forgiven) + (shortfall' - shortfall)
              + (pending'[s] + InFlight(s)' - pending[s] - InFlight(s))
    BY <1>2, <1>3, <1>7, Numbers DEF old
  <2>3. hold' - hold + (opening'[s] - opening[s]) >= Due(s)' - Due(s)
    BY <1>3, <1>7, <2>1, Numbers DEF old
  <2>4. ~faulty' => /\ ~faulty
                    /\ hold' - hold + (opening'[s] - opening[s])
                         = Due(s)' - Due(s) + (shortfall' - shortfall)
    <3>1. SUFFICES ASSUME ~faulty'
                   PROVE  hold' - hold + (opening'[s] - opening[s])
                            = Due(s)' - Due(s) + (shortfall' - shortfall)
      OBVIOUS
    <3>2. hold' + reserved[s] + pending[s] + Bills(old) + Frees(old) + shortfall
            = hold + reserved'[s] + pending'[s] + Bills(m) + Frees(m) + shortfall'
      BY <3>1 DEF old
    <3>3. opening'[s] - opening[s] = 0
      BY Numbers
    <3>4. Due(s)' \in Int
      BY <1>3, <1>7, <2>1, Numbers
    <3>5. /\ hold \in Int /\ shortfall \in Int /\ Due(s) \in Int
          /\ reserved[s] \in Int /\ pending[s] \in Int
      BY Numbers
    <3>6. hold' - hold = Due(s)' - Due(s) + (shortfall' - shortfall)
      BY <1>3, <1>7, <2>1, <3>2, <3>4, <3>5
    <3>7. QED
      BY <1>7, <3>3, <3>4, <3>5, <3>6
  <2>5. QED
    BY <2>2, <2>3, <2>4 DEF Even
<1>9. QED
  BY <1>4, <1>5, <1>6, <1>8, EvenStep

\* A call that begins owes what it was begun for, and took the place of none.
Begun(op, step, amount) == [NoCall EXCEPT !.op = op, !.step = step, !.amount = amount]

LEMMA BegunCalls ==
  ASSUME NEW op, NEW step, NEW amount \in Nat,
         \/ op = "reserve" /\ step = "buckets"
         \/ op = "flush" /\ step = "buckets"
         \/ op = "release" /\ step = "unhold"
  PROVE  /\ Begun(op, step, amount) \in Calls /\ Shape(Begun(op, step, amount))
         /\ Bills(Begun(op, step, amount)) = IF op = "flush" THEN amount ELSE 0
         /\ Frees(Begun(op, step, amount)) = IF op = "release" THEN amount ELSE 0
<1> DEFINE m == Begun(op, step, amount)
<1>1. m.op = op /\ m.step = step /\ m.amount = amount
  BY DEF Begun, NoCall
<1>2. m \in Calls
  <2>1. /\ op \in {"none", "reserve", "flush", "release"}
        /\ step \in {"none", "buckets", "hold", "take", "commit", "unhold"}
    OBVIOUS
  <2>2. NoCall \in Calls
    BY DEF NoCall, Calls
  <2>3. QED
    BY <2>1, <2>2 DEF Begun, Calls
<1> HIDE DEF m
<1>3. /\ Shape(m)
      /\ Bills(m) = (IF op = "flush" THEN amount ELSE 0)
      /\ Frees(m) = (IF op = "release" THEN amount ELSE 0)
  BY <1>1 DEF Shape, Bills, Frees
<1>4. QED
  BY <1>2, <1>3 DEF m

LEMMA BeginCalls ==
  ASSUME LedgerInv, NEW s \in Sessions, NEW w \in {"tick", "close"}, ~Busy(<<s, w>>)
  PROVE  Bills(call[<<s, w>>]) = 0 /\ Frees(call[<<s, w>>]) = 0
<1>1. call[<<s, w>>].op = "none" /\ call[<<s, w>>].step = "none"
  BY DEF Busy, Callers, LedgerInv, Shape
<1>2. QED
  BY <1>1 DEF Bills, Frees

LEMMA BeginReserveKeeps ==
  ASSUME AccountAssumption, LedgerInv, NEW s \in Sessions, BeginReserve(s)
  PROVE  LedgerInv'
<1> DEFINE m == Begun("reserve", "buckets", Window)
<1>1. Window \in Nat
  BY DEF AccountAssumption
<1>2. /\ phase[s] = "running" /\ Begin(<<s, "tick">>, "reserve", "buckets", Window)
      /\ UNCHANGED <<phase, reserved, pending, balance, billed, hold, opening, spent,
                     forgiven, shortfall, faulty, expired>>
  BY DEF BeginReserve, Begin
<1>3. /\ m \in Calls /\ Shape(m) /\ call' = [call EXCEPT ![<<s, "tick">>] = m]
      /\ call' \in [Callers -> Calls]
      /\ Bills(m) = 0 /\ Frees(m) = 0
      /\ Bills(call[<<s, "tick">>]) = 0 /\ Frees(call[<<s, "tick">>]) = 0
  <2>1. ~Busy(<<s, "tick">>) /\ call' = [call EXCEPT ![<<s, "tick">>] = m]
    BY <1>2 DEF Begin, Begun
  <2>2. m \in Calls /\ Shape(m) /\ Bills(m) = 0 /\ Frees(m) = 0
    BY <1>1, BegunCalls
  <2> HIDE DEF m
  <2>3. call' \in [Callers -> Calls]
    BY <2>1, <2>2 DEF LedgerInv, TypeOK
  <2>4. Bills(call[<<s, "tick">>]) = 0 /\ Frees(call[<<s, "tick">>]) = 0
    BY <2>1, BeginCalls
  <2>5. QED
    BY <2>1, <2>2, <2>3, <2>4
<1> HIDE DEF m
<1>4. TypeOK'
  BY <1>2, <1>3 DEF LedgerInv, TypeOK
<1>5. Total(billed') = Total(billed)
  BY <1>2
<1>6. /\ UNCHANGED <<opening, spent, expired>>
      /\ \A b \in Buckets : balance'[b] + billed'[b] = balance[b] + billed[b]
      /\ Total(billed') + forgiven' + shortfall' + pending'[s] + Bills(m)
           = Total(billed) + forgiven + shortfall + pending[s] + Bills(call[<<s, "tick">>])
  BY <1>2, <1>3, <1>5
<1>7. /\ hold' + reserved[s] + pending[s] + Bills(call[<<s, "tick">>]) + Frees(call[<<s, "tick">>])
           >= hold + reserved'[s] + pending'[s] + Bills(m) + Frees(m)
  BY <1>2, <1>3, Numbers
<1>8. QED
  BY <1>2, <1>3, <1>4, <1>6, <1>7, CallStep

LEMMA BeginFlushKeeps ==
  ASSUME AccountAssumption, LedgerInv, NEW s \in Sessions, NEW w \in {"tick", "close"},
         BeginFlush(s, w), phase[s] = "running",
         phase' \in [Sessions -> {"new", "running", "closing", "closed"}], phase'[s] # "new",
         \A t \in Sessions : t # s => phase'[t] = phase[t]
  PROVE  LedgerInv'
<1> DEFINE m == Begun("flush", "buckets", pending[s])
<1>1. pending[s] \in Nat
  BY Numbers
<1>2. /\ Begin(<<s, w>>, "flush", "buckets", pending[s])
      /\ pending' = [pending EXCEPT ![s] = 0]
      /\ UNCHANGED <<reserved, balance, billed, hold, opening, spent,
                     forgiven, shortfall, faulty, expired>>
  BY DEF BeginFlush, Begin
<1>3. /\ m \in Calls /\ Shape(m) /\ call' = [call EXCEPT ![<<s, w>>] = m]
      /\ call' \in [Callers -> Calls]
      /\ Bills(m) = pending[s] /\ Frees(m) = 0
      /\ Bills(call[<<s, w>>]) = 0 /\ Frees(call[<<s, w>>]) = 0
  <2>1. ~Busy(<<s, w>>) /\ call' = [call EXCEPT ![<<s, w>>] = m]
    BY <1>2 DEF Begin, Begun
  <2>2. m \in Calls /\ Shape(m) /\ Bills(m) = pending[s] /\ Frees(m) = 0
    BY <1>1, BegunCalls
  <2> HIDE DEF m
  <2>3. call' \in [Callers -> Calls]
    BY <2>1, <2>2 DEF LedgerInv, TypeOK
  <2>4. Bills(call[<<s, w>>]) = 0 /\ Frees(call[<<s, w>>]) = 0
    BY <2>1, BeginCalls
  <2>5. QED
    BY <2>1, <2>2, <2>3, <2>4
<1> HIDE DEF m
<1>4. /\ pending' \in [Sessions -> Nat] /\ pending'[s] = 0
      /\ \A t \in Sessions : t # s => pending'[t] = pending[t]
  BY <1>2 DEF LedgerInv, TypeOK
<1>5. TypeOK'
  BY <1>2, <1>3, <1>4 DEF LedgerInv, TypeOK
<1>6. Total(billed') = Total(billed)
  BY <1>2
<1>7. /\ UNCHANGED <<opening, spent, expired>>
      /\ \A b \in Buckets : balance'[b] + billed'[b] = balance[b] + billed[b]
      /\ Total(billed') + forgiven' + shortfall' + pending'[s] + Bills(m)
           = Total(billed) + forgiven + shortfall + pending[s] + Bills(call[<<s, w>>])
  BY <1>2, <1>3, <1>4, <1>6, Numbers
<1>8. /\ hold' + reserved[s] + pending[s] + Bills(call[<<s, w>>]) + Frees(call[<<s, w>>])
           >= hold + reserved'[s] + pending'[s] + Bills(m) + Frees(m)
      /\ ~faulty' =>
           /\ ~faulty
           /\ hold' + reserved[s] + pending[s] + Bills(call[<<s, w>>]) + Frees(call[<<s, w>>])
                + shortfall
                = hold + reserved'[s] + pending'[s] + Bills(m) + Frees(m) + shortfall'
  BY <1>2, <1>3, <1>4, Numbers
<1>9. /\ \A t \in Sessions : t # s =>
           reserved'[t] = reserved[t] /\ pending'[t] = pending[t] /\ phase'[t] = phase[t]
      /\ phase'[s] # "running" => pending'[s] = 0
  BY <1>2, <1>4
<1>10. QED
  BY <1>3, <1>5, <1>7, <1>8, <1>9, CallStep

\* Where only the stage of a session changes, its accounts stay even.
LEMMA StillEven ==
  ASSUME LedgerInv, NEW s \in Sessions,
         UNCHANGED <<balance, billed, hold, opening, reserved, spent, pending, call,
                     forgiven, shortfall, faulty, expired>>
  PROVE  Alone(s) /\ Even(s) /\ \A d \in Callers : Shape(call'[d])
<1>1. \A t \in Sessions : InFlight(t)' = InFlight(t) /\ Freeing(t)' = Freeing(t)
  BY CallsRest
<1>2. Due(s)' = Due(s)
  BY <1>1 DEF Due
<1>3. Total(billed') = Total(billed)
  OBVIOUS
<1>4. /\ Due(s)' - Due(s) = 0 /\ hold' - hold = 0 /\ opening'[s] - opening[s] = 0
      /\ shortfall' - shortfall = 0 /\ spent'[s] - spent[s] = 0 /\ forgiven' - forgiven = 0
      /\ Total(billed') - Total(billed) = 0
      /\ pending'[s] + InFlight(s)' - pending[s] - InFlight(s) = 0
  BY <1>1, <1>2, <1>3, Numbers
<1>5. Even(s)
  BY <1>4 DEF Even
<1>6. QED
  BY <1>1, <1>5 DEF Alone, LedgerInv

LEMMA CloseKeeps ==
  ASSUME AccountAssumption, LedgerInv, NEW s \in Sessions, Close(s)
  PROVE  LedgerInv'
<1>1. /\ phase[s] = "running" /\ phase' \in [Sessions -> {"new", "running", "closing", "closed"}]
      /\ phase'[s] = "closing" /\ \A t \in Sessions : t # s => phase'[t] = phase[t]
  BY DEF Close, LedgerInv, TypeOK
<1>2. CASE BeginFlush(s, "close")
  BY <1>1, <1>2, BeginFlushKeeps
<1>3. CASE /\ pending[s] = 0
           /\ UNCHANGED <<balance, billed, hold, opening, reserved, spent, pending, call, ghostVars>>
  <2>1. UNCHANGED <<balance, billed, hold, opening, reserved, spent, pending, call,
                    forgiven, shortfall, faulty, expired>>
    BY <1>3 DEF ghostVars
  <2>2. TypeOK'
    BY <1>1, <2>1 DEF LedgerInv, TypeOK
  <2>3. \A t \in Sessions : Stage(t)'
    BY <1>1, <1>3 DEF Stage, LedgerInv
  <2>4. QED
    BY <2>1, <2>2, <2>3, StillEven, EvenStep
<1>4. QED
  BY <1>2, <1>3 DEF Close

LEMMA CloseReleasesKeeps ==
  ASSUME AccountAssumption, LedgerInv, NEW s \in Sessions, CloseReleases(s)
  PROVE  LedgerInv'
<1>1. /\ phase[s] = "closing" /\ phase' \in [Sessions -> {"new", "running", "closing", "closed"}]
      /\ phase'[s] = "closed" /\ \A t \in Sessions : t # s => phase'[t] = phase[t]
  BY DEF CloseReleases, LedgerInv, TypeOK
<1>2. pending[s] = 0
  BY <1>1 DEF LedgerInv, Stage
<1>3. CASE Unused(s) > 0
  <2> DEFINE m == Begun("release", "unhold", Unused(s))
  <2>1. /\ Begin(<<s, "close">>, "release", "unhold", Unused(s))
        /\ reserved' = [reserved EXCEPT ![s] = @ - Unused(s)]
        /\ UNCHANGED <<pending, balance, billed, hold, opening, spent,
                       forgiven, shortfall, faulty, expired>>
    BY <1>3 DEF CloseReleases, Begin
  <2>2. Unused(s) \in Nat /\ Unused(s) = reserved[s] - spent[s]
    BY <1>3, Numbers DEF Unused
  <2>3. /\ m \in Calls /\ Shape(m) /\ call' = [call EXCEPT ![<<s, "close">>] = m]
        /\ call' \in [Callers -> Calls]
        /\ Bills(m) = 0 /\ Frees(m) = Unused(s)
        /\ Bills(call[<<s, "close">>]) = 0 /\ Frees(call[<<s, "close">>]) = 0
    <3>1. ~Busy(<<s, "close">>) /\ call' = [call EXCEPT ![<<s, "close">>] = m]
      BY <2>1 DEF Begin, Begun
    <3>2. m \in Calls /\ Shape(m) /\ Bills(m) = 0 /\ Frees(m) = Unused(s)
      BY <2>2, BegunCalls
    <3> HIDE DEF m
    <3>3. call' \in [Callers -> Calls]
      BY <3>1, <3>2 DEF LedgerInv, TypeOK
    <3>4. Bills(call[<<s, "close">>]) = 0 /\ Frees(call[<<s, "close">>]) = 0
      BY <3>1, BeginCalls
    <3>5. QED
      BY <3>1, <3>2, <3>3, <3>4
  <2> HIDE DEF m
  <2>4. /\ reserved' \in [Sessions -> Nat] /\ reserved'[s] = spent[s]
        /\ \A t \in Sessions : t # s => reserved'[t] = reserved[t]
    <3>1. reserved[s] - Unused(s) = spent[s]
      BY <2>2, Numbers
    <3>2. reserved' = [reserved EXCEPT ![s] = spent[s]]
      BY <2>1, <3>1
    <3>3. QED
      BY <3>2, Numbers DEF LedgerInv, TypeOK
  <2>5. TypeOK'
    BY <1>1, <2>1, <2>3, <2>4 DEF LedgerInv, TypeOK
  <2>6. /\ UNCHANGED <<opening, spent, expired>>
        /\ \A b \in Buckets : balance'[b] + billed'[b] = balance[b] + billed[b]
        /\ Total(billed') + forgiven' + shortfall' + pending'[s] + Bills(m)
             = Total(billed) + forgiven + shortfall + pending[s] + Bills(call[<<s, "close">>])
    BY <2>1, <2>3
  <2>7. /\ hold' + reserved[s] + pending[s] + Bills(call[<<s, "close">>]) + Frees(call[<<s, "close">>])
             >= hold + reserved'[s] + pending'[s] + Bills(m) + Frees(m)
        /\ ~faulty' =>
             /\ ~faulty
             /\ hold' + reserved[s] + pending[s] + Bills(call[<<s, "close">>])
                  + Frees(call[<<s, "close">>]) + shortfall
                  = hold + reserved'[s] + pending'[s] + Bills(m) + Frees(m) + shortfall'
    BY <2>1, <2>2, <2>3, <2>4, Numbers
  <2>8. /\ \A t \in Sessions : t # s =>
             reserved'[t] = reserved[t] /\ pending'[t] = pending[t] /\ phase'[t] = phase[t]
        /\ phase'[s] # "new" /\ (phase'[s] # "running" => pending'[s] = 0)
    BY <1>1, <1>2, <2>1, <2>4
  <2>9. QED
    BY <2>3, <2>5, <2>6, <2>7, <2>8, CallStep
<1>4. CASE ~(Unused(s) > 0)
  <2>1. UNCHANGED <<balance, billed, hold, opening, reserved, spent, pending, call,
                    forgiven, shortfall, faulty, expired>>
    BY <1>4 DEF CloseReleases, ghostVars
  <2>2. TypeOK'
    BY <1>1, <2>1 DEF LedgerInv, TypeOK
  <2>3. \A t \in Sessions : Stage(t)'
    BY <1>1, <1>2, <2>1 DEF Stage, LedgerInv
  <2>4. QED
    BY <2>1, <2>2, <2>3, StillEven, EvenStep
<1>5. QED
  BY <1>3, <1>4

\* A call that has read something owes what it owed.
LEMMA StillOwes ==
  ASSUME AccountAssumption, LedgerInv, TypeOK',
         NEW s \in Sessions, NEW w \in {"tick", "close"}, NEW m \in Calls, Shape(m),
         call' = [call EXCEPT ![<<s, w>>] = m],
         Bills(m) = Bills(call[<<s, w>>]), Frees(m) = 0, Frees(call[<<s, w>>]) = 0,
         UNCHANGED <<balance, billed, hold, phase, opening, reserved, spent, pending,
                     forgiven, shortfall, faulty, expired>>,
         phase'[s] # "new", phase'[s] # "running" => pending'[s] = 0
  PROVE  LedgerInv'
<1>1. /\ \A b \in Buckets : balance'[b] + billed'[b] = balance[b] + billed[b]
      /\ Total(billed') + forgiven' + shortfall' + pending'[s] + Bills(m)
           = Total(billed) + forgiven + shortfall + pending[s] + Bills(call[<<s, w>>])
  OBVIOUS
<1>2. Bills(m) \in Nat
  BY CallAmounts
<1>3. /\ hold' + reserved[s] + pending[s] + Bills(call[<<s, w>>]) + Frees(call[<<s, w>>])
           >= hold + reserved'[s] + pending'[s] + Bills(m) + Frees(m)
      /\ hold' + reserved[s] + pending[s] + Bills(call[<<s, w>>]) + Frees(call[<<s, w>>])
           + shortfall
           = hold + reserved'[s] + pending'[s] + Bills(m) + Frees(m) + shortfall'
  BY <1>2, Numbers
<1>4. QED
  BY <1>1, <1>3, CallStep

\* A call that goes on, and what it owes before and after.
LEMMA ReadsBucketsKeeps ==
  ASSUME AccountAssumption, LedgerInv, NEW s \in Sessions, NEW w \in {"tick", "close"},
         ReadsBuckets(<<s, w>>)
  PROVE  LedgerInv'
<1> DEFINE c == <<s, w>>
           m == [call[c] EXCEPT !.seen = balance,
                                !.step = IF call[c].op = "reserve" THEN "hold" ELSE "commit"]
<1>1. /\ call \in [Callers -> Calls] /\ c \in Callers /\ call[c] \in Calls /\ Shape(call[c])
      /\ balance \in [Buckets -> Int]
  BY DEF LedgerInv, TypeOK, Callers
<1>2. /\ call[c].step = "buckets"
      /\ UNCHANGED <<balance, billed, hold, phase, opening, reserved, spent, pending,
                     forgiven, shortfall, faulty, expired>>
  BY DEF ReadsBuckets, sessionVars, ghostVars
<1>3. call' = [call EXCEPT ![c] = m]
  BY <1>1 DEF ReadsBuckets
<1>4. m.op = call[c].op /\ m.amount = call[c].amount
      /\ m.step = IF call[c].op = "reserve" THEN "hold" ELSE "commit"
  BY <1>1 DEF Calls
<1>5. m \in Calls
  BY <1>1 DEF Calls
<1> HIDE DEF m
<1>6. call[c].op \in {"reserve", "flush"}
  BY <1>1, <1>2 DEF Shape, Calls
<1>7. Shape(m) /\ Bills(m) = Bills(call[c]) /\ Frees(m) = 0 /\ Frees(call[c]) = 0
  BY <1>2, <1>4, <1>6 DEF Shape, Bills, Frees
<1>8. TypeOK'
  BY <1>1, <1>2, <1>3, <1>5 DEF LedgerInv, TypeOK
<1>9. phase'[s] # "new" /\ (phase'[s] # "running" => pending'[s] = 0)
  BY <1>2, <1>6 DEF LedgerInv, Stage
<1>10. QED
  BY <1>2, <1>3, <1>5, <1>7, <1>8, <1>9, StillOwes

LEMMA ReadsHoldKeeps ==
  ASSUME AccountAssumption, LedgerInv, NEW s \in Sessions, NEW w \in {"tick", "close"},
         ReadsHold(<<s, w>>)
  PROVE  LedgerInv'
<1> DEFINE c == <<s, w>>
           m == [call[c] EXCEPT !.free = TotalAvailable(call[c].seen) - hold, !.step = "take"]
<1>1. /\ call \in [Callers -> Calls] /\ c \in Callers /\ call[c] \in Calls /\ Shape(call[c])
      /\ hold \in Int
  BY DEF LedgerInv, TypeOK, Callers
<1>2. /\ call[c].op = "reserve" /\ call[c].step = "hold"
      /\ UNCHANGED <<balance, billed, hold, phase, opening, reserved, spent, pending,
                     forgiven, shortfall, faulty, expired>>
  BY DEF ReadsHold, At, sessionVars, ghostVars
<1>3. call' = [call EXCEPT ![c] = m]
  BY <1>1 DEF ReadsHold
<1>4. m.op = call[c].op /\ m.amount = call[c].amount /\ m.step = "take"
  BY <1>1 DEF Calls
<1>5. m \in Calls
  <2>1. TotalAvailable(call[c].seen) - hold \in Int
    BY <1>1 DEF TotalAvailable, Total, Positive, Buckets, Calls
  <2>2. QED
    BY <1>1, <2>1 DEF Calls
<1> HIDE DEF m
<1>6. Shape(m) /\ Bills(m) = Bills(call[c]) /\ Frees(m) = 0 /\ Frees(call[c]) = 0
  BY <1>2, <1>4 DEF Shape, Bills, Frees
<1>7. TypeOK'
  BY <1>1, <1>2, <1>3, <1>5 DEF LedgerInv, TypeOK
<1>8. phase'[s] # "new" /\ (phase'[s] # "running" => pending'[s] = 0)
  BY <1>2 DEF LedgerInv, Stage
<1>9. QED
  BY <1>2, <1>3, <1>5, <1>6, <1>7, <1>8, StillOwes

LEMMA NoCallOwes ==
  /\ NoCall \in Calls /\ Shape(NoCall) /\ Bills(NoCall) = 0 /\ Frees(NoCall) = 0
BY DEF NoCall, Calls, Shape, Bills, Frees

LEMMA TakesHoldKeeps ==
  ASSUME AccountAssumption, LedgerInv, NEW s \in Sessions, NEW w \in {"tick", "close"},
         TakesHold(<<s, w>>)
  PROVE  LedgerInv'
<1> DEFINE c == <<s, w>>
           granted == Positive(Smaller(call[c].amount, call[c].free))
<1>1. /\ call \in [Callers -> Calls] /\ c \in Callers /\ call[c] \in Calls /\ c[1] = s
  BY DEF LedgerInv, TypeOK, Callers
<1>2. granted \in Nat
  BY <1>1 DEF Positive, Smaller, Calls
<1>3. /\ call[c].op = "reserve" /\ call[c].step = "take"
      /\ hold' = hold + granted /\ call' = [call EXCEPT ![c] = NoCall]
      /\ UNCHANGED <<balance, billed, phase, opening, spent, pending,
                     forgiven, shortfall, expired>>
      /\ \/ reserved' = [reserved EXCEPT ![s] = @ + granted] /\ UNCHANGED faulty
         \/ faulty' = TRUE /\ UNCHANGED reserved
  BY <1>1 DEF TakesHold, At
<1> HIDE DEF granted
<1>4. Bills(call[c]) = 0 /\ Frees(call[c]) = 0
  BY <1>3 DEF Bills, Frees
<1>5. phase'[s] # "new" /\ (phase'[s] # "running" => pending'[s] = 0)
  BY <1>3 DEF LedgerInv, Stage
<1>6. /\ reserved' \in [Sessions -> Nat]
      /\ \A t \in Sessions : t # s => reserved'[t] = reserved[t]
      /\ \/ reserved'[s] = reserved[s] + granted /\ UNCHANGED faulty
         \/ reserved'[s] = reserved[s] /\ faulty'
  BY <1>2, <1>3 DEF LedgerInv, TypeOK
<1>7. \A t \in Sessions : spent[t] <= reserved'[t]
  BY <1>2, <1>6 DEF LedgerInv, TypeOK
<1>8. TypeOK'
  <2>1. call' \in [Callers -> Calls]
    BY <1>1, <1>3, NoCallOwes
  <2>2. hold' \in Int
    BY <1>2, <1>3, Numbers
  <2>3. faulty' \in BOOLEAN
    BY <1>3 DEF LedgerInv, TypeOK
  <2>4. QED
    BY <1>3, <1>6, <1>7, <2>1, <2>2, <2>3 DEF LedgerInv, TypeOK
<1>9. /\ \A b \in Buckets : balance'[b] + billed'[b] = balance[b] + billed[b]
      /\ Total(billed') + forgiven' + shortfall' + pending'[s] + Bills(NoCall)
           = Total(billed) + forgiven + shortfall + pending[s] + Bills(call[c])
  BY <1>3, <1>4, NoCallOwes
<1>10. hold' + reserved[s] + pending[s] + Bills(call[c]) + Frees(call[c])
           >= hold + reserved'[s] + pending'[s] + Bills(NoCall) + Frees(NoCall)
  BY <1>2, <1>3, <1>4, <1>6, NoCallOwes, Numbers
<1>11. ~faulty' =>
         /\ ~faulty
         /\ hold' + reserved[s] + pending[s] + Bills(call[c]) + Frees(call[c]) + shortfall
              = hold + reserved'[s] + pending'[s] + Bills(NoCall) + Frees(NoCall) + shortfall'
  <2>1. SUFFICES ASSUME ~faulty'
                 PROVE  /\ ~faulty
                        /\ hold' + reserved[s] + pending[s] + Bills(call[c]) + Frees(call[c]) + shortfall
                             = hold + reserved'[s] + pending'[s] + Bills(NoCall) + Frees(NoCall) + shortfall'
    OBVIOUS
  <2>2. reserved'[s] = reserved[s] + granted /\ UNCHANGED faulty
    BY <1>6, <2>1
  <2>3. QED
    BY <1>2, <1>3, <1>4, <2>1, <2>2, NoCallOwes, Numbers
<1>12. QED
  BY <1>3, <1>5, <1>6, <1>8, <1>9, <1>10, <1>11, NoCallOwes, CallStep

\* What a plan covers is taken off the balance and added to the ledger.
LEMMA PlanMoves ==
  ASSUME NEW seen \in [Buckets -> Int], NEW amount \in Nat
  PROVE  /\ PlanSpend(seen, amount) \in [Buckets -> Nat]
         /\ Covered(PlanSpend(seen, amount)) \in Nat
         /\ Covered(PlanSpend(seen, amount)) <= amount
<1> DEFINE m == [op |-> "flush", step |-> "unhold", amount |-> amount, free |-> 0, seen |-> seen]
<1>1. m \in Calls
  BY DEF Calls
<1>2. Frees(m) = Covered(PlanSpend(seen, amount))
  BY DEF Frees
<1>3. Frees(m) \in Nat /\ Frees(m) <= m.amount
  BY <1>1, CallAmounts
<1>4. QED
  BY <1>2, <1>3, PlanSpendIsHonest

LEMMA CommitsKeeps ==
  ASSUME AccountAssumption, LedgerInv, NEW s \in Sessions, NEW w \in {"tick", "close"},
         Commits(<<s, w>>)
  PROVE  LedgerInv'
<1> DEFINE c == <<s, w>>
           m == [call[c] EXCEPT !.step = "unhold"]
           plan == PlanSpend(call[c].seen, call[c].amount)
<1>1. /\ call \in [Callers -> Calls] /\ c \in Callers /\ call[c] \in Calls
      /\ call[c].seen \in [Buckets -> Int] /\ call[c].amount \in Nat
  BY DEF LedgerInv, TypeOK, Callers, Calls
<1>2. plan \in [Buckets -> Nat] /\ Covered(plan) \in Nat /\ Covered(plan) <= call[c].amount
  BY <1>1, PlanMoves
<1>3. /\ call[c].op = "flush" /\ call[c].step = "commit"
      /\ billed' = [b \in Buckets |-> billed[b] + plan[b]]
      /\ balance' = [b \in Buckets |-> balance[b] - plan[b]]
      /\ shortfall' = shortfall + call[c].amount - Covered(plan)
      /\ UNCHANGED <<hold, phase, opening, reserved, spent, pending, forgiven, faulty, expired>>
  BY DEF Commits, At, sessionVars
<1>4. call' = [call EXCEPT ![c] = m]
  BY <1>1 DEF Commits
<1>5. m \in Calls /\ m.op = "flush" /\ m.step = "unhold" /\ m.amount = call[c].amount
      /\ m.seen = call[c].seen
  BY <1>1, <1>3 DEF Calls
<1> HIDE DEF m
<1>6. /\ Shape(m) /\ Bills(m) = 0 /\ Frees(m) = Covered(plan)
      /\ Bills(call[c]) = call[c].amount /\ Frees(call[c]) = 0
  BY <1>3, <1>5 DEF Shape, Bills, Frees
<1> HIDE DEF plan
<1>7. /\ \A b \in Buckets : /\ balance[b] \in Int /\ billed[b] \in Nat /\ plan[b] \in Nat
                            /\ balance'[b] = balance[b] - plan[b] /\ billed'[b] = billed[b] + plan[b]
  BY <1>2, <1>3, Numbers
<1>8. billed' \in [Buckets -> Nat] /\ balance' \in [Buckets -> Int]
  BY <1>3, <1>7
<1>9. \A b \in Buckets : balance'[b] + billed'[b] = balance[b] + billed[b]
  BY <1>7
<1>10. Total(billed') = Total(billed) + Covered(plan)
  BY <1>7 DEF Total, Covered, Buckets
<1>11. TypeOK'
  <2>1. shortfall' \in Nat
    BY <1>1, <1>2, <1>3, Numbers
  <2>2. call' \in [Callers -> Calls]
    BY <1>1, <1>4, <1>5
  <2>3. QED
    BY <1>3, <1>8, <2>1, <2>2 DEF LedgerInv, TypeOK
<1>12. phase'[s] # "new" /\ (phase'[s] # "running" => pending'[s] = 0)
  BY <1>3 DEF LedgerInv, Stage
<1>13. Total(billed') + forgiven' + shortfall' + pending'[s] + Bills(m)
           = Total(billed) + forgiven + shortfall + pending[s] + Bills(call[c])
  BY <1>1, <1>2, <1>3, <1>6, <1>10, Numbers
<1>14. /\ hold' + reserved[s] + pending[s] + Bills(call[c]) + Frees(call[c])
            >= hold + reserved'[s] + pending'[s] + Bills(m) + Frees(m)
       /\ hold' + reserved[s] + pending[s] + Bills(call[c]) + Frees(call[c]) + shortfall
            = hold + reserved'[s] + pending'[s] + Bills(m) + Frees(m) + shortfall'
  BY <1>1, <1>2, <1>3, <1>6, Numbers
<1>15. QED
  BY <1>3, <1>4, <1>5, <1>6, <1>9, <1>11, <1>12, <1>13, <1>14, CallStep

LEMMA UnholdsKeeps ==
  ASSUME AccountAssumption, LedgerInv, NEW s \in Sessions, NEW w \in {"tick", "close"},
         Unholds(<<s, w>>)
  PROVE  LedgerInv'
<1> DEFINE c == <<s, w>>
<1>1. /\ call \in [Callers -> Calls] /\ c \in Callers /\ call[c] \in Calls /\ Shape(call[c])
  BY DEF LedgerInv, TypeOK, Callers
<1>2. /\ call[c].step = "unhold" /\ hold' = hold - Frees(call[c])
      /\ call' = [call EXCEPT ![c] = NoCall]
      /\ UNCHANGED <<balance, billed, phase, opening, reserved, spent, pending,
                     forgiven, shortfall, faulty, expired>>
  BY DEF Unholds, Frees, sessionVars, ghostVars
<1>3. call[c].op \in {"flush", "release"}
  BY <1>1, <1>2 DEF Shape, Calls
<1>4. Bills(call[c]) = 0 /\ Frees(call[c]) \in Nat
  BY <1>1, <1>2, <1>3, CallAmounts DEF Bills
<1>5. TypeOK'
  <2>1. hold' \in Int
    BY <1>2, <1>4, Numbers
  <2>2. QED
    BY <1>1, <1>2, <2>1, NoCallOwes DEF LedgerInv, TypeOK
<1>6. phase'[s] # "new" /\ (phase'[s] # "running" => pending'[s] = 0)
  BY <1>2, <1>3 DEF LedgerInv, Stage
<1>7. /\ \A b \in Buckets : balance'[b] + billed'[b] = balance[b] + billed[b]
      /\ Total(billed') + forgiven' + shortfall' + pending'[s] + Bills(NoCall)
           = Total(billed) + forgiven + shortfall + pending[s] + Bills(call[c])
  BY <1>2, <1>4, NoCallOwes
<1>8. /\ hold' + reserved[s] + pending[s] + Bills(call[c]) + Frees(call[c])
            >= hold + reserved'[s] + pending'[s] + Bills(NoCall) + Frees(NoCall)
      /\ hold' + reserved[s] + pending[s] + Bills(call[c]) + Frees(call[c]) + shortfall
            = hold + reserved'[s] + pending'[s] + Bills(NoCall) + Frees(NoCall) + shortfall'
  BY <1>2, <1>4, NoCallOwes, Numbers
<1>9. QED
  BY <1>2, <1>5, <1>6, <1>7, <1>8, NoCallOwes, CallStep

LEMMA FailsKeeps ==
  ASSUME AccountAssumption, LedgerInv, NEW s \in Sessions, NEW w \in {"tick", "close"},
         Fails(<<s, w>>)
  PROVE  LedgerInv'
<1> DEFINE c == <<s, w>>
<1>1. /\ call \in [Callers -> Calls] /\ c \in Callers /\ call[c] \in Calls /\ Shape(call[c])
  BY DEF LedgerInv, TypeOK, Callers
<1>2. Bills(call[c]) \in Nat /\ Frees(call[c]) \in Nat
  BY <1>1, CallAmounts
<1>3. /\ call[c].op # "none" /\ call' = [call EXCEPT ![c] = NoCall] /\ faulty' = TRUE
      /\ UNCHANGED <<balance, billed, hold, phase, opening, reserved, spent, pending,
                     shortfall, expired>>
  BY DEF Fails, Busy, sessionVars
<1>4. forgiven' = forgiven + Bills(call[c])
  BY Numbers DEF Fails, Bills
<1>5. TypeOK'
  <2>1. forgiven' \in Nat
    BY <1>2, <1>4, Numbers
  <2>2. QED
    BY <1>1, <1>3, <2>1, NoCallOwes DEF LedgerInv, TypeOK
<1>6. phase'[s] # "new" /\ (phase'[s] # "running" => pending'[s] = 0)
  BY <1>3 DEF LedgerInv, Stage
<1>7. /\ \A b \in Buckets : balance'[b] + billed'[b] = balance[b] + billed[b]
      /\ Total(billed') + forgiven' + shortfall' + pending'[s] + Bills(NoCall)
           = Total(billed) + forgiven + shortfall + pending[s] + Bills(call[c])
  BY <1>2, <1>3, <1>4, NoCallOwes, Numbers
<1>8. hold' + reserved[s] + pending[s] + Bills(call[c]) + Frees(call[c])
            >= hold + reserved'[s] + pending'[s] + Bills(NoCall) + Frees(NoCall)
  BY <1>2, <1>3, NoCallOwes, Numbers
<1>9. QED
  BY <1>3, <1>5, <1>6, <1>7, <1>8, NoCallOwes, CallStep

\* Where no session, call or balance changes, the sums do not.
LEMMA SumsRest ==
  ASSUME LedgerInv, UNCHANGED <<balance, billed, sessionVars, call, forgiven, shortfall>>,
         hold' \in Int, faulty' \in BOOLEAN, expired' \in BOOLEAN,
         ~expired' => /\ ~expired /\ hold' = hold
                      /\ (~faulty' => ~faulty)
  PROVE  LedgerInv'
<1>1. UNCHANGED <<balance, billed, phase, opening, reserved, spent, pending, call, forgiven, shortfall>>
  BY DEF sessionVars
<1>2. \A s \in Sessions : InFlight(s)' = InFlight(s) /\ Freeing(s)' = Freeing(s)
  BY <1>1, CallsRest
<1>3. Unbilled' = Unbilled /\ Dues' = Dues
  BY <1>1, <1>2 DEF Unbilled, Dues, Due
<1>4. /\ SumOf(spent)' = SumOf(spent) /\ SumOf(opening)' = SumOf(opening)
      /\ SumOf(Unbilled)' = SumOf(Unbilled) /\ SumOf(Dues)' = SumOf(Dues)
  <2>1. /\ SumOf(spent)' = SumOf(spent') /\ SumOf(opening)' = SumOf(opening')
        /\ SumOf(Unbilled)' = SumOf(Unbilled') /\ SumOf(Dues)' = SumOf(Dues')
    OBVIOUS
  <2>2. QED
    BY <1>1, <1>3, <2>1
<1>5. Total(billed)' = Total(billed)
  BY <1>1 DEF Total
<1>6. TypeOK'
  BY <1>1 DEF LedgerInv, TypeOK
<1>7. \A s \in Sessions : Stage(s)'
  BY <1>1 DEF LedgerInv, Stage
<1>8. QED
  BY <1>1, <1>4, <1>5, <1>6, <1>7 DEF LedgerInv

LEMMA LedgerStep == LedgerInv /\ [Next]_vars => LedgerInv'
<1> SUFFICES ASSUME LedgerInv, [Next]_vars PROVE LedgerInv'
  OBVIOUS
<1>1. ASSUME NEW s \in Sessions, Start(s) PROVE LedgerInv'
  BY <1>1, AccountAssumption, StartKeeps
<1>2. ASSUME NEW s \in Sessions, Burn(s) PROVE LedgerInv'
  BY <1>2, AccountAssumption, BurnKeeps
<1>3. ASSUME NEW s \in Sessions, BeginReserve(s) PROVE LedgerInv'
  BY <1>3, AccountAssumption, BeginReserveKeeps
<1>4. ASSUME NEW s \in Sessions, TickFlushes(s) PROVE LedgerInv'
  <2>1. /\ BeginFlush(s, "tick") /\ phase[s] = "running" /\ phase' = phase
        /\ phase' \in [Sessions -> {"new", "running", "closing", "closed"}]
    BY <1>4 DEF TickFlushes, LedgerInv, TypeOK
  <2>2. QED
    BY <2>1, AccountAssumption, BeginFlushKeeps
<1>5. ASSUME NEW s \in Sessions, Close(s) PROVE LedgerInv'
  BY <1>5, AccountAssumption, CloseKeeps
<1>6. ASSUME NEW s \in Sessions, CloseReleases(s) PROVE LedgerInv'
  BY <1>6, AccountAssumption, CloseReleasesKeeps
<1>7. ASSUME NEW c \in Callers,
             \/ ReadsBuckets(c) \/ ReadsHold(c) \/ TakesHold(c)
             \/ Commits(c) \/ Unholds(c) \/ Fails(c)
      PROVE  LedgerInv'
  <2>1. PICK s \in Sessions, w \in {"tick", "close"} : c = <<s, w>>
    BY DEF Callers
  <2>2. CASE ReadsBuckets(c)
    BY <2>1, <2>2, AccountAssumption, ReadsBucketsKeeps
  <2>3. CASE ReadsHold(c)
    BY <2>1, <2>3, AccountAssumption, ReadsHoldKeeps
  <2>4. CASE TakesHold(c)
    BY <2>1, <2>4, AccountAssumption, TakesHoldKeeps
  <2>5. CASE Commits(c)
    BY <2>1, <2>5, AccountAssumption, CommitsKeeps
  <2>6. CASE Unholds(c)
    BY <2>1, <2>6, AccountAssumption, UnholdsKeeps
  <2>7. CASE Fails(c)
    BY <2>1, <2>7, AccountAssumption, FailsKeeps
  <2>8. QED
    BY <1>7, <2>2, <2>3, <2>4, <2>5, <2>6, <2>7
<1>8. CASE HoldExpires
  BY <1>8, SumsRest DEF HoldExpires, LedgerInv, TypeOK
<1>9. CASE UNCHANGED vars
  BY <1>9, SumsRest DEF vars, ghostVars, LedgerInv, TypeOK
<1>10. QED
  BY <1>1, <1>2, <1>3, <1>4, <1>5, <1>6, <1>7, <1>8, <1>9 DEF Next

LEMMA LedgerIsKept == Spec => []LedgerInv
BY LedgerInit, LedgerStep, PTL DEF Spec

\* The types of the account hold.
THEOREM AccountTypes == Spec => []TypeOK
<1>1. LedgerInv => TypeOK
  BY DEF LedgerInv
<1>2. QED
  BY <1>1, LedgerIsKept, PTL

\* Whatever the sessions, the windows and the grants, every credit spent is billed,
\* forgiven, uncovered or on its way, and the balance is the grants less what is billed,
\* through every overlap of the calls and every failure (metering.ts:316-317).
THEOREM AccountBooksBalance == Spec => []BooksBalance
<1>1. LedgerInv => BooksBalance
  <2> SUFFICES ASSUME LedgerInv PROVE BooksBalance
    OBVIOUS
  <2>1. SumOf(Unbilled) = SumOf([s \in Sessions |-> pending[s] + InFlight(s)])
    BY DEF Unbilled
  <2>2. QED
    BY <2>1 DEF LedgerInv, BooksBalance
<1>2. QED
  BY <1>1, LedgerIsKept, PTL

\* Until its time to live ends it, the hold of a user with any number of sessions covers,
\* with their opening windows, all they have been promised (metering.ts:315-317, 373-374).
THEOREM AccountHoldCovers == Spec => []HoldCovers
<1>1. LedgerInv => HoldCovers
  <2> SUFFICES ASSUME LedgerInv, ~expired PROVE hold + SumOf(opening) >= Promised
    BY DEF HoldCovers
  <2> DEFINE promised == [s \in Sessions |-> reserved[s] - spent[s] + pending[s] + InFlight(s)]
  <2>1. IsFiniteSet(Sessions) /\ DueTypes
    BY AccountAssumption, DuesAreNumbers DEF LedgerInv, AccountAssumption
  <2>2. \A s \in Sessions : promised[s] \in Int /\ promised[s] <= Dues[s]
    BY Numbers DEF Dues, Due
  <2>3. promised \in [Sessions -> Int] /\ Dues \in [Sessions -> Int]
    BY <2>1, <2>2 DEF DueTypes
  <2>4. Promised = SumOf(promised)
    BY DEF Promised
  <2> HIDE DEF promised
  <2>5. SumOver(promised, Sessions) <= SumOver(Dues, Sessions)
    BY <2>1, <2>2, <2>3, SumGrows
  <2>6. /\ SumOver(promised, Sessions) \in Int /\ SumOver(Dues, Sessions) \in Int
        /\ SumOver(opening, Sessions) \in Int /\ hold \in Int
    BY <2>1, <2>3, SumType DEF DueTypes, LedgerInv, TypeOK
  <2>7. hold + SumOf(opening) >= SumOf(Dues)
    BY DEF LedgerInv
  <2>8. QED
    BY <2>4, <2>5, <2>6, <2>7, SumOfIsSum
<1>2. QED
  BY <1>1, LedgerIsKept, PTL

\* When every session is closed and no call has failed, what is left on the hold is the
\* uncovered credits and the grants that came after the release, less the opening windows
\* (metering.ts:174-178, 378-382).
THEOREM AccountHoldSettles == Spec => []HoldSettles
<1>1. LedgerInv => HoldSettles
  <2> SUFFICES ASSUME LedgerInv, \A s \in Sessions : phase[s] \in {"new", "closed"},
                      \A c \in Callers : ~Busy(c), ~faulty, ~expired
               PROVE  hold = shortfall + SumOf([s \in Sessions |-> reserved[s] - spent[s]])
                               - SumOf(opening)
    BY DEF HoldSettles
  <2>1. \A s \in Sessions : pending[s] = 0
    BY DEF LedgerInv, Stage
  <2>2. ASSUME NEW s \in Sessions PROVE Due(s) = reserved[s] - spent[s]
    <3>1. \A w \in {"tick", "close"} : Bills(call[<<s, w>>]) = 0 /\ Frees(call[<<s, w>>]) = 0
      BY BeginCalls DEF Callers
    <3>2. InFlight(s) = 0 /\ Freeing(s) = 0
      BY <3>1, CarriedIsBills DEF InFlight, Freeing
    <3>3. QED
      BY <2>1, <3>2, Numbers DEF Due
  <2>3. Dues = [s \in Sessions |-> reserved[s] - spent[s]]
    BY <2>2 DEF Dues
  <2>4. hold + SumOf(opening) = SumOf(Dues) + shortfall
    BY DEF LedgerInv
  <2>5. SumOf(opening) \in Int /\ SumOf(Dues) \in Int /\ hold \in Int /\ shortfall \in Int
    <3>1. IsFiniteSet(Sessions) /\ DueTypes
      BY AccountAssumption, DuesAreNumbers DEF LedgerInv, AccountAssumption
    <3>2. QED
      BY <3>1, SumType, SumOfIsSum DEF DueTypes, LedgerInv, TypeOK
  <2>6. QED
    BY <2>3, <2>4, <2>5
<1>2. QED
  BY <1>1, LedgerIsKept, PTL

-----------------------------------------------------------------------------
(* Billing                                                                 *)

\* What is in the ledger: the trial, what the flushes took and what was bought.
TrialEntry(f) ==
  f.key = <<"trial_grant">> /\ f.delta = TrialCredits /\ f.bucket = "trial" /\ f.expires = Never
FlushEntry(f) ==
  /\ f.delta \in Int /\ f.delta < 0 /\ f.bucket \in Buckets /\ f.expires = Never
  /\ \E k \in Flushes : flushing[k].step = "done" /\ f.key = <<"sess", k, f.bucket>>
BoughtEntry(f, e, i) ==
  /\ e \in Events /\ e.type = "transaction.completed" /\ i \in Listed(e)
  /\ f.key = <<e.id, i>> /\ f.delta = Entry(e, i).credits /\ f.bucket = Entry(e, i).kind
  /\ f.expires \in Nat
KnownEntry(f) == TrialEntry(f) \/ FlushEntry(f) \/ \E e \in Events, i \in Nat : BoughtEntry(f, e, i)

Ids == {e.id : e \in Events} \cup {"none"}
Webhooks == [event : Ids, step : {"idle", "received", "applied", "summed"},
             sums : [Buckets -> Int], missed : SUBSET Causes]
Billings == [step : {"none", "read", "done"}, plan : [Buckets -> Nat], stale : BOOLEAN]
LinkSteps == {"none", "sent", "read", "verified", "granted", "done", "failed"}

\* Types, and keys that are taken once.
Forms ==
  /\ now \in Nat /\ row \in [Buckets -> Int] /\ missed \subseteq Causes /\ overdrawn \in [Buckets -> Nat]
  /\ flushing \in [Flushes -> Billings] /\ faults \in Nat
  /\ user \in [registered : BOOLEAN, verified : BOOLEAN, trialGranted : BOOLEAN,
               planCode : {user.planCode}]
  /\ handler \in [Handlers -> Webhooks]
  /\ verify \in [Tokens -> [step : LinkSteps, seen : BOOLEAN]]
  /\ IsFiniteSet(ledger)
  /\ \A f \in ledger : KnownEntry(f)
  /\ \A f, g \in ledger : f.key = g.key => f = g

\* An entry of the ledger moves a bucket by credits, and expires if it ever does at a time.
LEMMA EntryTypes ==
  ASSUME BillingAssumption, NEW f, KnownEntry(f)
  PROVE  f.delta \in Int /\ f.delta # 0 /\ f.bucket \in Buckets /\ f.expires \in Nat
<1>1. TrialCredits \in Nat /\ TrialCredits # 0 /\ Never \in Nat
  BY DEF BillingAssumption
<1>2. CASE TrialEntry(f)
  BY <1>1, <1>2 DEF TrialEntry, Buckets
<1>3. CASE FlushEntry(f)
  BY <1>1, <1>3 DEF FlushEntry
<1>4. ASSUME NEW e \in Events, NEW i \in Nat, BoughtEntry(f, e, i)
      PROVE  f.delta \in Int /\ f.delta # 0 /\ f.bucket \in Buckets /\ f.expires \in Nat
  <2>1. Entry(e, i).kind \in {"subscription", "topup"} /\ Entry(e, i).credits \in Nat \ {0}
    BY <1>4 DEF BoughtEntry, Listed, Entry, BillingAssumption
  <2>2. QED
    BY <1>4, <2>1 DEF BoughtEntry, Buckets
<1>5. QED
  BY <1>2, <1>3, <1>4 DEF KnownEntry

\* Entries with new keys keep the ledger in form.
LEMMA InsertedForms ==
  ASSUME IsFiniteSet(ledger), \A f, g \in ledger : f.key = g.key => f = g,
         NEW entries, IsFiniteSet(entries), \A f, g \in entries : f.key = g.key => f = g
  PROVE  /\ IsFiniteSet(Inserted(entries))
         /\ \A f, g \in Inserted(entries) : f.key = g.key => f = g
         /\ \A f \in entries : \E g \in Inserted(entries) : g.key = f.key
         /\ ledger \subseteq Inserted(entries) /\ Inserted(entries) \subseteq ledger \cup entries
<1>1. IsFiniteSet(Inserted(entries))
  <2>1. IsFiniteSet({e \in entries : ~Taken(e.key)})
    BY FS_Subset
  <2>2. QED
    BY <2>1, FS_Union DEF Inserted
<1>2. \A f, g \in Inserted(entries) : f.key = g.key => f = g
  BY DEF Inserted, Taken
<1>3. \A f \in entries : \E g \in Inserted(entries) : g.key = f.key
  BY DEF Inserted, Taken
<1>4. QED
  BY <1>1, <1>2, <1>3 DEF Inserted

\* What an event grants is as much as its items, and each has a key.
LEMMA GrantsForms ==
  ASSUME BillingAssumption, now \in Nat, NEW e \in Events
  PROVE  /\ IsFiniteSet(Grants(e))
         /\ \A f, g \in Grants(e) : f.key = g.key => f = g
         /\ \A f \in Grants(e) : \E i \in Nat : BoughtEntry(f, e, i)
         /\ e.type = "transaction.completed" =>
              \A i \in Listed(e) : \E f \in Grants(e) : f.key = <<e.id, i>>
<1> DEFINE grant(i) == [key |-> <<e.id, i>>, delta |-> Entry(e, i).credits, bucket |-> Entry(e, i).kind,
                        expires |-> IF Entry(e, i).kind = "topup" THEN now + TopUpValidity ELSE e.periodEnd]
<1>1. CASE e.type # "transaction.completed"
  BY <1>1, FS_EmptySet DEF Grants
<1>2. CASE e.type = "transaction.completed"
  <2>1. Grants(e) = {grant(i) : i \in Listed(e)}
    BY <1>2 DEF Grants
  <2>2. Listed(e) \subseteq Nat /\ IsFiniteSet(Listed(e))
    <3>1. Len(e.items) \in Nat
      BY DEF BillingAssumption
    <3>2. IsFiniteSet(1..Len(e.items)) /\ 1..Len(e.items) \subseteq Nat
      <4> DEFINE n == Len(e.items)
      <4> HIDE DEF n
      <4>1. n \in Int
        BY <3>1 DEF n
      <4>2. IsFiniteSet(1..n)
        BY <4>1, FS_Interval
      <4>3. QED
        BY <4>1, <4>2 DEF n
    <3>3. Listed(e) \in SUBSET (1..Len(e.items))
      BY DEF Listed
    <3>4. QED
      BY <3>2, <3>3, FS_Subset
  <2>3. \A i \in Listed(e) : grant(i).key = <<e.id, i>>
    OBVIOUS
  <2>4. \A i \in Listed(e) : BoughtEntry(grant(i), e, i)
    <3>1. TopUpValidity \in Nat /\ e.periodEnd \in Nat
      BY DEF BillingAssumption
    <3>2. QED
      BY <1>2, <3>1 DEF BoughtEntry
  <2>5. IsFiniteSet(Grants(e))
    <3> DEFINE f == [i \in Listed(e) |-> grant(i)]
    <3>1. f \in Surjection(Listed(e), Grants(e))
      <4> HIDE DEF grant
      <4>1. QED
        BY <2>1 DEF Surjection
    <3> HIDE DEF f
    <3>2. QED
      BY <2>2, <3>1, FS_Surjection
  <2> HIDE DEF grant
  <2>6. \A f, g \in Grants(e) : f.key = g.key => f = g
    BY <2>1, <2>3
  <2>7. QED
    BY <2>1, <2>2, <2>3, <2>4, <2>5, <2>6
<1>3. QED
  BY <1>1, <1>2

\* A handler that is overtaken is where it was.
LEMMA OvertakenForms ==
  ASSUME NEW hs \in [Handlers -> Webhooks], NEW cause \in Causes
  PROVE  /\ Overtaken(hs, cause) \in [Handlers -> Webhooks]
         /\ \A h \in Handlers :
              /\ Overtaken(hs, cause)[h].event = hs[h].event
              /\ Overtaken(hs, cause)[h].step = hs[h].step
              /\ Overtaken(hs, cause)[h].sums = hs[h].sums
              /\ hs[h].step = "summed" => Overtaken(hs, cause)[h].missed = hs[h].missed \cup {cause}
<1>1. ASSUME NEW h \in Handlers
      PROVE  /\ Overtaken(hs, cause)[h] \in Webhooks
             /\ Overtaken(hs, cause)[h].event = hs[h].event
             /\ Overtaken(hs, cause)[h].step = hs[h].step
             /\ Overtaken(hs, cause)[h].sums = hs[h].sums
             /\ hs[h].step = "summed" => Overtaken(hs, cause)[h].missed = hs[h].missed \cup {cause}
  <2>1. hs[h] \in Webhooks
    OBVIOUS
  <2>2. Overtaken(hs, cause)[h] = IF hs[h].step = "summed" THEN [hs[h] EXCEPT !.missed = @ \cup {cause}] ELSE hs[h]
    BY DEF Overtaken
  <2>3. QED
    BY <2>1, <2>2 DEF Webhooks
<1>2. Overtaken(hs, cause) = [h \in Handlers |-> Overtaken(hs, cause)[h]]
  BY DEF Overtaken
<1>3. QED
  BY <1>1, <1>2

LEMMA FormsInit == BillingInit => Forms
<1> SUFFICES ASSUME BillingInit PROVE Forms
  OBVIOUS
<1>1. IsFiniteSet(ledger) /\ ledger = {}
  BY FS_EmptySet DEF BillingInit
<1>2. row \in [Buckets -> Int]
  BY DEF BillingInit, Zeros
<1>3. Idle \in Webhooks
  BY DEF Idle, Webhooks, Zeros, Ids
<1>4. handler \in [Handlers -> Webhooks]
  BY <1>3 DEF BillingInit
<1>5. /\ now \in Nat /\ missed \subseteq Causes /\ overdrawn \in [Buckets -> Nat]
      /\ flushing \in [Flushes -> Billings] /\ faults \in Nat
  BY DEF BillingInit, Zeros, Billings
<1>6. user \in [registered : BOOLEAN, verified : BOOLEAN, trialGranted : BOOLEAN,
               planCode : {user.planCode}]
  BY DEF BillingInit
<1>7. verify \in [Tokens -> [step : LinkSteps, seen : BOOLEAN]]
  BY DEF BillingInit, LinkSteps
<1>8. QED
  BY <1>1, <1>2, <1>4, <1>5, <1>6, <1>7 DEF Forms

\* The ledger stays in form where entries of known kinds are inserted.
LEMMA KnownStays ==
  ASSUME Forms, NEW entries, IsFiniteSet(entries), \A f, g \in entries : f.key = g.key => f = g,
         \A k \in Flushes : flushing[k].step = "done" => flushing'[k].step = "done",
         \A f \in entries : KnownEntry(f)',
         ledger' = Inserted(entries)
  PROVE  /\ IsFiniteSet(ledger') /\ \A f \in ledger' : KnownEntry(f)'
         /\ \A f, g \in ledger' : f.key = g.key => f = g
         /\ ledger \subseteq ledger' /\ ledger' \subseteq ledger \cup entries
         /\ \A f \in entries : \E g \in ledger' : g.key = f.key
<1>1. IsFiniteSet(ledger) /\ \A f, g \in ledger : f.key = g.key => f = g
  BY DEF Forms
<1>2. /\ IsFiniteSet(ledger') /\ \A f, g \in ledger' : f.key = g.key => f = g
      /\ ledger \subseteq ledger' /\ ledger' \subseteq ledger \cup entries
      /\ \A f \in entries : \E g \in ledger' : g.key = f.key
  BY <1>1, InsertedForms
<1>3. ASSUME NEW f \in ledger PROVE KnownEntry(f)'
  <2>1. KnownEntry(f)
    BY DEF Forms
  <2>2. FlushEntry(f) => FlushEntry(f)'
    BY DEF FlushEntry
  <2>3. QED
    BY <2>1, <2>2 DEF KnownEntry, TrialEntry, BoughtEntry, Listed, Entry
<1>4. QED
  BY <1>2, <1>3

LEMMA KnownRests ==
  ASSUME Forms, UNCHANGED ledger,
         \A k \in Flushes : flushing[k].step = "done" => flushing'[k].step = "done"
  PROVE  /\ IsFiniteSet(ledger') /\ \A f \in ledger' : KnownEntry(f)'
         /\ \A f, g \in ledger' : f.key = g.key => f = g
<1>1. IsFiniteSet({}) /\ Inserted({}) = ledger
  BY FS_EmptySet DEF Inserted
<1>2. QED
  BY <1>1, KnownStays

\* What a flush writes: an entry for every bucket that pays.
FlushEntries(k) ==
  {[key |-> <<"sess", k, b>>, delta |-> 0 - flushing[k].plan[b], bucket |-> b, expires |-> Never]
   : b \in {c \in Buckets : flushing[k].plan[c] > 0}}

\* A flush has planned no more of a bucket than the row it read had of it.
LEMMA FlushReadsForms ==
  ASSUME BillingAssumption, Forms, NEW k \in Flushes, FlushReads(k)
  PROVE  /\ flushing'[k] \in Billings /\ flushing' \in [Flushes -> Billings]
         /\ flushing'[k].step = "read" /\ flushing'[k].stale = ("flush" \in missed)
         /\ \A b \in Buckets : flushing'[k].plan[b] <= Positive(row[b])
         /\ \A m \in Flushes : m # k => flushing'[m] = flushing[m]
<1> DEFINE plan == PlanSpend(row, FlushAmount)
           new == [step |-> "read", plan |-> plan, stale |-> "flush" \in missed]
<1>1. row \in [Buckets -> Int] /\ FlushAmount \in Nat /\ flushing \in [Flushes -> Billings]
  BY DEF Forms, BillingAssumption
<1>2. plan \in [Buckets -> Nat] /\ \A b \in Buckets : plan[b] <= Positive(row[b])
  BY <1>1, PlanSpendIsHonest DEF HonestPlan
<1>3. flushing' = [flushing EXCEPT ![k] = new]
  BY DEF FlushReads
<1> HIDE DEF plan
<1>4. ("flush" \in missed) \in BOOLEAN
  OBVIOUS
<1>5. new \in Billings /\ new.step = "read" /\ new.plan = plan /\ new.stale = ("flush" \in missed)
  BY <1>2, <1>4 DEF Billings
<1> HIDE DEF new
<1>6. QED
  BY <1>1, <1>2, <1>3, <1>5

\* What is left of the flushes when one commits.
LEMMA OutdatedForms ==
  ASSUME Forms, NEW k \in Flushes, FlushCommits(k)
  PROVE  /\ flushing' \in [Flushes -> Billings] /\ flushing[k] \in Billings
         /\ flushing[k].step = "read" /\ flushing'[k].step = "done"
         /\ \A m \in Flushes : /\ flushing[m].step = "done" => flushing'[m].step = "done"
                               /\ flushing'[m].step = "read" => flushing'[m].stale
<1>1. flushing \in [Flushes -> Billings] /\ flushing' = Outdated(k) /\ flushing[k].step = "read"
  BY DEF Forms, FlushCommits
<1> DEFINE next(m) == IF m = k THEN [flushing[k] EXCEPT !.step = "done"]
                      ELSE IF flushing[m].step = "read" THEN [flushing[m] EXCEPT !.stale = TRUE]
                      ELSE flushing[m]
<1>2. flushing' = [m \in Flushes |-> next(m)]
  BY <1>1 DEF Outdated
<1>3. ASSUME NEW m \in Flushes
      PROVE  /\ next(m) \in Billings
             /\ m = k => next(m).step = "done"
             /\ flushing[m].step = "done" => next(m).step = "done"
             /\ next(m).step = "read" => next(m).stale
  <2>1. flushing[m] \in Billings
    BY <1>1
  <2>2. QED
    BY <2>1 DEF Billings
<1> HIDE DEF next
<1>4. QED
  BY <1>1, <1>2, <1>3

LEMMA FlushForms ==
  ASSUME BillingAssumption, Forms, NEW k \in Flushes, FlushCommits(k)
  PROVE  /\ flushing[k].plan \in [Buckets -> Nat]
         /\ IsFiniteSet(FlushEntries(k)) /\ \A f, g \in FlushEntries(k) : f.key = g.key => f = g
         /\ ledger' = Inserted(FlushEntries(k)) /\ row' = [b \in Buckets |-> row[b] - flushing[k].plan[b]]
         /\ \A f \in FlushEntries(k) : KnownEntry(f)' /\ ~Taken(f.key)
<1> DEFINE plan == flushing[k].plan
<1>1. plan \in [Buckets -> Nat] /\ flushing[k].step = "read" /\ flushing'[k].step = "done"
  BY OutdatedForms DEF Billings
<1>2. ledger' = Inserted(FlushEntries(k)) /\ row' = [b \in Buckets |-> row[b] - plan[b]]
  BY DEF FlushCommits, FlushEntries
<1> DEFINE paying == {c \in Buckets : plan[c] > 0}
           taken(b) == [key |-> <<"sess", k, b>>, delta |-> 0 - plan[b], bucket |-> b,
                        expires |-> Never]
<1>3. FlushEntries(k) = {taken(b) : b \in paying}
  BY DEF FlushEntries
<1>4. IsFiniteSet(paying)
  <2>1. Buckets = (({} \cup {"trial"}) \cup {"subscription"}) \cup {"topup"}
    BY DEF Buckets
  <2>2. IsFiniteSet(Buckets)
    BY <2>1, FS_EmptySet, FS_AddElement
  <2>3. QED
    BY <2>2, FS_Subset
<1>5. \A b \in paying : /\ taken(b).key = <<"sess", k, b>> /\ taken(b).bucket = b
                        /\ taken(b).delta = 0 - plan[b] /\ taken(b).expires = Never
                        /\ b \in Buckets /\ plan[b] > 0
  OBVIOUS
<1>6. IsFiniteSet(FlushEntries(k))
  <2> DEFINE F == [b \in paying |-> taken(b)]
             E == FlushEntries(k)
  <2>1. F \in Surjection(paying, E)
    <3> HIDE DEF taken, paying
    <3>1. QED
      BY <1>3 DEF Surjection
  <2> HIDE DEF F, E
  <2>2. IsFiniteSet(E)
    BY <1>4, <2>1, FS_Surjection
  <2>3. QED
    BY <2>2 DEF E
<1> HIDE DEF taken, paying
<1>7. \A f, g \in FlushEntries(k) : f.key = g.key => f = g
  BY <1>3, <1>5
<1>8. ASSUME NEW f \in FlushEntries(k) PROVE KnownEntry(f)' /\ ~Taken(f.key)
  <2>1. PICK b \in paying : f = taken(b)
    BY <1>3
  <2>2. f.key = <<"sess", k, b>> /\ f.bucket = b /\ b \in Buckets /\ f.expires = Never
    BY <1>5, <2>1
  <2>3. FlushEntry(f)'
    <3>1. plan[b] \in Nat /\ plan[b] > 0 /\ f.delta = 0 - plan[b]
      BY <1>1, <1>5, <2>1
    <3>2. f.delta \in Int /\ f.delta < 0
      BY <3>1
    <3>3. QED
      BY <1>1, <2>2, <3>2 DEF FlushEntry
  <2>4. ASSUME NEW g \in ledger, g.key = f.key PROVE FALSE
    <3>1. g.key = <<"sess", k, b>>
      BY <2>2, <2>4
    <3>2. ~TrialEntry(g)
      BY <3>1 DEF TrialEntry
    <3>3. ~FlushEntry(g)
      BY <1>1, <3>1 DEF FlushEntry
    <3>4. \A e \in Events, i \in Nat : ~BoughtEntry(g, e, i)
      BY <3>1 DEF BoughtEntry
    <3>5. KnownEntry(g)
      BY DEF Forms
    <3>6. QED
      BY <3>2, <3>3, <3>4, <3>5 DEF KnownEntry
  <2>5. QED
    BY <2>3, <2>4 DEF KnownEntry, Taken
<1>9. QED
  BY <1>1, <1>2, <1>6, <1>7, <1>8

LEMMA LiveIsSum ==
  ASSUME NEW b \in Buckets
  PROVE  Live[b] = SumOver([f \in {e \in ledger : e.bucket = b /\ Counts(e)} |-> f.delta],
                           {e \in ledger : e.bucket = b /\ Counts(e)})
<1> DEFINE S == {e \in ledger : e.bucket = b /\ Counts(e)}
<1>1. Live[b] = MapThenSumSet(LAMBDA e : e.delta, S)
  BY DEF Live
<1> HIDE DEF S
<1>2. MapThenSumSet(LAMBDA e : e.delta, S) = SumOver([f \in S |-> f.delta], S)
  BY DEF MapThenSumSet, MapThenFoldSet, SumOver, Adds
<1>3. QED
  BY <1>1, <1>2 DEF S

LEMMA IdleForms == Idle \in Webhooks /\ Idle.step = "idle"
BY DEF Idle, Webhooks, Zeros, Ids

Applied(h) == [handler EXCEPT ![h].step = "applied"]

LEMMA AppliedForms ==
  ASSUME Forms, NEW h \in Handlers
  PROVE  /\ Applied(h) \in [Handlers -> Webhooks]
         /\ Applied(h)[h].event = handler[h].event /\ Applied(h)[h].step = "applied"
         /\ \A g \in Handlers : g # h => Applied(h)[g] = handler[g]
<1> DEFINE w == [handler[h] EXCEPT !.step = "applied"]
<1>1. handler \in [Handlers -> Webhooks] /\ handler[h] \in Webhooks
  BY DEF Forms
<1>2. Applied(h) = [handler EXCEPT ![h] = w]
  BY DEF Applied
<1>3. w \in Webhooks /\ w.event = handler[h].event /\ w.step = "applied"
  BY <1>1 DEF Webhooks
<1> HIDE DEF w
<1>4. QED
  BY <1>1, <1>2, <1>3

\* What is inserted with the webhook and with the trial.
LEMMA AppliesForms ==
  ASSUME BillingAssumption, Forms, NEW h \in Handlers, NEW e \in Events, Applies(h, e)
  PROVE  /\ IsFiniteSet(ledger') /\ \A f \in ledger' : KnownEntry(f)'
         /\ \A f, g \in ledger' : f.key = g.key => f = g
         /\ ledger \subseteq ledger' /\ ledger' \subseteq ledger \cup Grants(e)
         /\ \A f \in Grants(e) : \E g \in ledger' : g.key = f.key
<1>1. /\ ledger' = Inserted(Grants(e)) /\ UNCHANGED flushing
      /\ now \in Nat
  BY DEF Applies, Forms
<1>2. /\ IsFiniteSet(Grants(e)) /\ \A f, g \in Grants(e) : f.key = g.key => f = g
      /\ \A f \in Grants(e) : \E i \in Nat : BoughtEntry(f, e, i)
  BY <1>1, GrantsForms
<1>3. \A f \in Grants(e) : KnownEntry(f)'
  BY <1>2 DEF KnownEntry, BoughtEntry, Listed, Entry
<1>4. \A k \in Flushes : flushing[k].step = "done" => flushing'[k].step = "done"
  BY <1>1
<1>5. QED
  BY <1>1, <1>2, <1>3, <1>4, KnownStays

TheTrial == [key |-> <<"trial_grant">>, delta |-> TrialCredits, bucket |-> "trial", expires |-> Never]

LEMMA GrantsTrialForms ==
  ASSUME BillingAssumption, Forms, NEW t \in Tokens, GrantsTrial(t)
  PROVE  /\ IsFiniteSet(ledger') /\ \A f \in ledger' : KnownEntry(f)'
         /\ \A f, g \in ledger' : f.key = g.key => f = g
         /\ ledger \subseteq ledger' /\ ledger' \subseteq ledger \cup {TheTrial}
         /\ \E g \in ledger' : g.key = <<"trial_grant">>
<1>1. /\ ledger' = Inserted({TheTrial}) /\ UNCHANGED flushing
  BY DEF GrantsTrial, TheTrial, TrialKey
<1>2. TheTrial.key = <<"trial_grant">> /\ KnownEntry(TheTrial)'
  BY DEF TheTrial, KnownEntry, TrialEntry
<1>3. IsFiniteSet({TheTrial})
  BY FS_Singleton
<1>4. \A k \in Flushes : flushing[k].step = "done" => flushing'[k].step = "done"
  BY <1>1
<1>5. /\ IsFiniteSet(ledger') /\ \A f \in ledger' : KnownEntry(f)'
      /\ \A f, g \in ledger' : f.key = g.key => f = g
      /\ ledger \subseteq ledger' /\ ledger' \subseteq ledger \cup {TheTrial}
      /\ \A f \in {TheTrial} : \E g \in ledger' : g.key = f.key
  <2>1. \A f \in {TheTrial} : KnownEntry(f)'
    BY <1>2
  <2>2. \A f, g \in {TheTrial} : f.key = g.key => f = g
    OBVIOUS
  <2>3. QED
    BY <1>1, <1>3, <1>4, <2>1, <2>2, KnownStays
<1>6. QED
  BY <1>2, <1>5

LEMMA LiveType ==
  ASSUME BillingAssumption, Forms
  PROVE  Live \in [Buckets -> Int]
<1>1. \A b \in Buckets : Live[b] \in Int
  <2>1. SUFFICES ASSUME NEW b \in Buckets PROVE Live[b] \in Int
    OBVIOUS
  <2> DEFINE S == {e \in ledger : e.bucket = b /\ Counts(e)}
  <2>2. IsFiniteSet(S)
    BY FS_Subset DEF Forms
  <2>3. \A e \in S : e.delta \in Int
    BY EntryTypes DEF Forms
  <2>4. Live[b] = SumOver([e \in S |-> e.delta], S)
    BY LiveIsSum
  <2> HIDE DEF S
  <2>5. [e \in S |-> e.delta] \in [S -> Int]
    BY <2>3
  <2>6. QED
    BY <2>2, <2>4, <2>5, SumType
<1>2. QED
  BY <1>1 DEF Live

\* A step that leaves the ledger alone keeps the forms when it keeps the types.
LEMMA FormsRest ==
  ASSUME Forms, UNCHANGED ledger,
         now' \in Nat, row' \in [Buckets -> Int], missed' \subseteq Causes,
         overdrawn' \in [Buckets -> Nat], faults' \in Nat, flushing' \in [Flushes -> Billings],
         \A k \in Flushes : flushing[k].step = "done" => flushing'[k].step = "done",
         user' \in [registered : BOOLEAN, verified : BOOLEAN, trialGranted : BOOLEAN,
                    planCode : {user'.planCode}],
         handler' \in [Handlers -> Webhooks],
         verify' \in [Tokens -> [step : LinkSteps, seen : BOOLEAN]]
  PROVE  Forms'
<1>1. /\ IsFiniteSet(ledger') /\ \A f \in ledger' : KnownEntry(f)'
      /\ \A f, g \in ledger' : f.key = g.key => f = g
  BY KnownRests
<1>2. QED
  BY <1>1 DEF Forms

LEMMA BoundsRest ==
  ASSUME Forms, UNCHANGED flushing, UNCHANGED faults \/ faults' = faults + 1
  PROVE  /\ faults' \in Nat /\ flushing' \in [Flushes -> Billings]
         /\ \A k \in Flushes : flushing[k].step = "done" => flushing'[k].step = "done"
BY DEF Forms

LEMMA LinksForms ==
  ASSUME Forms, NEW t \in Tokens, NEW step \in LinkSteps, Links(t, step)
  PROVE  /\ verify' \in [Tokens -> [step : LinkSteps, seen : BOOLEAN]]
         /\ verify'[t].step = step /\ verify'[t].seen = verify[t].seen
         /\ \A u \in Tokens : u # t => verify'[u] = verify[u]
BY DEF Links, Forms

LEMMA FormsStep == BillingAssumption /\ Forms /\ [BillingNext]_billingVars => Forms'
<1> SUFFICES ASSUME BillingAssumption, Forms, [BillingNext]_billingVars PROVE Forms'
  OBVIOUS
<1>1. CASE Register
  BY <1>1, FormsRest, BoundsRest DEF Register, webhookVars, Forms
<1>2. ASSUME NEW k \in Flushes, FlushCommits(k) PROVE Forms'
  <2> DEFINE plan == flushing[k].plan
  <2>1. /\ plan \in [Buckets -> Nat]
        /\ IsFiniteSet(FlushEntries(k)) /\ \A f, g \in FlushEntries(k) : f.key = g.key => f = g
        /\ ledger' = Inserted(FlushEntries(k)) /\ row' = [b \in Buckets |-> row[b] - plan[b]]
    BY <1>2, FlushForms
  <2>2. \A f \in FlushEntries(k) : KnownEntry(f)'
    BY <1>2, FlushForms
  <2>3. row \in [Buckets -> Int] /\ overdrawn \in [Buckets -> Nat]
    BY DEF Forms
  <2>4. /\ flushing' \in [Flushes -> Billings]
        /\ \A m \in Flushes : flushing[m].step = "done" => flushing'[m].step = "done"
    BY <1>2, OutdatedForms
  <2>5. /\ IsFiniteSet(ledger') /\ \A f \in ledger' : KnownEntry(f)'
        /\ \A f, g \in ledger' : f.key = g.key => f = g
    BY <2>1, <2>2, <2>4, KnownStays
  <2>6. /\ handler' = Overtaken(handler, "flush")
        /\ overdrawn' = [b \in Buckets |-> IF flushing[k].stale THEN overdrawn[b] + plan[b] ELSE overdrawn[b]]
        /\ UNCHANGED <<now, user, verify, faults, missed>>
    BY <1>2 DEF FlushCommits
  <2> HIDE DEF plan
  <2>7. row' \in [Buckets -> Int] /\ overdrawn' \in [Buckets -> Nat]
    BY <2>1, <2>3, <2>6
  <2>8. handler' \in [Handlers -> Webhooks]
    BY <2>6, OvertakenForms DEF Forms, Causes
  <2>9. QED
    BY <2>4, <2>5, <2>6, <2>7, <2>8 DEF Forms
<1>17. ASSUME NEW k \in Flushes, FlushReads(k) PROVE Forms'
  <2>1. /\ flushing' \in [Flushes -> Billings]
        /\ \A m \in Flushes : flushing[m].step = "done" => flushing'[m].step = "done"
    <3>1. /\ flushing' \in [Flushes -> Billings] /\ flushing[k].step = "none"
          /\ \A m \in Flushes : m # k => flushing'[m] = flushing[m]
      BY <1>17, FlushReadsForms DEF FlushReads
    <3>2. QED
      BY <3>1
  <2>2. UNCHANGED <<now, user, ledger, row, handler, verify, faults, missed, overdrawn>>
    BY <1>17 DEF FlushReads, webhookVars
  <2>3. QED
    BY <2>1, <2>2, FormsRest DEF Forms
<1>3. CASE Passes
  <2>1. handler' \in [Handlers -> Webhooks] /\ missed' \subseteq Causes
    BY <1>3, OvertakenForms DEF Passes, Forms, Causes
  <2>2. now' \in Nat /\ UNCHANGED <<user, ledger, row, verify, flushing, faults, overdrawn>>
    BY <1>3 DEF Passes, Forms
  <2>3. QED
    BY <2>1, <2>2, FormsRest, BoundsRest DEF Forms
<1>4. ASSUME NEW h \in Handlers, NEW e \in Events, Applies(h, e) PROVE Forms'
  <2>1. /\ IsFiniteSet(ledger') /\ \A f \in ledger' : KnownEntry(f)'
        /\ \A f, g \in ledger' : f.key = g.key => f = g
    BY <1>4, AppliesForms
  <2> DEFINE hs == [handler EXCEPT ![h].step = "applied"]
  <2>2. hs \in [Handlers -> Webhooks]
    <3>1. hs = Applied(h)
      BY DEF Applied
    <3> HIDE DEF hs
    <3>2. QED
      BY <3>1, AppliedForms
  <2>3. \/ handler' = hs /\ UNCHANGED missed
        \/ handler' = Overtaken(hs, "grant") /\ missed' = missed \cup {"grant"}
    BY <1>4 DEF Applies
  <2> HIDE DEF hs
  <2>4. handler' \in [Handlers -> Webhooks] /\ missed' \subseteq Causes
    BY <2>2, <2>3, OvertakenForms DEF Forms, Causes
  <2>5. user' \in [registered : BOOLEAN, verified : BOOLEAN, trialGranted : BOOLEAN,
                   planCode : {user'.planCode}]
    <3>1. \/ UNCHANGED user
          \/ user' = [user EXCEPT !.planCode = PlanChange(e).planCode]
      BY <1>4 DEF Applies
    <3>2. QED
      BY <3>1 DEF Forms
  <2>6. UNCHANGED <<now, row, verify, flushing, faults, overdrawn>>
    BY <1>4 DEF Applies
  <2>7. QED
    BY <2>1, <2>4, <2>5, <2>6 DEF Forms
<1>5. ASSUME NEW h \in Handlers, Sums(h) PROVE Forms'
  <2>1. handler' \in [Handlers -> Webhooks]
    <3>1. Live \in [Buckets -> Int] /\ handler[h] \in Webhooks /\ handler \in [Handlers -> Webhooks]
      BY LiveType DEF Forms
    <3> DEFINE L == Live
               w == [handler[h] EXCEPT !.step = "summed", !.sums = L, !.missed = {}]
    <3>2. handler' = [handler EXCEPT ![h] = w]
      BY <1>5, <3>1 DEF Sums
    <3> HIDE DEF L
    <3>3. L \in [Buckets -> Int]
      BY <3>1 DEF L
    <3>4. w \in Webhooks
      BY <3>1, <3>3 DEF Webhooks
    <3> HIDE DEF w
    <3>5. QED
      BY <3>1, <3>2, <3>4
  <2>2. QED
    BY <1>5, <2>1, FormsRest, BoundsRest DEF Sums, Forms
<1>6. ASSUME NEW h \in Handlers, Writes(h) PROVE Forms'
  <2>1. handler[h] \in Webhooks
    BY DEF Forms
  <2>2. row' \in [Buckets -> Int] /\ missed' \subseteq Causes
    BY <1>6, <2>1 DEF Writes, Replaced, Webhooks
  <2>3. handler' \in [Handlers -> Webhooks]
    BY <1>6, IdleForms DEF Writes, Forms
  <2>4. QED
    BY <1>6, <2>2, <2>3, FormsRest, BoundsRest DEF Writes, Forms
<1>7. ASSUME NEW h \in Handlers, WebhookFails(h) PROVE Forms'
  <2>1. handler' \in [Handlers -> Webhooks]
    BY <1>7, IdleForms DEF WebhookFails, Forms
  <2>2. QED
    BY <1>7, <2>1, FormsRest, BoundsRest DEF WebhookFails, Forms
<1>8. ASSUME NEW h \in Handlers, NEW e \in Events, Deliver(h, e) PROVE Forms'
  <2>1. handler' \in [Handlers -> Webhooks]
    <3>1. [Idle EXCEPT !.event = e.id, !.step = "received"] \in Webhooks
      BY IdleForms DEF Webhooks, Ids
    <3>2. QED
      BY <1>8, <3>1 DEF Deliver, Forms
  <2>2. UNCHANGED flushing /\ (UNCHANGED faults \/ faults' = faults + 1)
    BY <1>8 DEF Deliver
  <2>3. QED
    BY <1>8, <2>1, <2>2, FormsRest, BoundsRest DEF Deliver, Forms
<1>9. ASSUME NEW t \in Tokens, SendsLink(t) PROVE Forms'
  BY <1>9, LinksForms, FormsRest, BoundsRest DEF SendsLink, webhookVars, LinkSteps, Forms
<1>10. ASSUME NEW t \in Tokens, OpensLink(t) PROVE Forms'
  <2>1. verify' \in [Tokens -> [step : LinkSteps, seen : BOOLEAN]]
    BY <1>10 DEF OpensLink, LinkSteps, Forms
  <2>2. QED
    BY <1>10, <2>1, FormsRest, BoundsRest DEF OpensLink, webhookVars, Forms
<1>11. ASSUME NEW t \in Tokens, Verifies(t) PROVE Forms'
  <2>1. verify' \in [Tokens -> [step : LinkSteps, seen : BOOLEAN]]
    BY <1>11, LinksForms DEF Verifies, LinkSteps
  <2>2. user' \in [registered : BOOLEAN, verified : BOOLEAN, trialGranted : BOOLEAN,
                   planCode : {user'.planCode}]
    BY <1>11 DEF Verifies, Forms
  <2>3. QED
    BY <1>11, <2>1, <2>2, FormsRest, BoundsRest DEF Verifies, webhookVars, Forms
<1>12. ASSUME NEW t \in Tokens, GrantsTrial(t) PROVE Forms'
  <2>1. /\ IsFiniteSet(ledger') /\ \A f \in ledger' : KnownEntry(f)'
        /\ \A f, g \in ledger' : f.key = g.key => f = g
    BY <1>12, GrantsTrialForms
  <2>2. handler' \in [Handlers -> Webhooks] /\ missed' \subseteq Causes
    BY <1>12, OvertakenForms DEF GrantsTrial, Forms, Causes
  <2>3. verify' \in [Tokens -> [step : LinkSteps, seen : BOOLEAN]]
    BY <1>12, LinksForms DEF GrantsTrial, LinkSteps
  <2>4. UNCHANGED <<now, user, row, flushing, faults, overdrawn>>
    BY <1>12 DEF GrantsTrial
  <2>5. QED
    BY <2>1, <2>2, <2>3, <2>4 DEF Forms
<1>13. ASSUME NEW t \in Tokens, MarksTrial(t) PROVE Forms'
  <2>1. verify' \in [Tokens -> [step : LinkSteps, seen : BOOLEAN]]
    BY <1>13, LinksForms DEF MarksTrial, LinkSteps
  <2>2. user' \in [registered : BOOLEAN, verified : BOOLEAN, trialGranted : BOOLEAN,
                   planCode : {user'.planCode}]
    BY <1>13 DEF MarksTrial, Forms
  <2>3. QED
    BY <1>13, <2>1, <2>2, FormsRest, BoundsRest DEF MarksTrial, webhookVars, Forms
<1>14. ASSUME NEW t \in Tokens, VerifyFails(t) PROVE Forms'
  <2>1. verify' \in [Tokens -> [step : LinkSteps, seen : BOOLEAN]]
    BY <1>14, LinksForms DEF VerifyFails, LinkSteps
  <2>2. QED
    BY <1>14, <2>1, FormsRest, BoundsRest DEF VerifyFails, webhookVars, Forms
<1>15. CASE UNCHANGED billingVars
  BY <1>15, FormsRest, BoundsRest DEF billingVars, Forms
<1>16. QED
  BY <1>1, <1>2, <1>3, <1>4, <1>5, <1>6, <1>7, <1>8, <1>9, <1>10, <1>11, <1>12, <1>13, <1>14, <1>15, <1>17
     DEF BillingNext, Works

LEMMA LedgerGrows == BillingAssumption /\ Forms /\ [BillingNext]_billingVars => ledger \subseteq ledger'
<1> SUFFICES ASSUME BillingAssumption, Forms, [BillingNext]_billingVars PROVE ledger \subseteq ledger'
  OBVIOUS
<1>1. Register \/ Passes \/ UNCHANGED billingVars => ledger \subseteq ledger'
  BY DEF Register, Passes, billingVars
<1>2. \A k \in Flushes : FlushReads(k) \/ FlushCommits(k) => ledger \subseteq ledger'
  BY DEF FlushReads, FlushCommits, Inserted
<1>3. \A h \in Handlers : (\E e \in Events : Applies(h, e)) => ledger \subseteq ledger'
  BY DEF Applies, Inserted
<1>4. \A h \in Handlers :
        Sums(h) \/ Writes(h) \/ WebhookFails(h) \/ (\E e \in Events : Deliver(h, e)) => ledger \subseteq ledger'
  BY DEF Sums, Writes, WebhookFails, Deliver
<1>5. \A t \in Tokens : GrantsTrial(t) => ledger \subseteq ledger'
  BY DEF GrantsTrial, Inserted
<1>6. \A t \in Tokens :
        SendsLink(t) \/ OpensLink(t) \/ Verifies(t) \/ MarksTrial(t) \/ VerifyFails(t) => ledger \subseteq ledger'
  BY DEF SendsLink, OpensLink, Verifies, MarksTrial, VerifyFails
<1>7. QED
  BY <1>1, <1>2, <1>3, <1>4, <1>5, <1>6 DEF BillingNext, Works

\* What an event lists is in the ledger.
Fulfilled(e) == e.type = "transaction.completed" => \A i \in Listed(e) : Taken(<<e.id, i>>)

\* A handler past its transaction, and an answer, mean that the event has been applied.
PurchaseInv ==
  /\ \A h \in Handlers : handler[h].step \in {"applied", "summed"} =>
       \E e \in Events : handler[h].event = e.id /\ Fulfilled(e)
  /\ \A e \in Events : e.id \in answered \ ignored => Fulfilled(e)

\* How far a link's handler is tells what it has seen and left behind.
TrialInv ==
  /\ user.trialGranted => Taken(<<"trial_grant">>)
  /\ \A t \in Tokens : /\ verify[t].step = "read" /\ verify[t].seen => user.trialGranted
                       /\ verify[t].step = "granted" => Taken(<<"trial_grant">>)
                       /\ verify[t].step = "done" => user.trialGranted
  /\ user.verified => \E t \in Tokens : verify[t].step \in {"verified", "granted", "done", "failed"}

LEMMA PurchaseInit == BillingInit => PurchaseInv /\ TrialInv
BY DEF BillingInit, PurchaseInv, TrialInv, Idle

LEMMA PurchaseStep == BillingAssumption /\ Forms /\ PurchaseInv /\ [BillingNext]_billingVars => PurchaseInv'
<1> SUFFICES ASSUME BillingAssumption, Forms, PurchaseInv, [BillingNext]_billingVars PROVE PurchaseInv'
  OBVIOUS
<1>1. \A e \in Events : Fulfilled(e) => Fulfilled(e)'
  BY LedgerGrows DEF Fulfilled, Taken, Listed
<1>2. handler \in [Handlers -> Webhooks]
  BY DEF Forms
\* A step in which nothing is answered and no handler gets past its transaction.
<1> DEFINE Rests == /\ \A h \in Handlers : handler'[h].step \in {"applied", "summed"} =>
                         handler[h].step \in {"applied", "summed"} /\ handler'[h].event = handler[h].event
                    /\ answered' \ ignored' \subseteq answered \ ignored
<1>3. ASSUME Rests PROVE PurchaseInv'
  BY <1>1, <1>3 DEF PurchaseInv
<1>4. ASSUME UNCHANGED <<answered, ignored>>, NEW cause \in Causes,
             \/ UNCHANGED handler
             \/ handler' = Overtaken(handler, cause)
      PROVE  PurchaseInv'
  <2>1. Rests
    BY <1>2, <1>4, OvertakenForms
  <2>2. QED
    BY <2>1, <1>3
<1>5. CASE Register
  BY <1>5, <1>3 DEF Register, webhookVars
<1>6. ASSUME NEW k \in Flushes, FlushReads(k) \/ FlushCommits(k) PROVE PurchaseInv'
  <2>1. "flush" \in Causes
    BY DEF Causes
  <2>2. /\ UNCHANGED <<answered, ignored>>
        /\ UNCHANGED handler \/ handler' = Overtaken(handler, "flush")
    BY <1>6 DEF FlushReads, FlushCommits, webhookVars
  <2>3. QED
    BY <1>4, <2>1, <2>2
<1>7. CASE Passes
  <2>1. "expiry" \in Causes
    BY DEF Causes
  <2>2. UNCHANGED <<answered, ignored>> /\ (UNCHANGED handler \/ handler' = Overtaken(handler, "expiry"))
    BY <1>7 DEF Passes
  <2>3. QED
    BY <1>4, <2>1, <2>2
<1>8. ASSUME NEW t \in Tokens, GrantsTrial(t) PROVE PurchaseInv'
  <2>1. "trial" \in Causes
    BY DEF Causes
  <2>2. UNCHANGED <<answered, ignored>> /\ (UNCHANGED handler \/ handler' = Overtaken(handler, "trial"))
    BY <1>8 DEF GrantsTrial
  <2>3. QED
    BY <1>4, <2>1, <2>2
<1>9. ASSUME NEW h \in Handlers, NEW e \in Events, Applies(h, e) PROVE PurchaseInv'
  <2> DEFINE hs == [handler EXCEPT ![h].step = "applied"]
  <2>1. /\ hs \in [Handlers -> Webhooks] /\ hs[h].event = handler[h].event
        /\ \A g \in Handlers : g # h => hs[g] = handler[g]
    <3>1. hs = Applied(h)
      BY DEF Applied
    <3> HIDE DEF hs
    <3>2. QED
      BY <3>1, AppliedForms
  <2>2. \/ handler' = hs
        \/ handler' = Overtaken(hs, "grant")
    BY <1>9 DEF Applies
  <2>3. handler[h].event = e.id /\ UNCHANGED <<answered, ignored>>
    BY <1>9 DEF Applies
  <2> HIDE DEF hs
  <2>4. \A g \in Handlers : handler'[g].event = hs[g].event /\ handler'[g].step = hs[g].step
    BY <2>1, <2>2, OvertakenForms DEF Causes
  <2>5. Fulfilled(e)'
    <3>1. \A i \in Listed(e) : e.type = "transaction.completed" => \E f \in Grants(e) : f.key = <<e.id, i>>
      BY GrantsForms DEF Forms
    <3>2. \A f \in Grants(e) : \E g \in ledger' : g.key = f.key
      BY <1>9, AppliesForms
    <3>3. QED
      BY <3>1, <3>2 DEF Fulfilled, Taken, Listed
  <2>6. QED
    BY <1>1, <2>1, <2>3, <2>4, <2>5 DEF PurchaseInv
<1>10. ASSUME NEW h \in Handlers, Sums(h) PROVE PurchaseInv'
  <2>1. Rests
    BY <1>2, <1>10 DEF Sums
  <2>2. QED
    BY <2>1, <1>3
<1>11. ASSUME NEW h \in Handlers, Writes(h) PROVE PurchaseInv'
  <2>1. PICK e \in Events : handler[h].event = e.id /\ Fulfilled(e)
    BY <1>11 DEF Writes, PurchaseInv
  <2>2. /\ answered' = answered \cup {e.id} /\ UNCHANGED ignored
        /\ handler'[h] = Idle /\ \A g \in Handlers : g # h => handler'[g] = handler[g]
    BY <1>2, <1>11, <2>1 DEF Writes
  <2>3. \A d \in Events : d.id = e.id => d = e
    BY DEF BillingAssumption
  <2>4. QED
    BY <1>1, <2>1, <2>2, <2>3, IdleForms DEF PurchaseInv
<1>12. ASSUME NEW h \in Handlers, WebhookFails(h) PROVE PurchaseInv'
  <2>1. Rests
    BY <1>2, <1>12, IdleForms DEF WebhookFails
  <2>2. QED
    BY <2>1, <1>3
<1>13. ASSUME NEW h \in Handlers, NEW e \in Events, Deliver(h, e) PROVE PurchaseInv'
  <2>1. Rests
    BY <1>2, <1>13 DEF Deliver, Idle
  <2>2. QED
    BY <2>1, <1>3
<1>14. ASSUME NEW t \in Tokens, SendsLink(t) \/ OpensLink(t) \/ Verifies(t) \/ MarksTrial(t) \/ VerifyFails(t)
       PROVE  PurchaseInv'
  <2>1. UNCHANGED webhookVars
    BY <1>14 DEF SendsLink, OpensLink, Verifies, MarksTrial, VerifyFails
  <2>2. QED
    BY <2>1, <1>3 DEF webhookVars
<1>15. CASE UNCHANGED billingVars
  BY <1>15, <1>3 DEF billingVars
<1>16. QED
  BY <1>5, <1>6, <1>7, <1>8, <1>9, <1>10, <1>11, <1>12, <1>13, <1>14, <1>15 DEF BillingNext, Works

LEMMA TrialStep == BillingAssumption /\ Forms /\ TrialInv /\ [BillingNext]_billingVars => TrialInv'
<1> SUFFICES ASSUME BillingAssumption, Forms, TrialInv, [BillingNext]_billingVars PROVE TrialInv'
  OBVIOUS
<1>1. Taken(<<"trial_grant">>) => Taken(<<"trial_grant">>)'
  BY LedgerGrows DEF Taken
<1>2. /\ user \in [registered : BOOLEAN, verified : BOOLEAN, trialGranted : BOOLEAN, planCode : {user.planCode}]
      /\ verify \in [Tokens -> [step : LinkSteps, seen : BOOLEAN]]
  BY DEF Forms
<1>3. ASSUME UNCHANGED verify, UNCHANGED <<user.trialGranted, user.verified>> PROVE TrialInv'
  BY <1>1, <1>3 DEF TrialInv
<1>4. CASE Register
  BY <1>2, <1>3, <1>4 DEF Register
<1>5. CASE (\E k \in Flushes : FlushReads(k) \/ FlushCommits(k)) \/ Passes \/ UNCHANGED billingVars
  BY <1>3, <1>5 DEF FlushReads, FlushCommits, Passes, billingVars
<1>6. ASSUME NEW h \in Handlers, NEW e \in Events, Applies(h, e) PROVE TrialInv'
  <2>1. UNCHANGED verify /\ (UNCHANGED user \/ user' = [user EXCEPT !.planCode = PlanChange(e).planCode])
    BY <1>6 DEF Applies
  <2>2. QED
    BY <1>2, <1>3, <2>1
<1>7. ASSUME NEW h \in Handlers,
             Sums(h) \/ Writes(h) \/ WebhookFails(h) \/ \E e \in Events : Deliver(h, e)
      PROVE  TrialInv'
  BY <1>3, <1>7 DEF Sums, Writes, WebhookFails, Deliver
<1>8. ASSUME NEW t \in Tokens, SendsLink(t) PROVE TrialInv'
  <2>1. /\ verify[t].step = "none" /\ UNCHANGED user /\ verify'[t].step = "sent"
        /\ \A u \in Tokens : u # t => verify'[u] = verify[u]
    BY <1>8, LinksForms DEF SendsLink, LinkSteps
  <2>2. QED
    BY <1>1, <2>1 DEF TrialInv
<1>9. ASSUME NEW t \in Tokens, OpensLink(t) PROVE TrialInv'
  <2>1. /\ verify[t].step = "sent" /\ UNCHANGED user
        /\ verify'[t].step = "read" /\ verify'[t].seen = user.trialGranted
        /\ \A u \in Tokens : u # t => verify'[u] = verify[u]
    BY <1>2, <1>9 DEF OpensLink
  <2>2. QED
    BY <1>1, <2>1 DEF TrialInv
<1>10. ASSUME NEW t \in Tokens, Verifies(t) PROVE TrialInv'
  <2>1. /\ verify[t].step = "read" /\ user'.trialGranted = user.trialGranted
        /\ verify'[t].step = IF verify[t].seen THEN "done" ELSE "verified"
        /\ \A u \in Tokens : u # t => verify'[u] = verify[u]
    BY <1>2, <1>10, LinksForms DEF Verifies, LinkSteps
  <2>2. QED
    BY <1>1, <2>1 DEF TrialInv
<1>11. ASSUME NEW t \in Tokens, GrantsTrial(t) PROVE TrialInv'
  <2>1. /\ verify[t].step = "verified" /\ UNCHANGED user /\ verify'[t].step = "granted"
        /\ \A u \in Tokens : u # t => verify'[u] = verify[u]
    BY <1>11, LinksForms DEF GrantsTrial, LinkSteps
  <2>2. Taken(<<"trial_grant">>)'
    BY <1>11, GrantsTrialForms DEF Taken
  <2>3. QED
    BY <2>1, <2>2 DEF TrialInv
<1>12. ASSUME NEW t \in Tokens, MarksTrial(t) PROVE TrialInv'
  <2>1. /\ verify[t].step = "granted" /\ user'.trialGranted /\ user'.verified = user.verified
        /\ verify'[t].step = "done"
        /\ \A u \in Tokens : u # t => verify'[u] = verify[u]
    BY <1>2, <1>12, LinksForms DEF MarksTrial, LinkSteps
  <2>2. QED
    BY <1>1, <2>1 DEF TrialInv
<1>13. ASSUME NEW t \in Tokens, VerifyFails(t) PROVE TrialInv'
  <2>1. /\ verify[t].step \in {"read", "verified", "granted"} /\ UNCHANGED user /\ verify'[t].step = "failed"
        /\ \A u \in Tokens : u # t => verify'[u] = verify[u]
    BY <1>13, LinksForms DEF VerifyFails, LinkSteps
  <2>2. QED
    BY <1>1, <2>1 DEF TrialInv
<1>14. QED
  BY <1>4, <1>5, <1>6, <1>7, <1>8, <1>9, <1>10, <1>11, <1>12, <1>13 DEF BillingNext, Works

\* The key tells what an entry is.
LEMMA KeyTells ==
  ASSUME BillingAssumption, Forms, NEW f \in ledger
  PROVE  /\ \A e \in Events : \A i : f.key = <<e.id, i>> => BoughtEntry(f, e, i)
         /\ f.key = <<"trial_grant">> => TrialEntry(f)
         /\ f.delta > 0 => TrialEntry(f) \/ \E e \in Events, i \in Nat : BoughtEntry(f, e, i)
<1>1. KnownEntry(f) /\ f.delta \in Int
  BY EntryTypes DEF Forms
<1>2. TrialEntry(f) => f.key = <<"trial_grant">>
  BY DEF TrialEntry
<1>3. FlushEntry(f) => f.delta < 0 /\ \E k \in Flushes : f.key = <<"sess", k, f.bucket>>
  BY DEF FlushEntry
<1>4. ASSUME NEW d \in Events, NEW j \in Nat, BoughtEntry(f, d, j)
      PROVE  f.key = <<d.id, j>> /\ \A e \in Events : \A i : f.key = <<e.id, i>> => e = d /\ i = j
  <2>1. f.key = <<d.id, j>> /\ \A e \in Events : d.id = e.id => d = e
    BY <1>4 DEF BoughtEntry, BillingAssumption
  <2>2. QED
    BY <2>1
<1>5. \A e \in Events : \A i : f.key = <<e.id, i>> => BoughtEntry(f, e, i)
  <2>1. \A e \in Events : \A i : f.key = <<e.id, i>> => ~TrialEntry(f) /\ ~FlushEntry(f)
    BY <1>2, <1>3
  <2>2. QED
    BY <1>1, <1>4, <2>1 DEF KnownEntry
<1>6. f.key = <<"trial_grant">> => TrialEntry(f)
  BY <1>1, <1>3, <1>4 DEF KnownEntry
<1>7. QED
  BY <1>1, <1>3, <1>5, <1>6 DEF KnownEntry

LEMMA OwedIsGranted ==
  ASSUME BillingAssumption, Forms, NEW e \in Events, Fulfilled(e)
  PROVE  Owed(e) = Named(GrantedBy(e))
<1>1. now \in Nat /\ \A i \in Listed(e) : i \in 1..Len(e.items)
  BY DEF Forms, Listed
<1>2. \A f, i : BoughtEntry(f, e, i) =>
        /\ e.type = "transaction.completed" /\ i \in Listed(e) /\ i \in 1..Len(e.items)
        /\ f.key = <<e.id, i>> /\ f.delta = Entry(e, i).credits /\ f.bucket = Entry(e, i).kind
        /\ Entry(e, i).credits \in Int /\ Entry(e, i).credits > 0
  BY <1>1 DEF BoughtEntry, Listed, Entry, BillingAssumption
<1>3. /\ \A f \in Grants(e) : \E i : BoughtEntry(f, e, i)
      /\ e.type = "transaction.completed" => \A i \in Listed(e) : \E f \in Grants(e) : f.key = <<e.id, i>>
  BY <1>1, GrantsForms
<1>4. ASSUME NEW f \in Grants(e)
      PROVE  \E g \in GrantedBy(e) : g.key = f.key /\ g.delta = f.delta /\ g.bucket = f.bucket
  <2>1. PICK i : BoughtEntry(f, e, i)
    BY <1>3
  <2>2. PICK g \in ledger : g.key = <<e.id, i>>
    BY <1>2, <2>1 DEF Fulfilled, Taken
  <2>3. BoughtEntry(g, e, i)
    BY <2>2, KeyTells
  <2>4. /\ g.delta = f.delta /\ g.bucket = f.bucket /\ g.key = f.key
        /\ g.delta > 0 /\ i \in 1..Len(e.items)
    <3>1. /\ f.key = <<e.id, i>> /\ f.delta = Entry(e, i).credits /\ f.bucket = Entry(e, i).kind
          /\ i \in 1..Len(e.items)
      BY <1>2, <2>1
    <3>2. /\ g.key = <<e.id, i>> /\ g.delta = Entry(e, i).credits /\ g.bucket = Entry(e, i).kind
          /\ Entry(e, i).credits > 0
      BY <1>2, <2>3
    <3>3. QED
      BY <3>1, <3>2
  <2>5. QED
    BY <2>2, <2>4 DEF GrantedBy
<1>5. ASSUME NEW g \in GrantedBy(e)
      PROVE  \E f \in Grants(e) : g.key = f.key /\ g.delta = f.delta /\ g.bucket = f.bucket
  <2>1. PICK i \in 1..Len(e.items) : g.key = <<e.id, i>> /\ g \in ledger
    BY DEF GrantedBy
  <2>2. BoughtEntry(g, e, i)
    BY <2>1, KeyTells
  <2>3. PICK f \in Grants(e) : f.key = <<e.id, i>>
    BY <1>2, <1>3, <2>2
  <2>4. PICK j : BoughtEntry(f, e, j)
    BY <1>3
  <2>5. i = j
    BY <1>2, <2>3, <2>4
  <2>6. g.key = <<e.id, i>> /\ g.delta = Entry(e, i).credits /\ g.bucket = Entry(e, i).kind
    BY <1>2, <2>2
  <2>7. f.key = <<e.id, i>> /\ f.delta = Entry(e, i).credits /\ f.bucket = Entry(e, i).kind
    BY <1>2, <2>4, <2>5
  <2>8. QED
    BY <2>6, <2>7
<1>6. QED
  BY <1>4, <1>5 DEF Owed, Named

LEMMA GrantedOnceHolds == BillingAssumption /\ Forms /\ PurchaseInv /\ TrialInv => GrantedOnce
<1> SUFFICES ASSUME BillingAssumption, Forms, PurchaseInv, TrialInv PROVE GrantedOnce
  OBVIOUS
<1> DEFINE trials == {e \in ledger : e.bucket = "trial" /\ e.delta > 0}
           bought == {e \in ledger : e.delta > 0} \ trials
<1>1. \A e \in Events : e.id \in answered \ ignored => Owed(e) = Named(GrantedBy(e))
  BY OwedIsGranted DEF PurchaseInv
<1>2. \A f, e, i : BoughtEntry(f, e, i) =>
        /\ f.key = <<e.id, i>> /\ i \in 1..Len(e.items)
        /\ f.bucket \in {"subscription", "topup"}
  BY DEF BoughtEntry, Listed, Entry, BillingAssumption
<1>3. \A f : TrialEntry(f) => f.key = <<"trial_grant">> /\ f.bucket = "trial" /\ f.delta > 0
  BY DEF TrialEntry, BillingAssumption
<1>4. bought = UNION {GrantedBy(e) : e \in Events}
  <2>1. ASSUME NEW f \in bought PROVE \E e \in Events : f \in GrantedBy(e)
    <3>1. f \in ledger /\ f.delta > 0 /\ f.bucket # "trial"
      OBVIOUS
    <3>2. PICK e \in Events, i \in Nat : BoughtEntry(f, e, i)
      BY <1>3, <3>1, KeyTells
    <3>3. QED
      BY <1>2, <3>1, <3>2 DEF GrantedBy
  <2>2. ASSUME NEW e \in Events, NEW f \in GrantedBy(e) PROVE f \in bought
    <3>1. PICK i \in 1..Len(e.items) : f.key = <<e.id, i>> /\ f \in ledger /\ f.delta > 0
      BY DEF GrantedBy
    <3>2. BoughtEntry(f, e, i)
      BY <3>1, KeyTells
    <3>3. f.bucket # "trial"
      BY <1>2, <3>2
    <3>4. QED
      BY <3>1, <3>3
  <2> HIDE DEF bought
  <2>3. QED
    BY <2>1, <2>2
<1>5. \A f, g \in trials : f = g
  <2>1. \A f \in trials : f \in ledger /\ f.key = <<"trial_grant">>
    BY <1>2, <1>3, KeyTells
  <2>2. QED
    BY <2>1 DEF Forms
<1>6. trials = {} \/ \E f : trials = {f}
  BY <1>5
<1>7. Cardinality(trials) <= 1 /\ (trials # {} => Cardinality(trials) = 1)
  <2> HIDE DEF trials
  <2>1. trials = {} => Cardinality(trials) = 0
    BY FS_EmptySet
  <2>2. \A f : trials = {f} => Cardinality(trials) = 1
    BY FS_Singleton
  <2>3. /\ Cardinality(trials) = 0 \/ Cardinality(trials) = 1
        /\ trials # {} => Cardinality(trials) = 1
    BY <1>6, <2>1, <2>2, Zenon
  <2>4. QED
    BY <2>3
<1>8. ASSUME user.verified, \A t \in Tokens : verify[t].step \in {"none", "sent", "done"}
      PROVE  Cardinality(trials) = 1 /\ user.trialGranted
  <2>1. user.trialGranted
    BY <1>8 DEF TrialInv
  <2>2. PICK f \in ledger : f.key = <<"trial_grant">>
    BY <2>1 DEF TrialInv, Taken
  <2>3. f \in trials
    BY <1>3, <2>2, KeyTells
  <2>4. QED
    BY <1>7, <2>1, <2>3
<1>9. QED
  BY <1>1, <1>4, <1>7, <1>8 DEF GrantedOnce

-----------------------------------------------------------------------------
(* The balance and the ledger                                              *)

\* The entries of a bucket that count, and what a set of entries moves.
Counted(b) == {f \in ledger : f.bucket = b /\ Counts(f)}
Deltas(S) == [f \in S |-> f.delta]

LEMMA LiveSums == /\ Live = [b \in Buckets |-> Live[b]]
                  /\ \A b \in Buckets : Live[b] = SumOver(Deltas(Counted(b)), Counted(b))
<1>1. Live = [b \in Buckets |-> Live[b]]
  BY DEF Live
<1>2. \A b \in Buckets : Live[b] = SumOver(Deltas(Counted(b)), Counted(b))
  BY LiveIsSum DEF Counted, Deltas
<1>3. QED
  BY <1>1, <1>2

LEMMA LiveSumsNext == /\ Live' = [b \in Buckets |-> Live'[b]]
                      /\ \A b \in Buckets : Live'[b] = SumOver(Deltas(Counted(b)'), Counted(b)')
<1>1. (/\ Live = [b \in Buckets |-> Live[b]]
       /\ \A b \in Buckets : Live[b] = SumOver(Deltas(Counted(b)), Counted(b)))'
  BY LiveSums, PTL
<1>2. QED
  BY <1>1 DEF Deltas

LEMMA CountedForms ==
  ASSUME BillingAssumption, Forms, NEW b \in Buckets
  PROVE  IsFiniteSet(Counted(b)) /\ Deltas(Counted(b)) \in [Counted(b) -> Int]
<1>1. IsFiniteSet(Counted(b))
  BY FS_Subset DEF Counted, Forms
<1>2. \A f \in Counted(b) : f.delta \in Int
  BY EntryTypes DEF Counted, Forms
<1>3. QED
  BY <1>1, <1>2 DEF Deltas

LEMMA LiveSame ==
  ASSUME NEW b \in Buckets, Counted(b)' = Counted(b)
  PROVE  Live'[b] = Live[b]
BY LiveSums, LiveSumsNext

LEMMA LiveRests == UNCHANGED <<ledger, now>> => Live' = Live
<1> SUFFICES ASSUME UNCHANGED <<ledger, now>> PROVE Live' = Live
  OBVIOUS
<1>1. \A b \in Buckets : Counted(b)' = Counted(b)
  BY DEF Counted, Counts
<1>2. \A b \in Buckets : Live'[b] = Live[b]
  BY <1>1, LiveSame
<1>3. QED
  BY <1>2, LiveSums, LiveSumsNext

\* Two sets of entries move what they have in common by the same.
LEMMA DeltasAlike ==
  ASSUME NEW S, NEW T, S \subseteq T, IsFiniteSet(S), \A f \in T : f.delta \in Int
  PROVE  SumOver(Deltas(S), S) = SumOver(Deltas(T), S)
<1>1. Deltas(S) \in [S -> Int] /\ Deltas(T) \in [T -> Int] /\ \A f \in S : Deltas(S)[f] = Deltas(T)[f]
  BY DEF Deltas
<1>2. S \in SUBSET S /\ S \in SUBSET T
  OBVIOUS
<1>3. QED
  BY <1>1, <1>2, SumAlike

LEMMA LiveGrows ==
  ASSUME BillingAssumption, Forms, IsFiniteSet(ledger'), \A f \in ledger' : f.delta \in Int,
         NEW b \in Buckets, Counted(b) \subseteq Counted(b)',
         \A f \in Counted(b)' \ Counted(b) : f.delta >= 0
  PROVE  Live[b] <= Live'[b]
<1> DEFINE S == Counted(b)
           T == Counted(b)'
<1>1. Live[b] = SumOver(Deltas(S), S) /\ Live'[b] = SumOver(Deltas(T), T)
  BY LiveSums, LiveSumsNext
<1>2. IsFiniteSet(S)
  BY CountedForms
<1>3. T \subseteq ledger'
  BY DEF Counted
<1>4. IsFiniteSet(T) /\ \A f \in T : f.delta \in Int
  BY <1>3, FS_Subset
<1>5. S \subseteq T /\ \A f \in T \ S : f.delta >= 0
  OBVIOUS
<1> HIDE DEF S, T
<1>6. SumOver(Deltas(S), S) = SumOver(Deltas(T), S)
  BY <1>2, <1>4, <1>5, DeltasAlike
<1>7. Deltas(T) \in [T -> Int] /\ \A f \in T \ S : Deltas(T)[f] >= 0
  BY <1>4, <1>5 DEF Deltas
<1>8. SumOver(Deltas(T), S) <= SumOver(Deltas(T), T)
  <2>1. T \in SUBSET T /\ S \in SUBSET T
    BY <1>5
  <2>2. QED
    BY <1>4, <1>7, <2>1, SumWithin
<1>9. QED
  BY <1>1, <1>6, <1>8

LEMMA LiveWithOne ==
  ASSUME BillingAssumption, Forms, NEW b \in Buckets, NEW f, f.delta \in Int,
         f \notin Counted(b), Counted(b)' = Counted(b) \cup {f}
  PROVE  Live'[b] = Live[b] + f.delta
<1> DEFINE S == Counted(b)
           T == S \cup {f}
<1>1. Live[b] = SumOver(Deltas(S), S) /\ Live'[b] = SumOver(Deltas(T), T)
  BY LiveSums, LiveSumsNext
<1>2. IsFiniteSet(S) /\ Deltas(S) \in [S -> Int]
  BY CountedForms
<1>3. f \notin S /\ \A g \in S : g.delta \in Int
  BY <1>2 DEF Deltas
<1> HIDE DEF S
<1>4. IsFiniteSet(T) /\ \A g \in T : g.delta \in Int
  BY <1>2, <1>3, FS_AddElement
<1>5. Deltas(T) \in [T -> Int] /\ f \in T /\ Deltas(T)[f] = f.delta /\ T \ {f} = S /\ S \subseteq T
  BY <1>3, <1>4 DEF Deltas
<1> HIDE DEF T
<1>6. SumOver(Deltas(T), T) = Deltas(T)[f] + SumOver(Deltas(T), T \ {f})
  <2>1. T \in SUBSET T
    OBVIOUS
  <2>2. QED
    BY <1>4, <1>5, <2>1, SumWithout
<1>7. SumOver(Deltas(S), S) = SumOver(Deltas(T), S)
  BY <1>2, <1>4, <1>5, DeltasAlike
<1>8. SumOver(Deltas(S), S) \in Int
  <2>1. S \in SUBSET S
    OBVIOUS
  <2>2. QED
    BY <1>2, <2>1, SumType
<1>9. Live[b] \in Int
  BY <1>1, <1>8
<1>10. Live'[b] = Deltas(T)[f] + Live[b]
  BY <1>1, <1>5, <1>6, <1>7, Zenon
<1>11. Live'[b] = f.delta + Live[b]
  BY <1>5, <1>10
<1>12. QED
  BY <1>9, <1>11

\* A flush takes its plan from the ledger as from the row.
LEMMA FlushLive ==
  ASSUME BillingAssumption, Forms, NEW k \in Flushes, FlushCommits(k), NEW b \in Buckets
  PROVE  Live'[b] = Live[b] - flushing[k].plan[b] /\ Live[b] \in Int
<1>1. /\ flushing[k].plan \in [Buckets -> Nat] /\ ledger' = Inserted(FlushEntries(k))
      /\ \A f \in FlushEntries(k) : ~Taken(f.key)
  BY FlushForms
<1>2. ledger' = ledger \cup FlushEntries(k) /\ now' = now
  BY <1>1 DEF Inserted, FlushCommits
<1>3. Live[b] \in Int
  BY LiveType
<1> DEFINE entry == [key |-> <<"sess", k, b>>, delta |-> 0 - flushing[k].plan[b], bucket |-> b,
                     expires |-> Never]
<1>4. \A f \in FlushEntries(k) : f.bucket = b => f = entry
  BY DEF FlushEntries
<1>5. flushing[k].plan[b] > 0 => entry \in FlushEntries(k)
  BY DEF FlushEntries
<1>6. entry.bucket = b /\ entry.delta = 0 - flushing[k].plan[b]
  OBVIOUS
<1>7. \A f \in FlushEntries(k) : f.bucket = b => flushing[k].plan[b] > 0
  BY DEF FlushEntries
<1> HIDE DEF entry
<1>8. CASE flushing[k].plan[b] = 0
  <2>1. \A f \in FlushEntries(k) : f.bucket # b
    BY <1>7, <1>8
  <2>2. Counted(b)' = Counted(b)
    BY <1>2, <2>1 DEF Counted, Counts
  <2>3. QED
    BY <1>3, <1>8, <2>2, LiveSame
<1>9. CASE flushing[k].plan[b] > 0
  <2>1. entry.delta \in Int /\ entry.delta < 0
    BY <1>1, <1>6, <1>9
  <2>2. entry \notin Counted(b)
    BY <1>1, <1>5, <1>9 DEF Counted, Taken
  <2>3. Counted(b)' = Counted(b) \cup {entry}
    BY <1>2, <1>4, <1>5, <1>6, <1>9, <2>1 DEF Counted, Counts
  <2>4. Live'[b] = Live[b] + entry.delta
    BY <2>1, <2>2, <2>3, LiveWithOne
  <2>5. QED
    BY <1>1, <1>3, <1>6, <2>4
<1>10. flushing[k].plan[b] = 0 \/ flushing[k].plan[b] > 0
  BY <1>1
<1>11. QED
  BY <1>8, <1>9, <1>10

\* A refresh nobody has overtaken has the sums of the ledger, and the row those of one.
Fits ==
  /\ missed = {} => row = Live
  /\ \A h \in Handlers : handler[h].step = "summed" /\ handler[h].missed = {} => handler[h].sums = Live

\* No grant of the bucket has expired.
Kept(b) == \A f \in ledger : f.bucket = b /\ f.delta > 0 => f.expires > now

\* A bucket whose grants have not expired is in debt by no more than stale plans have taken;
\* neither the row nor the sums a refresh has read promise more than the ledger holds, unless
\* they miss a flush, and a plan takes no more unless it is stale.
Debts ==
  \A b \in Buckets : Kept(b) =>
    /\ Live[b] + overdrawn[b] >= 0
    /\ "flush" \notin missed => row[b] <= Live[b]
    /\ \A h \in Handlers :
         handler[h].step = "summed" /\ "flush" \notin handler[h].missed => handler[h].sums[b] <= Live[b]
    /\ \A k \in Flushes :
         flushing[k].step = "read" /\ ~flushing[k].stale => flushing[k].plan[b] <= Positive(Live[b])

BalanceInv == Fits /\ Debts

LEMMA BalanceInit == BillingAssumption /\ BillingInit => BalanceInv
<1> SUFFICES ASSUME BillingAssumption, BillingInit PROVE BalanceInv
  OBVIOUS
<1>1. ASSUME NEW b \in Buckets PROVE Live[b] = 0
  <2>1. Counted(b) = {} /\ IsFiniteSet({})
    BY FS_EmptySet DEF BillingInit, Counted
  <2>2. SumOver(Deltas({}), {}) = 0
    BY <2>1, SumIs
  <2>3. QED
    BY <2>1, <2>2, LiveSums
<1>2. row = Zeros /\ \A b \in Buckets : row[b] = 0
  BY DEF BillingInit, Zeros
<1>3. row = Live
  BY <1>1, <1>2, LiveSums DEF Zeros
<1>4. /\ \A h \in Handlers : handler[h].step = "idle"
      /\ \A k \in Flushes : flushing[k].step = "none"
      /\ \A b \in Buckets : overdrawn[b] = 0
  BY DEF BillingInit, Idle, Zeros
<1>5. Fits
  BY <1>3, <1>4 DEF Fits
<1>6. Debts
  BY <1>1, <1>2, <1>4 DEF Debts
<1>7. QED
  BY <1>5, <1>6 DEF BalanceInv

\* A step that moves neither the ledger nor the row nor a refresh under way.
LEMMA BalanceRests ==
  ASSUME BalanceInv, UNCHANGED <<ledger, now, row, missed, overdrawn, flushing>>,
         \A h \in Handlers : handler'[h].step = "summed" => handler'[h] = handler[h]
  PROVE  BalanceInv'
<1>1. Live' = Live
  BY LiveRests
<1>2. \A b : Kept(b)' <=> Kept(b)
  BY DEF Kept
<1>3. Fits'
  BY <1>1 DEF BalanceInv, Fits
<1>4. Debts'
  BY <1>1, <1>2 DEF BalanceInv, Debts
<1>5. QED
  BY <1>3, <1>4 DEF BalanceInv

\* A step that grants credits, and that the row and every refresh under way miss.
LEMMA BalanceGrows ==
  ASSUME BillingAssumption, Forms, BalanceInv, IsFiniteSet(ledger'),
         UNCHANGED <<now, row, overdrawn, flushing>>, ledger \subseteq ledger',
         \A f \in ledger' : f.delta \in Int, \A f \in ledger' \ ledger : f.delta > 0,
         NEW cause \in Causes, cause # "flush", missed' = missed \cup {cause},
         \A h \in Handlers : handler'[h].step = "summed" =>
           /\ handler[h].step = "summed" /\ handler'[h].sums = handler[h].sums
           /\ handler'[h].missed = handler[h].missed \cup {cause}
  PROVE  BalanceInv'
<1>1. \A b \in Buckets : Live[b] <= Live'[b]
  <2>1. ASSUME NEW b \in Buckets PROVE Live[b] <= Live'[b]
    <3>1. Counted(b) \subseteq Counted(b)'
      BY DEF Counted, Counts
    <3>2. \A f \in Counted(b)' \ Counted(b) : f \in ledger' \ ledger
      BY DEF Counted, Counts
    <3>3. \A f \in Counted(b)' \ Counted(b) : f.delta >= 0
      <4>1. \A f \in ledger' \ ledger : f.delta \in Int /\ f.delta > 0
        OBVIOUS
      <4>2. QED
        BY <3>2, <4>1
    <3>4. QED
      BY <3>1, <3>3, LiveGrows
  <2>2. QED
    BY <2>1
<1>2. \A b : Kept(b)' => Kept(b)
  BY DEF Kept
<1>3. /\ \A b \in Buckets : Live[b] \in Int /\ row[b] \in Int
      /\ \A h \in Handlers : \A b \in Buckets : handler[h].sums[b] \in Int
  <2>1. Live \in [Buckets -> Int] /\ row \in [Buckets -> Int] /\ handler \in [Handlers -> Webhooks]
    BY LiveType DEF Forms
  <2>2. \A h \in Handlers : handler[h].sums \in [Buckets -> Int]
    BY <2>1 DEF Webhooks
  <2>3. QED
    BY <2>1, <2>2
<1>4. \A b \in Buckets : Live'[b] \in Int
  <2>1. ASSUME NEW b \in Buckets PROVE Live'[b] \in Int
    <3>1. Live'[b] = SumOver(Deltas(Counted(b)'), Counted(b)') /\ Counted(b)' \subseteq ledger'
      BY LiveSumsNext DEF Counted
    <3> DEFINE T == Counted(b)'
    <3>2. IsFiniteSet(T) /\ T \in SUBSET T /\ \A f \in T : f.delta \in Int
      BY <3>1, FS_Subset
    <3>3. Live'[b] = SumOver(Deltas(T), T)
      BY <3>1
    <3> HIDE DEF T
    <3>4. Deltas(T) \in [T -> Int]
      BY <3>2 DEF Deltas
    <3>5. QED
      BY <3>2, <3>3, <3>4, SumType
  <2>2. QED
    BY <2>1
<1>5. Fits'
  BY DEF Fits
<1>6. Debts'
  <2>1. SUFFICES ASSUME NEW b \in Buckets, Kept(b)
                 PROVE  /\ Live'[b] + overdrawn[b] >= 0
                        /\ "flush" \notin missed => row[b] <= Live'[b]
                        /\ \A h \in Handlers : handler[h].step = "summed" /\ "flush" \notin handler[h].missed =>
                                                  handler[h].sums[b] <= Live'[b]
                        /\ \A k \in Flushes : flushing[k].step = "read" /\ ~flushing[k].stale =>
                                                  flushing[k].plan[b] <= Positive(Live'[b])
    BY <1>2 DEF Debts
  <2> DEFINE x == Live[b]
             y == Live'[b]
  <2>2. /\ x \in Int /\ y \in Int /\ x <= y /\ row[b] \in Int /\ overdrawn[b] \in Nat
        /\ \A h \in Handlers : handler[h].sums[b] \in Int
        /\ \A k \in Flushes : flushing[k].plan[b] \in Nat
    BY <1>1, <1>3, <1>4 DEF Forms, Billings
  <2>3. /\ x + overdrawn[b] >= 0 /\ ("flush" \notin missed => row[b] <= x)
        /\ \A h \in Handlers : handler[h].step = "summed" /\ "flush" \notin handler[h].missed =>
                                  handler[h].sums[b] <= x
        /\ \A k \in Flushes : flushing[k].step = "read" /\ ~flushing[k].stale =>
                                  flushing[k].plan[b] <= Positive(x)
    BY <2>1 DEF BalanceInv, Debts
  <2> HIDE DEF x, y
  <2>4. /\ y + overdrawn[b] >= 0 /\ ("flush" \notin missed => row[b] <= y)
        /\ \A h \in Handlers : handler[h].step = "summed" /\ "flush" \notin handler[h].missed =>
                                  handler[h].sums[b] <= y
    <3>1. y + overdrawn[b] >= 0
      BY <2>2, <2>3
    <3>2. "flush" \notin missed => row[b] <= y
      BY <2>2, <2>3
    <3>3. ASSUME NEW h \in Handlers, handler[h].step = "summed", "flush" \notin handler[h].missed
          PROVE  handler[h].sums[b] <= y
      <4> DEFINE z == handler[h].sums[b]
      <4>1. z \in Int /\ z <= x
        BY <2>2, <2>3, <3>3
      <4> HIDE DEF z
      <4>2. z <= y
        BY <2>2, <4>1
      <4>3. QED
        BY <4>2 DEF z
    <3>4. QED
      BY <3>1, <3>2, <3>3
  <2>5. Positive(x) <= Positive(y) /\ Positive(x) \in Nat /\ Positive(y) \in Nat
    BY <2>2 DEF Positive
  <2>6. ASSUME NEW k \in Flushes, flushing[k].step = "read", ~flushing[k].stale
        PROVE  flushing[k].plan[b] <= Positive(y)
    <3> DEFINE z == flushing[k].plan[b]
               px == Positive(x)
               py == Positive(y)
    <3>1. px <= py /\ px \in Nat /\ py \in Nat
      BY <2>5
    <3>2. z \in Nat /\ z <= px
      BY <2>2, <2>3, <2>6
    <3> HIDE DEF z, px, py
    <3>3. z <= py
      BY <3>1, <3>2
    <3>4. QED
      BY <3>3 DEF z, py
  <2>7. QED
    BY <2>4, <2>6 DEF y
<1>7. QED
  BY <1>5, <1>6 DEF BalanceInv

\* A plan made from a row that has missed no flush takes no more than the ledger holds.
LEMMA BalancePlans ==
  ASSUME BillingAssumption, Forms, BalanceInv, NEW k \in Flushes, FlushReads(k)
  PROVE  BalanceInv'
<1>1. UNCHANGED <<now, ledger, row, handler, missed, overdrawn>>
  BY DEF FlushReads, webhookVars
<1>2. Live' = Live /\ \A b : Kept(b)' <=> Kept(b)
  BY <1>1, LiveRests DEF Kept
<1>3. /\ flushing'[k].step = "read" /\ flushing'[k].stale = ("flush" \in missed) /\ flushing'[k] \in Billings
      /\ \A b \in Buckets : flushing'[k].plan[b] <= Positive(row[b])
      /\ \A m \in Flushes : m # k => flushing'[m] = flushing[m]
  BY FlushReadsForms
<1>4. Fits'
  BY <1>1, <1>2 DEF BalanceInv, Fits
<1>5. ASSUME NEW b \in Buckets, Kept(b), "flush" \notin missed
      PROVE  flushing'[k].plan[b] <= Positive(Live[b])
  <2> DEFINE x == Live[b]
             r == row[b]
             p == flushing'[k].plan[b]
  <2>1. x \in Int /\ r \in Int /\ p \in Nat /\ p <= Positive(r)
    BY <1>3, LiveType DEF Forms, Billings
  <2>2. r <= x
    BY <1>5 DEF BalanceInv, Debts
  <2> HIDE DEF x, r, p
  <2>3. p <= Positive(x)
    BY <2>1, <2>2 DEF Positive
  <2>4. QED
    BY <2>3 DEF x, p
<1>6. Debts'
  <2>1. SUFFICES ASSUME NEW b \in Buckets, Kept(b)
                 PROVE  /\ Live[b] + overdrawn[b] >= 0
                        /\ "flush" \notin missed => row[b] <= Live[b]
                        /\ \A h \in Handlers : handler[h].step = "summed" /\ "flush" \notin handler[h].missed =>
                                                  handler[h].sums[b] <= Live[b]
                        /\ \A m \in Flushes : flushing'[m].step = "read" /\ ~flushing'[m].stale =>
                                                  flushing'[m].plan[b] <= Positive(Live[b])
    BY <1>1, <1>2 DEF Debts
  <2>2. /\ Live[b] + overdrawn[b] >= 0
        /\ "flush" \notin missed => row[b] <= Live[b]
        /\ \A h \in Handlers : handler[h].step = "summed" /\ "flush" \notin handler[h].missed =>
                                  handler[h].sums[b] <= Live[b]
        /\ \A m \in Flushes : flushing[m].step = "read" /\ ~flushing[m].stale =>
                                  flushing[m].plan[b] <= Positive(Live[b])
    BY <2>1 DEF BalanceInv, Debts
  <2>3. \A m \in Flushes : flushing'[m].step = "read" /\ ~flushing'[m].stale =>
                             flushing'[m].plan[b] <= Positive(Live[b])
    BY <1>3, <1>5, <2>1, <2>2
  <2>4. QED
    BY <2>2, <2>3
<1>7. QED
  BY <1>4, <1>6 DEF BalanceInv

LEMMA BalanceFlush ==
  ASSUME BillingAssumption, Forms, BalanceInv, NEW k \in Flushes, FlushCommits(k)
  PROVE  BalanceInv'
<1> DEFINE plan == flushing[k].plan
<1>1. /\ plan \in [Buckets -> Nat] /\ ledger' = Inserted(FlushEntries(k))
      /\ row' = [b \in Buckets |-> row[b] - plan[b]]
  BY FlushForms
<1>2. \A b \in Buckets : Live'[b] = Live[b] - plan[b] /\ Live[b] \in Int
  BY FlushLive
<1>3. /\ row \in [Buckets -> Int] /\ handler \in [Handlers -> Webhooks] /\ overdrawn \in [Buckets -> Nat]
      /\ flushing[k] \in Billings /\ flushing[k].step = "read"
      /\ \A m \in Flushes : flushing'[m].step = "read" => flushing'[m].stale
  BY OutdatedForms DEF Forms
<1>4. /\ handler' = Overtaken(handler, "flush") /\ UNCHANGED <<now, missed>>
      /\ overdrawn' = [b \in Buckets |-> IF flushing[k].stale THEN overdrawn[b] + plan[b] ELSE overdrawn[b]]
  BY DEF FlushCommits
<1>5. \A h \in Handlers : handler'[h].step = "summed" => "flush" \in handler'[h].missed
  <2>1. handler \in [Handlers -> Webhooks] /\ "flush" \in Causes /\ handler' = Overtaken(handler, "flush")
    BY <1>3, <1>4 DEF Causes
  <2>2. QED
    BY <2>1, OvertakenForms
<1>6. \A b : Kept(b)' => Kept(b)
  BY <1>1, <1>4 DEF Kept, Inserted
<1>7. Fits'
  <2>1. ASSUME missed = {} PROVE row' = Live'
    <3>1. \A b \in Buckets : row'[b] = Live'[b]
      BY <1>1, <1>2, <2>1 DEF BalanceInv, Fits
    <3>2. QED
      BY <1>1, <3>1, LiveSumsNext
  <2>2. QED
    BY <1>4, <1>5, <2>1 DEF Fits
<1>8. Debts'
  <2>1. SUFFICES ASSUME NEW b \in Buckets, Kept(b)'
                 PROVE  Live'[b] + overdrawn'[b] >= 0 /\ ("flush" \notin missed' => row'[b] <= Live'[b])
    BY <1>3, <1>5 DEF Debts
  <2> DEFINE x == Live[b]
             p == plan[b]
             r == row[b]
             w == overdrawn[b]
             stale == flushing[k].stale
  <2>2. x + w >= 0 /\ ("flush" \notin missed => r <= x) /\ (~stale => p <= Positive(x))
    BY <1>3, <1>6, <2>1 DEF BalanceInv, Debts
  <2>3. /\ x \in Int /\ p \in Nat /\ r \in Int /\ w \in Nat
        /\ Live'[b] = x - p /\ row'[b] = r - p /\ overdrawn'[b] = IF stale THEN w + p ELSE w
    BY <1>1, <1>2, <1>3, <1>4
  <2> HIDE DEF x, p, r, w, stale
  <2>4. CASE stale
    BY <1>4, <2>2, <2>3, <2>4
  <2>5. CASE ~stale
    <3>1. x - p + w >= 0
      BY <2>2, <2>3, <2>5 DEF Positive
    <3>2. QED
      BY <1>4, <2>2, <2>3, <2>5, <3>1
  <2>6. QED
    BY <2>4, <2>5
<1>9. QED
  BY <1>7, <1>8 DEF BalanceInv

LEMMA BalancePasses ==
  ASSUME BillingAssumption, Forms, BalanceInv, Passes
  PROVE  BalanceInv'
<1>1. now \in Nat /\ now' = now + 1 /\ UNCHANGED <<ledger, row, overdrawn, flushing>>
  BY DEF Passes, Forms
<1>2. \A f \in ledger : f.delta \in Int /\ f.delta # 0 /\ f.expires \in Nat
  BY EntryTypes DEF Forms
<1>3. handler \in [Handlers -> Webhooks] /\ "expiry" \in Causes
  BY DEF Forms, Causes
<1>4. \/ UNCHANGED <<handler, missed>>
      \/ handler' = Overtaken(handler, "expiry") /\ missed' = missed \cup {"expiry"}
  BY DEF Passes
<1>5. \A h \in Handlers : handler'[h].step = "summed" =>
        /\ handler[h].step = "summed" /\ handler'[h].sums = handler[h].sums
        /\ handler[h].missed \subseteq handler'[h].missed
  BY <1>3, <1>4, OvertakenForms
<1>6. \A b \in Buckets : Kept(b)' => Kept(b) /\ Counted(b)' = Counted(b)
  <2>1. ASSUME NEW b \in Buckets, Kept(b)' PROVE Kept(b) /\ Counted(b)' = Counted(b)
    <3>1. \A f \in ledger : f.bucket = b /\ f.delta > 0 => f.expires > now + 1
      BY <1>1, <2>1 DEF Kept
    <3>2. \A f \in ledger : f.bucket = b => (f.delta < 0 \/ f.expires > now + 1) /\ (f.delta < 0 \/ f.expires > now)
      BY <1>1, <1>2, <3>1
    <3>3. Kept(b)
      BY <1>1, <1>2, <3>1 DEF Kept
    <3>4. QED
      BY <1>1, <3>2, <3>3 DEF Counted, Counts
  <2>2. QED
    BY <2>1
<1>7. Debts'
  <2>1. \A b \in Buckets : Kept(b)' => Kept(b) /\ Live'[b] = Live[b]
    BY <1>6, LiveSame
  <2>2. missed \subseteq missed'
    BY <1>4
  <2>3. QED
    BY <1>1, <1>5, <2>1, <2>2 DEF BalanceInv, Debts
<1>8. Fits'
  <2>1. CASE \E f \in ledger : f.delta > 0 /\ f.expires = now + 1
    <3>1. handler' = Overtaken(handler, "expiry") /\ missed' = missed \cup {"expiry"}
      BY <2>1 DEF Passes
    <3>2. \A h \in Handlers : handler'[h].step = "summed" => "expiry" \in handler'[h].missed
      BY <1>3, <3>1, OvertakenForms
    <3>3. QED
      BY <3>1, <3>2 DEF Fits
  <2>2. CASE ~\E f \in ledger : f.delta > 0 /\ f.expires = now + 1
    <3>1. UNCHANGED <<handler, missed>>
      BY <2>2 DEF Passes
    <3>2. \A f \in ledger : (f.delta < 0 \/ f.expires > now + 1) <=> (f.delta < 0 \/ f.expires > now)
      BY <1>1, <1>2, <2>2
    <3>3. \A b \in Buckets : Counted(b)' = Counted(b)
      BY <1>1, <3>2 DEF Counted, Counts
    <3>4. \A b \in Buckets : Live'[b] = Live[b]
      BY <3>3, LiveSame
    <3>5. Live' = Live
      BY <3>4, LiveSums, LiveSumsNext
    <3>6. QED
      BY <1>1, <3>1, <3>5 DEF BalanceInv, Fits
  <2>3. QED
    BY <2>1, <2>2
<1>9. QED
  BY <1>7, <1>8 DEF BalanceInv

LEMMA EntryDeltasNext == BillingAssumption /\ Forms' => \A f \in ledger' : f.delta \in Int
<1>1. BillingAssumption /\ Forms => \A f \in ledger : f.delta \in Int
  BY EntryTypes DEF Forms
<1>2. (BillingAssumption /\ Forms => \A f \in ledger : f.delta \in Int)'
  BY <1>1, PTL
<1>3. QED
  BY <1>2

LEMMA BalanceStep == BillingAssumption /\ Forms /\ BalanceInv /\ [BillingNext]_billingVars => BalanceInv'
<1> SUFFICES ASSUME BillingAssumption, Forms, BalanceInv, [BillingNext]_billingVars PROVE BalanceInv'
  OBVIOUS
<1>1. Forms' /\ ledger \subseteq ledger'
  BY FormsStep, LedgerGrows
<1>2. handler \in [Handlers -> Webhooks] /\ row \in [Buckets -> Int] /\ Live \in [Buckets -> Int]
  BY LiveType DEF Forms
<1>3. CASE Register \/ UNCHANGED billingVars
  BY <1>3, BalanceRests DEF Register, webhookVars, billingVars
<1>4. ASSUME NEW h \in Handlers, NEW e \in Events, Applies(h, e) PROVE BalanceInv'
  <2> DEFINE hs == [handler EXCEPT ![h].step = "applied"]
  <2>1. /\ hs \in [Handlers -> Webhooks]
        /\ \A g \in Handlers : hs[g].step = "summed" => hs[g] = handler[g]
    <3>1. hs = Applied(h)
      BY DEF Applied
    <3> HIDE DEF hs
    <3>2. QED
      BY <3>1, AppliedForms
  <2>2. /\ UNCHANGED <<now, row, overdrawn, flushing>>
        /\ \/ handler' = hs /\ UNCHANGED <<missed, ledger>>
           \/ handler' = Overtaken(hs, "grant") /\ missed' = missed \cup {"grant"}
    BY <1>4 DEF Applies
  <2> HIDE DEF hs
  <2>3. CASE handler' = hs /\ UNCHANGED <<missed, ledger>>
    BY <2>1, <2>2, <2>3, BalanceRests
  <2>4. CASE handler' = Overtaken(hs, "grant") /\ missed' = missed \cup {"grant"}
    <3>1. \A g \in Handlers : handler'[g].step = "summed" =>
            /\ handler[g].step = "summed" /\ handler'[g].sums = handler[g].sums
            /\ handler'[g].missed = handler[g].missed \cup {"grant"}
      BY <2>1, <2>4, OvertakenForms DEF Causes
    <3>2. \A f \in ledger' \ ledger : f.delta > 0
      <4>1. \A f \in ledger' \ ledger : f \in Grants(e)
        BY <1>4, AppliesForms
      <4>2. \A f \in Grants(e) : \E i \in Nat : BoughtEntry(f, e, i)
        BY GrantsForms DEF Forms
      <4>3. \A f, i : BoughtEntry(f, e, i) => f.delta > 0
        BY DEF BoughtEntry, Listed, Entry, BillingAssumption
      <4>4. QED
        BY <4>1, <4>2, <4>3
    <3>3. IsFiniteSet(ledger')
      BY <1>1 DEF Forms
    <3>4. \A f \in ledger' : f.delta \in Int
      BY <1>1, EntryDeltasNext
    <3>5. "grant" \in Causes /\ "grant" # "flush"
      BY DEF Causes
    <3>6. QED
      BY <1>1, <2>2, <2>4, <3>1, <3>2, <3>3, <3>4, <3>5, BalanceGrows
  <2>5. QED
    BY <2>2, <2>3, <2>4
<1>5. ASSUME NEW t \in Tokens, GrantsTrial(t) PROVE BalanceInv'
  <2>1. /\ UNCHANGED <<now, row, overdrawn, flushing>>
        /\ \/ UNCHANGED <<handler, missed, ledger>>
           \/ handler' = Overtaken(handler, "trial") /\ missed' = missed \cup {"trial"}
    BY <1>5 DEF GrantsTrial
  <2>2. CASE UNCHANGED <<handler, missed, ledger>>
    BY <2>1, <2>2, BalanceRests
  <2>3. CASE handler' = Overtaken(handler, "trial") /\ missed' = missed \cup {"trial"}
    <3>1. \A g \in Handlers : handler'[g].step = "summed" =>
            /\ handler[g].step = "summed" /\ handler'[g].sums = handler[g].sums
            /\ handler'[g].missed = handler[g].missed \cup {"trial"}
      BY <1>2, <2>3, OvertakenForms DEF Causes
    <3>2. \A f \in ledger' \ ledger : f.delta > 0
      <4>1. \A f \in ledger' \ ledger : f = TheTrial
        BY <1>5, GrantsTrialForms
      <4>2. TheTrial.delta > 0
        BY DEF TheTrial, BillingAssumption
      <4>3. QED
        BY <4>1, <4>2
    <3>3. IsFiniteSet(ledger')
      BY <1>1 DEF Forms
    <3>4. \A f \in ledger' : f.delta \in Int
      BY <1>1, EntryDeltasNext
    <3>5. "trial" \in Causes /\ "trial" # "flush"
      BY DEF Causes
    <3>6. QED
      BY <1>1, <2>1, <2>3, <3>1, <3>2, <3>3, <3>4, <3>5, BalanceGrows
  <2>4. QED
    BY <2>1, <2>2, <2>3
<1>6. ASSUME NEW h \in Handlers, Sums(h) PROVE BalanceInv'
  <2> DEFINE L == Live
  <2>1. /\ UNCHANGED <<now, ledger, row, missed, overdrawn, flushing>>
        /\ handler' = [handler EXCEPT ![h].step = "summed", ![h].sums = L, ![h].missed = {}]
    BY <1>6 DEF Sums
  <2>2. Live' = L /\ \A b : Kept(b)' <=> Kept(b)
    BY <2>1, LiveRests DEF Kept
  <2> HIDE DEF L
  <2>3. handler'[h].sums = L /\ \A g \in Handlers : g # h => handler'[g] = handler[g]
    BY <1>2, <2>1 DEF Webhooks
  <2>4. L = Live
    BY DEF L
  <2>5. \A b \in Buckets : L[b] <= L[b]
    BY <1>2, <2>4
  <2>6. Fits'
    BY <2>1, <2>2, <2>3, <2>4 DEF BalanceInv, Fits
  <2>7. Debts'
    BY <2>1, <2>2, <2>3, <2>4, <2>5 DEF BalanceInv, Debts
  <2>8. QED
    BY <2>6, <2>7 DEF BalanceInv
<1>7. ASSUME NEW h \in Handlers, Writes(h) PROVE BalanceInv'
  <2>1. /\ UNCHANGED <<now, ledger, overdrawn, flushing>> /\ row' = handler[h].sums /\ missed' = handler[h].missed
        /\ handler[h].step = "summed"
        /\ handler'[h] = Idle /\ \A g \in Handlers : g # h => handler'[g] = handler[g]
    BY <1>2, <1>7 DEF Writes, Replaced
  <2>2. Live' = Live /\ \A b : Kept(b)' <=> Kept(b)
    BY <2>1, LiveRests DEF Kept
  <2>3. Idle.step # "summed"
    BY IdleForms
  <2>4. Fits'
    BY <2>1, <2>2, <2>3 DEF BalanceInv, Fits
  <2>5. Debts'
    BY <2>1, <2>2, <2>3 DEF BalanceInv, Debts
  <2>6. QED
    BY <2>4, <2>5 DEF BalanceInv
<1>8. ASSUME NEW h \in Handlers, WebhookFails(h) \/ \E e \in Events : Deliver(h, e) PROVE BalanceInv'
  <2>1. UNCHANGED <<now, ledger, row, missed, overdrawn, flushing>>
    BY <1>8 DEF WebhookFails, Deliver
  <2>2. \A g \in Handlers : handler'[g].step = "summed" => handler'[g] = handler[g]
    <3>1. CASE WebhookFails(h)
      BY <1>2, <3>1, IdleForms DEF WebhookFails
    <3>2. ASSUME NEW e \in Events, Deliver(h, e)
          PROVE  \A g \in Handlers : handler'[g].step = "summed" => handler'[g] = handler[g]
      BY <1>2, <3>2 DEF Deliver, Idle
    <3>3. QED
      BY <1>8, <3>1, <3>2
  <2>3. QED
    BY <2>1, <2>2, BalanceRests
<1>9. ASSUME NEW t \in Tokens, SendsLink(t) \/ OpensLink(t) \/ Verifies(t) \/ MarksTrial(t) \/ VerifyFails(t)
      PROVE  BalanceInv'
  <2>1. UNCHANGED <<now, ledger, row, missed, overdrawn, flushing, handler>>
    BY <1>9 DEF SendsLink, OpensLink, Verifies, MarksTrial, VerifyFails, webhookVars
  <2>2. QED
    BY <2>1, BalanceRests
<1>10. QED
  BY <1>3, <1>4, <1>5, <1>6, <1>7, <1>8, <1>9, BalancePlans, BalanceFlush, BalancePasses DEF BillingNext, Works

LEMMA DebtHasCauseHolds == BillingAssumption /\ Forms /\ BalanceInv => DebtHasCause
<1> SUFFICES ASSUME BillingAssumption, Forms, BalanceInv, NEW b \in Buckets, ~(Live[b] + overdrawn[b] >= 0)
             PROVE  \E e \in ledger : e.bucket = b /\ e.delta > 0 /\ e.expires <= now
  BY DEF DebtHasCause
<1>1. Live[b] \in Int /\ now \in Nat /\ \A e \in ledger : e.expires \in Nat
  BY LiveType, EntryTypes DEF Forms
<1>2. ~Kept(b)
  BY <1>1 DEF BalanceInv, Debts
<1>3. QED
  BY <1>1, <1>2 DEF Kept

\* What holds of an account whatever its webhooks, links and flushes do.
BillingInv == Forms /\ PurchaseInv /\ TrialInv /\ BalanceInv

LEMMA BillingIsKept == BillingSpec => []BillingInv
<1>1. BillingInit => BillingInv
  BY BillingAssumption, FormsInit, PurchaseInit, BalanceInit DEF BillingInv
<1>2. BillingInv /\ [BillingNext]_billingVars => BillingInv'
  BY BillingAssumption, FormsStep, PurchaseStep, TrialStep, BalanceStep DEF BillingInv
<1>3. QED
  BY <1>1, <1>2, PTL DEF BillingSpec

\* However webhooks, flushes and links overlap, the row differs from the ledger only when
\* something has moved the ledger after the sums it was written from (paddle.ts:159-182).
THEOREM BillingRowIsLedger == BillingSpec => []RowIsLedger
<1>1. BillingInv => RowIsLedger
  BY DEF BillingInv, BalanceInv, Fits, RowIsLedger
<1>2. QED
  BY <1>1, BillingIsKept, PTL

\* Every answered event has granted each of its items once, and nothing else was granted
\* but one trial (paddle.ts:5-6, 84-88; verify/route.ts:38-55).
THEOREM BillingGrantedOnce == BillingSpec => []GrantedOnce
<1>1. BillingInv => GrantedOnce
  BY BillingAssumption, GrantedOnceHolds DEF BillingInv
<1>2. QED
  BY <1>1, BillingIsKept, PTL

\* For every plan and however flushes, refreshes and grants overlap, a bucket without an
\* expired grant is in debt by no more than stale plans have taken from it
\* (metering.ts:341-344, credits.ts:34, ledger.ts:48-51).
THEOREM BillingDebtHasCause == BillingSpec => []DebtHasCause
<1>1. BillingInv => DebtHasCause
  BY BillingAssumption, DebtHasCauseHolds DEF BillingInv
<1>2. QED
  BY <1>1, BillingIsKept, PTL
=============================================================================
