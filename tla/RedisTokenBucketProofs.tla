----------------------- MODULE RedisTokenBucketProofs -----------------------
(***************************************************************************)
(* Proofs about RedisTokenBucket, for any number of clients, any limit,    *)
(* rate, costs and clocks.                                                 *)
(*                                                                         *)
(* On any network the grants are covered by the time the evaluations saw   *)
(* pass.  When calls are evaluated in the order of their timestamps that   *)
(* time is bounded by real time, and the quota follows.                    *)
(***************************************************************************)
EXTENDS RedisTokenBucket, TLAPS

-----------------------------------------------------------------------------
(* Products, which are not linear.                                          *)

\* A product of naturals is one.
LEMMA ProductIsNatural == \A m, n \in Nat : m * n \in Nat
  OBVIOUS

\* Products distribute over sums.
LEMMA Distributes == \A k, m, n \in Nat : k * (m + n) = k * m + k * n
  OBVIOUS

\* Products grow with their factors.
LEMMA Monotone == \A k, m, n \in Nat : m <= n => k * m <= k * n
<1> SUFFICES ASSUME NEW k \in Nat, NEW m \in Nat, NEW n \in Nat, m <= n
             PROVE  k * m <= k * n
  OBVIOUS
<1>1. PICK d \in Nat : n = m + d
  <2> WITNESS n - m \in Nat
  <2> QED
    OBVIOUS
<1>2. k * n = k * m + k * d /\ k * m \in Nat /\ k * d \in Nat
  BY <1>1, Distributes, ProductIsNatural
<1>3. QED
  BY <1>2

-----------------------------------------------------------------------------

\* The capacity counts fractions.
LEMMA CapacityIsNatural == Capacity \in Nat
  BY BucketAssumption, ProductIsNatural DEF Capacity

\* Time never counts backwards.
LEMMA ElapsedIsNatural == \A from, to \in Nat : Elapsed(from, to) \in Nat
  BY DEF Elapsed

-----------------------------------------------------------------------------
(* The script.                                                              *)

\* The bucket never holds more than its capacity, nor more than it held plus
\* the refill for the time it saw pass.
LEMMA RefillIsBounded ==
    ASSUME TypeOK, NEW now \in Nat
    PROVE  /\ Refilled(now) \in 0 .. Capacity
           /\ Refilled(now) <= Held + Rate * Elapsed(lastRefill, now)
<1>1. Elapsed(lastRefill, now) * Rate \in Nat
  BY BucketAssumption, ProductIsNatural, ElapsedIsNatural DEF TypeOK
<1>2. Elapsed(lastRefill, now) * Rate = Rate * Elapsed(lastRefill, now)
  BY BucketAssumption, ElapsedIsNatural DEF TypeOK
<1> HIDE DEF Elapsed
<1>3. CASE exists
  BY <1>1, <1>2, <1>3, CapacityIsNatural DEF TypeOK, Refilled, Smaller, Held
<1>4. CASE ~exists
  BY <1>1, <1>2, <1>4, CapacityIsNatural DEF Refilled, Held
<1>5. QED
  BY <1>3, <1>4

\* An evaluation splits the refilled bucket into what it grants and what it
\* leaves; nothing is granted twice and nothing goes below zero.
LEMMA EvalConserves ==
    ASSUME TypeOK, NEW now \in Nat, NEW cost \in Nat, Eval(now, cost)
    PROVE  /\ granted' \in Nat
           /\ tokens' \in 0 .. Capacity
           /\ granted' + tokens' = granted + Refilled(now)
<1>1. cost * Unit \in Nat
  BY BucketAssumption, ProductIsNatural
<1>2. Refilled(now) \in 0 .. Capacity
  BY RefillIsBounded
<1>3. CASE Refilled(now) >= cost * Unit
  <2>1. granted' = granted + cost * Unit /\ tokens' = Refilled(now) - cost * Unit
    BY <1>3 DEF Eval
  <2> HIDE DEF Refilled, Capacity
  <2>2. QED
    BY <1>1, <1>2, <1>3, <2>1, CapacityIsNatural DEF TypeOK
<1>4. CASE ~(Refilled(now) >= cost * Unit)
  <2>1. granted' = granted /\ tokens' = Refilled(now)
    BY <1>4 DEF Eval
  <2>2. QED
    BY <1>2, <2>1, CapacityIsNatural DEF TypeOK
<1>5. QED
  BY <1>3, <1>4

\* A call in flight carries a timestamp and a cost.
LEMMA CallTyping ==
    ASSUME TypeOK, NEW c \in Client
    PROVE  sentAt[c] \in Nat /\ sentCost[c] \in Nat
<1>1. sentAt[c] \in Nat /\ sentCost[c] \in Cost \cup {0}
  BY DEF TypeOK
<1>2. Cost \subseteq Nat
  BY BucketAssumption
<1>3. CASE sentCost[c] = 0
  BY <1>1, <1>3
<1>4. CASE sentCost[c] \in Cost
  BY <1>1, <1>2, <1>4, Zenon
<1>5. QED
  BY <1>1, <1>3, <1>4

-----------------------------------------------------------------------------
(* Type correctness.                                                        *)

\* An evaluation keeps the key and the history typed.
LEMMA EvalTyping ==
    ASSUME TypeOK, NEW c \in Client, Eval(sentAt[c], sentCost[c])
    PROVE  /\ exists' \in BOOLEAN
           /\ tokens' \in 0 .. Capacity
           /\ lastRefill' \in Nat
           /\ granted' \in Nat
           /\ lastNow' \in Nat
           /\ advanced' \in Nat
           /\ losses' \in Nat
           /\ evaluations' \in Nat
<1>1. sentAt[c] \in Nat /\ sentCost[c] \in Nat
  BY CallTyping
<1>2. granted' \in Nat /\ tokens' \in 0 .. Capacity
  BY <1>1, EvalConserves
<1>3. advanced' \in Nat
  <2>1. Elapsed(lastNow, sentAt[c]) \in Nat
    BY <1>1, ElapsedIsNatural DEF TypeOK
  <2>2. advanced' = advanced + Elapsed(lastNow, sentAt[c])
    BY DEF Eval
  <2>3. QED
    BY <2>1, <2>2 DEF TypeOK
<1>4. QED
  BY <1>1, <1>2, <1>3 DEF Eval, TypeOK

\* So does a seed.
LEMMA SeedTyping ==
    ASSUME TypeOK, NEW seed \in seeding, Seed(seed[1], seed[2])
    PROVE  /\ exists' \in BOOLEAN
           /\ tokens' \in 0 .. Capacity
           /\ lastRefill' \in Nat
           /\ seeded' \in Nat
           /\ lastNow' \in Nat
           /\ advanced' \in Nat
<1>1. seed[1] \in Nat /\ seed[2] \in 0 .. Capacity
  BY DEF TypeOK
<1>2. Elapsed(lastNow, seed[1]) \in Nat
  BY <1>1, ElapsedIsNatural DEF TypeOK
<1>3. QED
  BY <1>1, <1>2, CapacityIsNatural DEF Seed, TypeOK

\* Every step keeps the state typed.
LEMMA NextTyping ==
    ASSUME TypeOK, [Next]_vars
    PROVE  TypeOK'
<1> USE DEF TypeOK
<1>0. Capacity' = Capacity
  BY DEF Capacity
<1>1. ASSUME NEW c \in Client, NEW cost \in Cost, Send(c, cost)
      PROVE  TypeOK'
  <2>1. time + Skew[c] \in Nat
    BY BucketAssumption
  <2>2. /\ inFlight' \in SUBSET Client
        /\ sentAt' \in [Client -> Nat]
        /\ sentCost' \in [Client -> Cost \cup {0}]
    BY <1>1, <2>1 DEF Send
  <2>3. QED
    BY <1>0, <1>1, <2>2 DEF Send, keyVars, seedVars, historyVars
<1>2. ASSUME NEW c \in Client, Evaluate(c)
      PROVE  TypeOK'
  <2>1. Eval(sentAt[c], sentCost[c])
    BY <1>2 DEF Evaluate
  <2>2. QED
    BY <1>0, <1>2, <2>1, EvalTyping DEF Evaluate, Forget, seedVars
<1>3. ASSUME NEW c \in Client, EvaluateAndResend(c)
      PROVE  TypeOK'
  <2>1. Eval(sentAt[c], sentCost[c])
    BY <1>3 DEF EvaluateAndResend
  <2>2. QED
    BY <1>0, <1>3, <2>1, EvalTyping DEF EvaluateAndResend, callVars, seedVars
<1>4. ASSUME NEW c \in Client, Fail(c)
      PROVE  TypeOK'
  BY <1>0, <1>4 DEF Fail, Forget, keyVars, seedVars, historyVars
<1>5. CASE Lose
  <2>1. exists' \in BOOLEAN
    BY <1>5 DEF Lose
  <2>2. losses' \in Nat
    BY <1>5 DEF Lose
  <2>3. QED
    BY <1>0, <1>5, <2>1, <2>2, CapacityIsNatural DEF Lose, callVars, seedVars
<1>6. CASE Tick
  BY <1>0, <1>6 DEF Tick, keyVars, callVars, seedVars, historyVars
<1>7. CASE UNCHANGED vars
  BY <1>0, <1>7 DEF vars, keyVars, callVars, seedVars, historyVars
<1>8. ASSUME NEW c \in Client, NEW view \in Views, SendSeed(c, view)
      PROVE  TypeOK'
  <2>1. <<time + Skew[c], view>> \in Nat \X (0 .. Capacity)
    BY BucketAssumption DEF Capacity
  <2>2. QED
    BY <1>0, <1>8, <2>1 DEF SendSeed, keyVars, callVars, historyVars
<1>9. ASSUME NEW seed \in seeding, SeedStep(seed)
      PROVE  TypeOK'
  <2>1. seeding' \in SUBSET (Nat \X (0 .. Capacity))
    BY <1>9 DEF SeedStep, Apply, ApplyAndResend, Drop
  <2>2. CASE Seed(seed[1], seed[2])
    BY <1>0, <2>1, <2>2, SeedTyping DEF Seed, callVars
  <2>3. CASE Drop(seed)
    BY <1>0, <2>1, <2>3 DEF Drop, keyVars, callVars, historyVars
  <2>4. QED
    BY <1>9, <2>2, <2>3 DEF SeedStep, Apply, ApplyAndResend
<1>10. QED
  BY <1>1, <1>2, <1>3, <1>4, <1>5, <1>6, <1>7, <1>8, <1>9 DEF Next

(***************************************************************************)
(* On any network and with any clocks the bucket holds between nothing and *)
(* its limit: no denial takes tokens and no refill overfills.              *)
(***************************************************************************)
THEOREM TypeCorrect == Spec => []TypeOK
<1>1. Init => TypeOK
  <2> SUFFICES ASSUME Init PROVE TypeOK
    OBVIOUS
  <2>1. exists \in BOOLEAN
    BY DEF Init
  <2>2. tokens \in 0 .. Capacity
    BY CapacityIsNatural DEF Init
  <2>3. QED
    BY <2>1, <2>2 DEF Init, TypeOK
<1>2. TypeOK /\ [Next]_vars => TypeOK'
  BY NextTyping
<1>3. QED
  BY <1>1, <1>2, PTL DEF Spec

-----------------------------------------------------------------------------
(* Grants are covered.                                                      *)

\* The strengthening: a key remembers the `now` of the last evaluation.
Stamped == exists => lastRefill = lastNow

\* What may be granted beyond the bucket that was there at first: a full one
\* for each loss of the key, what seeds wrote, and the refill.
Allowance == Capacity * losses + seeded + Rate * advanced

LEMMA LedgerTyping ==
    ASSUME TypeOK
    PROVE  /\ Capacity * losses \in Nat /\ Rate * advanced \in Nat /\ Capacity \in Nat
           /\ Allowance \in Nat /\ Held \in 0 .. Capacity /\ granted \in Nat
<1>1. Capacity * losses \in Nat /\ Rate * advanced \in Nat /\ Capacity \in Nat
  BY BucketAssumption, ProductIsNatural, CapacityIsNatural DEF TypeOK
<1>2. Held \in 0 .. Capacity /\ granted \in Nat
  BY CapacityIsNatural DEF TypeOK, Held
<1>3. Allowance \in Nat
  BY <1>1 DEF Allowance, TypeOK
<1>4. QED
  BY <1>1, <1>2, <1>3

\* What was granted and is held grows by no more than the allowance.
Conserves ==
    /\ Stamped'
    /\ granted' + Held' + Allowance <= granted + Held + Allowance'

\* An evaluation adds at most the refill for the time it saw pass.
LEMMA EvalConservesAll ==
    ASSUME TypeOK, Stamped, NEW c \in Client, Eval(sentAt[c], sentCost[c]), seeded' = seeded
    PROVE  Conserves
<1> DEFINE now == sentAt[c]
           step == Elapsed(lastNow, now)
           base == Capacity * losses + seeded
           credit == Rate * advanced
           refill == Rate * step
<1>0. Capacity' = Capacity
  BY DEF Capacity
<1>1. now \in Nat /\ sentCost[c] \in Nat
  BY CallTyping
<1>2. step \in Nat
  BY <1>1, ElapsedIsNatural DEF TypeOK
<1>3. granted' + tokens' = granted + Refilled(now) /\ granted' \in Nat /\ tokens' \in Nat
  BY <1>1, EvalConserves, CapacityIsNatural
<1>4. refill \in Nat
  BY <1>2, BucketAssumption, ProductIsNatural
<1>5. Refilled(now) <= Held + refill /\ Refilled(now) \in Nat
  <2>1. CASE exists
    BY <1>1, <2>1, RefillIsBounded, CapacityIsNatural DEF Stamped
  <2>2. CASE ~exists
    <3>1. Refilled(now) = Capacity /\ Held = Capacity
      BY <2>2 DEF Refilled, Held
    <3> HIDE DEF refill
    <3>2. QED
      BY <1>4, <3>1, CapacityIsNatural
  <2>3. QED
    BY <2>1, <2>2
<1>6. /\ exists' /\ lastRefill' = now /\ lastNow' = now
      /\ losses' = losses /\ advanced' = advanced + step
  BY DEF Eval
<1>7. Rate * advanced' = credit + refill
  BY <1>2, <1>6, BucketAssumption, Distributes DEF TypeOK
<1>8. Held' = tokens'
  BY <1>6 DEF Held
<1>9. /\ base \in Nat /\ credit \in Nat /\ Held \in Nat /\ granted \in Nat
      /\ Allowance = base + credit
  BY LedgerTyping DEF TypeOK, Allowance
<1>10. Allowance' = base + (credit + refill)
  BY <1>0, <1>6, <1>7 DEF Allowance
<1> DEFINE more == granted'
           left == tokens'
           found == Refilled(now)
<1>11. /\ more + left = granted + found /\ more \in Nat /\ left \in Nat
       /\ found <= Held + refill /\ found \in Nat
  BY <1>3, <1>5
<1> HIDE DEF base, credit, refill, step, more, left, found
<1>12. more + left + (base + credit) <= granted + Held + (base + (credit + refill))
  BY <1>4, <1>9, <1>11
<1>13. granted' + Held' + Allowance <= granted + Held + Allowance'
  BY <1>8, <1>9, <1>10, <1>12 DEF more, left
<1>14. QED
  BY <1>6, <1>13 DEF Conserves, Stamped

\* A seed puts what it writes into the bucket, and no more.
LEMMA SeedConserves ==
    ASSUME TypeOK, NEW seed \in seeding, Seed(seed[1], seed[2])
    PROVE  Conserves
<1> DEFINE step == Elapsed(lastNow, seed[1])
           base == Capacity * losses
           credit == Rate * advanced
           refill == Rate * step
           view == seed[2]
<1>0. Capacity' = Capacity
  BY DEF Capacity
<1>1. /\ seed[1] \in Nat /\ view \in Nat /\ seeded \in Nat /\ advanced \in Nat
      /\ lastNow \in Nat
  BY CapacityIsNatural DEF TypeOK
<1>2. step \in Nat
  BY <1>1, ElapsedIsNatural
<1>3. refill \in Nat
  BY <1>2, BucketAssumption, ProductIsNatural
<1>4. /\ exists' /\ lastRefill' = lastNow' /\ losses' = losses /\ granted' = granted
      /\ tokens' = view /\ seeded' = seeded + view /\ advanced' = advanced + step
  BY DEF Seed
<1>5. Rate * advanced' = credit + refill
  BY <1>1, <1>2, <1>4, BucketAssumption, Distributes
<1>6. /\ base \in Nat /\ credit \in Nat /\ Held \in Nat /\ granted \in Nat
      /\ Allowance = base + seeded + credit
  BY LedgerTyping DEF Allowance
<1>7. Allowance' = base + (seeded + view) + (credit + refill) /\ Held' = view
  BY <1>0, <1>4, <1>5 DEF Allowance, Held
<1> HIDE DEF base, credit, refill, step, view
<1>8. granted' + Held' + Allowance <= granted + Held + Allowance'
  BY <1>1, <1>3, <1>4, <1>6, <1>7
<1>9. QED
  BY <1>4, <1>8 DEF Conserves, Stamped

\* The key that replaces a lost one brings a full bucket.
LEMMA LossConserves ==
    ASSUME TypeOK, Lose
    PROVE  Conserves
<1> DEFINE base == Capacity * losses
           credit == Rate * advanced
<1>0. Capacity' = Capacity
  BY DEF Capacity
<1>1. /\ ~exists' /\ losses' = losses + 1 /\ granted' = granted
      /\ seeded' = seeded /\ advanced' = advanced
  BY DEF Lose, seedVars
<1>2. /\ base \in Nat /\ credit \in Nat /\ Held \in Nat /\ granted \in Nat /\ seeded \in Nat
      /\ Capacity \in Nat /\ Allowance = base + seeded + credit
  BY LedgerTyping DEF Allowance, TypeOK
<1>3. Capacity * losses' = base + Capacity
  <2>1. Capacity * (losses + 1) = base + Capacity * 1 /\ Capacity * 1 = Capacity
    BY <1>2, Distributes DEF TypeOK
  <2>2. QED
    BY <1>1, <2>1
<1>4. Held' = Capacity /\ Allowance' = (base + Capacity) + seeded + credit
  BY <1>0, <1>1, <1>3 DEF Held, Allowance
<1> HIDE DEF base, credit
<1>5. granted' + Held' + Allowance <= granted + Held + Allowance'
  BY <1>1, <1>2, <1>4
<1>6. QED
  BY <1>1, <1>5 DEF Conserves, Stamped

\* So no step of anyone gives more than the allowance grows by.
LEMMA NextConserves ==
    ASSUME TypeOK, Stamped, [Next]_vars
    PROVE  Conserves
<1>1. ASSUME NEW c \in Client, Evaluate(c) \/ EvaluateAndResend(c)
      PROVE  Conserves
  BY <1>1, EvalConservesAll DEF Evaluate, EvaluateAndResend, seedVars
<1>2. ASSUME NEW seed \in seeding, Seed(seed[1], seed[2])
      PROVE  Conserves
  BY <1>2, SeedConserves
<1>3. CASE Lose
  BY <1>3, LossConserves
<1>4. CASE UNCHANGED <<keyVars, seeded, historyVars>>
  <2>1. Held' = Held /\ Allowance' = Allowance /\ granted' = granted /\ Stamped'
    BY <1>4 DEF Held, Allowance, Capacity, Stamped, keyVars, historyVars
  <2>2. Held \in Nat /\ Allowance \in Nat /\ granted \in Nat
    BY LedgerTyping
  <2>3. QED
    BY <2>1, <2>2 DEF Conserves
<1>5. QED
  BY <1>1, <1>2, <1>3, <1>4
     DEF Next, Send, Fail, SendSeed, SeedStep, Apply, ApplyAndResend, Drop, Tick, vars, seedVars

LEMMA StampInvariance == Spec => []Stamped
<1>1. Init => Stamped
  BY DEF Init, Stamped
<1>2. TypeOK /\ Stamped /\ [Next]_vars => Stamped'
  BY NextConserves DEF Conserves
<1>3. QED
  BY <1>1, <1>2, TypeCorrect, PTL DEF Spec

\* Since g was granted, and the allowance was d, a bucket that was not more
\* than full, and what it was allowed since, covers what was granted since and
\* is held now.
CoveredSince(g, d) == granted + Held + d <= g + Capacity + Allowance

LEMMA CoverageLasts ==
    ASSUME TypeOK, Stamped, [Next]_vars, NEW g \in Nat, NEW d \in Nat, CoveredSince(g, d)
    PROVE  CoveredSince(g, d)'
<1>1. Capacity' = Capacity /\ Capacity \in Nat
  BY CapacityIsNatural DEF Capacity
<1>2. granted' + Held' + Allowance <= granted + Held + Allowance'
  BY NextConserves DEF Conserves
<1>3. granted \in Nat /\ Held \in Nat /\ Allowance \in Nat
  BY LedgerTyping
<1>4. granted' \in Nat /\ Held' \in Nat /\ Allowance' \in Nat
  <2>1. TypeOK'
    BY NextTyping
  <2>2. (granted \in Nat /\ Held \in 0 .. Capacity /\ Allowance \in Nat)'
    BY <2>1, LedgerTyping, PTL
  <2>3. QED
    BY <1>1, <2>2
<1>5. granted + Held + d <= g + Capacity + Allowance
  BY DEF CoveredSince
<1> DEFINE more == granted'
           left == Held'
           allowed == Allowance'
<1>6. /\ more \in Nat /\ left \in Nat /\ allowed \in Nat
      /\ more + left + Allowance <= granted + Held + allowed
  BY <1>2, <1>4
<1> HIDE DEF more, left, allowed
<1>7. more + left + d <= g + Capacity + allowed
  BY <1>1, <1>3, <1>5, <1>6
<1>8. QED
  BY <1>1, <1>7 DEF CoveredSince, more, left, allowed

(***************************************************************************)
(* On any network and with any clocks, what was granted and what is still  *)
(* held stay within a full bucket per life of the key plus the refill for  *)
(* the time the evaluations saw pass.                                      *)
(***************************************************************************)
THEOREM GrantsCovered == Spec => []GrantsAreCovered
<1>1. Init => CoveredSince(0, 0)
  <2> SUFFICES ASSUME Init PROVE CoveredSince(0, 0)
    OBVIOUS
  <2>1. Capacity * 0 = 0 /\ Rate * 0 = 0 /\ Capacity \in Nat
    BY CapacityIsNatural, BucketAssumption
  <2>2. Held = Capacity /\ granted = 0 /\ Allowance = 0
    BY <2>1 DEF Init, Held, Allowance
  <2>3. QED
    BY <2>1, <2>2 DEF CoveredSince
<1>2. TypeOK /\ Stamped /\ CoveredSince(0, 0) /\ [Next]_vars => CoveredSince(0, 0)'
  BY CoverageLasts
<1>3. TypeOK /\ CoveredSince(0, 0) => GrantsAreCovered
  <2> SUFFICES ASSUME TypeOK, CoveredSince(0, 0) PROVE GrantsAreCovered
    OBVIOUS
  <2> DEFINE lost == Capacity * losses
             credit == Rate * advanced
  <2>1. /\ lost \in Nat /\ credit \in Nat /\ Capacity \in Nat /\ Held \in Nat
        /\ granted \in Nat /\ seeded \in Nat /\ losses \in Nat
    BY LedgerTyping DEF TypeOK
  <2>2. Capacity * (1 + losses) = Capacity + lost
    <3>1. Capacity * (1 + losses) = Capacity * 1 + lost /\ Capacity * 1 = Capacity
      BY <2>1, Distributes
    <3>2. QED
      BY <3>1
  <2>3. granted + Held + 0 <= 0 + Capacity + (lost + seeded + credit)
    BY DEF CoveredSince, Allowance
  <2> HIDE DEF lost, credit
  <2>4. granted + Held <= (Capacity + lost) + seeded + credit
    BY <2>1, <2>3
  <2>5. QED
    BY <2>2, <2>4 DEF GrantsAreCovered, credit
<1>4. QED
  BY <1>1, <1>2, <1>3, TypeCorrect, StampInvariance, PTL DEF Spec

(***************************************************************************)
(* The same from any moment on, and not only from the start: when g was    *)
(* granted and the allowance was d, at most a full bucket is granted ever  *)
(* after beyond what the allowance grows by, that is a full bucket for     *)
(* each loss of the key since, what seeds wrote since, and the refill for  *)
(* the time the evaluations saw pass since.  However long it was idle, and *)
(* whichever calls were on their way, the bucket saved up one burst.       *)
(***************************************************************************)
THEOREM BurstsBounded ==
    ASSUME NEW g \in Nat, NEW d \in Nat
    PROVE  Spec => [](granted = g /\ Allowance = d
                        => [](granted - g <= Capacity + (Allowance - d)))
<1>1. TypeOK /\ granted = g /\ Allowance = d => CoveredSince(g, d)
  <2> SUFFICES ASSUME TypeOK, granted = g, Allowance = d PROVE CoveredSince(g, d)
    OBVIOUS
  <2>1. Held \in 0 .. Capacity /\ Capacity \in Nat
    BY LedgerTyping
  <2>2. QED
    BY <2>1 DEF CoveredSince
<1>2. TypeOK /\ Stamped /\ CoveredSince(g, d) /\ [Next]_vars => CoveredSince(g, d)'
  BY CoverageLasts
<1>3. TypeOK /\ CoveredSince(g, d) => granted - g <= Capacity + (Allowance - d)
  <2> SUFFICES ASSUME TypeOK, CoveredSince(g, d)
               PROVE  granted - g <= Capacity + (Allowance - d)
    OBVIOUS
  <2>1. Held \in 0 .. Capacity /\ Capacity \in Nat /\ granted \in Nat /\ Allowance \in Nat
    BY LedgerTyping
  <2>2. QED
    BY <2>1 DEF CoveredSince
<1>4. QED
  BY <1>1, <1>2, <1>3, TypeCorrect, StampInvariance, PTL DEF Spec

-----------------------------------------------------------------------------
(* The quota, when calls are evaluated in the order of their timestamps.    *)

\* No timestamp is ahead of the fastest clock, so neither is the last one
\* evaluated.
TimeIsReal ==
    /\ \A c \in Client : sentAt[c] <= time + MaxSkew
    /\ \A seed \in seeding : seed[1] <= time + MaxSkew
    /\ lastNow <= time + MaxSkew

\* Timestamps are taken from clocks, and clocks only move on.
LEMMA TimeInvariance == Spec => []TimeIsReal
<1>1. Init => TimeIsReal
  BY BucketAssumption DEF Init, TimeIsReal
<1>2. TypeOK /\ TimeIsReal /\ [Next]_vars => TimeIsReal'
  <2> SUFFICES ASSUME TypeOK, TimeIsReal, [Next]_vars
               PROVE  TimeIsReal'
    OBVIOUS
  <2> USE BucketAssumption DEF TypeOK, TimeIsReal
  <2>1. ASSUME NEW c \in Client, NEW cost \in Cost, Send(c, cost)
        PROVE  TimeIsReal'
    BY <2>1 DEF Send, seedVars, historyVars
  <2>2. ASSUME NEW c \in Client, Evaluate(c) \/ EvaluateAndResend(c)
        PROVE  TimeIsReal'
    <3>1. time' = time /\ lastNow' = sentAt[c] /\ seeding' = seeding
      BY <2>2 DEF Evaluate, EvaluateAndResend, Eval, seedVars
    <3>2. \A d \in Client : sentAt'[d] = sentAt[d] \/ sentAt'[d] = 0
      BY <2>2 DEF Evaluate, EvaluateAndResend, Forget, callVars
    <3>3. QED
      BY <3>1, <3>2
  <2>3. ASSUME NEW c \in Client, Fail(c)
        PROVE  TimeIsReal'
    BY <2>3 DEF Fail, Forget, seedVars, historyVars
  <2>4. CASE Lose
    BY <2>4 DEF Lose, callVars, seedVars
  <2>5. CASE Tick
    BY <2>5 DEF Tick, callVars, seedVars, historyVars
  <2>6. CASE UNCHANGED vars
    BY <2>6 DEF vars, callVars, seedVars, historyVars
  <2>7. ASSUME NEW c \in Client, NEW view \in Views, SendSeed(c, view)
        PROVE  TimeIsReal'
    <3>1. time + Skew[c] <= time + MaxSkew
      OBVIOUS
    <3>2. time' = time /\ sentAt' = sentAt /\ lastNow' = lastNow
      BY <2>7 DEF SendSeed, callVars, historyVars
    <3>3. \A seed \in seeding' : seed \in seeding \/ seed = <<time + Skew[c], view>>
      BY <2>7 DEF SendSeed
    <3>4. \A seed \in seeding' : seed[1] <= time + MaxSkew
      BY <3>1, <3>3
    <3>5. QED
      BY <3>2, <3>4
  <2>8. ASSUME NEW seed \in seeding, SeedStep(seed)
        PROVE  TimeIsReal'
    <3>1. time' = time /\ sentAt' = sentAt /\ seeding' \subseteq seeding
      BY <2>8 DEF SeedStep, Apply, ApplyAndResend, Drop, Seed, callVars
    <3>2. lastNow' = seed[1] \/ lastNow' = lastNow
      BY <2>8 DEF SeedStep, Apply, ApplyAndResend, Drop, Seed, historyVars
    <3>3. lastNow' <= time' + MaxSkew
      BY <3>1, <3>2
    <3>4. QED
      BY <3>1, <3>3
  <2>9. QED
    BY <2>1, <2>2, <2>3, <2>4, <2>5, <2>6, <2>7, <2>8 DEF Next
<1>3. QED
  BY <1>1, <1>2, TypeCorrect, PTL DEF Spec

(***************************************************************************)
(* When no call is evaluated after one with a later timestamp, all nodes   *)
(* together are granted at most one full bucket per life of the key plus   *)
(* the refill for the real time that has passed, give or take the skew of  *)
(* the clocks once.                                                        *)
(***************************************************************************)
THEOREM QuotaHoldsInOrder == Spec => []QuotaInOrder
<1>1. TypeOK /\ GrantsAreCovered /\ TimeIsReal => QuotaInOrder
  <2> SUFFICES ASSUME TypeOK, GrantsAreCovered, TimeIsReal, InOrder
               PROVE  QuotaEnforced
    BY DEF QuotaInOrder
  <2> DEFINE lives == Capacity * (1 + losses) + seeded
  <2>1. Rate * advanced <= Rate * (time + MaxSkew)
    BY BucketAssumption, Monotone DEF TypeOK, TimeIsReal, InOrder
  <2>2. /\ lives \in Nat /\ Rate * advanced \in Nat /\ Rate * (time + MaxSkew) \in Nat
        /\ granted \in Nat /\ Held \in Nat
    BY BucketAssumption, ProductIsNatural, CapacityIsNatural DEF TypeOK, Held
  <2>3. granted + Held <= lives + Rate * advanced
    BY DEF GrantsAreCovered
  <2> HIDE DEF lives
  <2>4. granted <= lives + Rate * (time + MaxSkew)
    BY <2>1, <2>2, <2>3
  <2>5. QED
    BY <2>4 DEF QuotaEnforced, lives
<1>2. QED
  BY <1>1, TypeCorrect, GrantsCovered, TimeInvariance, PTL

=============================================================================
