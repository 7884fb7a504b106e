-------------------------- MODULE LocalBucketProofs --------------------------
(***************************************************************************)
(* What the operations of LocalBucket keep, for any number of buckets, any *)
(* limits, costs and rate, stated once for the modules that compose them.  *)
(***************************************************************************)
EXTENDS LocalBucket, TLAPS

-----------------------------------------------------------------------------
(* Products, which are not linear.                                          *)

\* A product of naturals is one.
LEMMA ProductIsNatural == \A m, n \in Nat : m * n \in Nat
  OBVIOUS

\* Products distribute over sums.
LEMMA Distributes == \A k, m, n \in Nat : k * (m + n) = k * m + k * n
  OBVIOUS

\* Products grow with their factors.
LEMMA Monotone == \A k, m, n \in Nat : m <= n => k * m <= k * n
<1> SUFFICES ASSUME NEW k \in Nat, NEW m \in Nat, NEW n \in Nat, m <= n
             PROVE  k * m <= k * n
  OBVIOUS
<1>1. PICK d \in Nat : n = m + d
  <2> WITNESS n - m \in Nat
  <2> QED
    OBVIOUS
<1>2. k * n = k * m + k * d /\ k * m \in Nat /\ k * d \in Nat
  BY <1>1, Distributes, ProductIsNatural
<1>3. QED
  BY <1>2

-----------------------------------------------------------------------------
(* The bucket operations.                                                   *)

\* The capacity counts fractions.
LEMMA CapacityIsNatural == Capacity \in Nat
  BY LocalBucketAssumption, ProductIsNatural DEF Capacity

\* Every limit fits into the capacity.
LEMMA LimitFits ==
    ASSUME NEW limit \in 0 .. GlobalLimit
    PROVE  limit * Unit \in 0 .. Capacity
<1>1. limit \in Nat /\ limit <= GlobalLimit /\ Unit \in Nat /\ GlobalLimit \in Nat
  BY LocalBucketAssumption
<1>2. Unit * limit <= Unit * GlobalLimit
  BY <1>1, Monotone
<1>3. Unit * limit = limit * Unit /\ Unit * GlobalLimit = GlobalLimit * Unit
  BY <1>1
<1>4. limit * Unit \in Nat /\ GlobalLimit * Unit \in Nat
  BY <1>1, ProductIsNatural
<1>5. QED
  BY <1>2, <1>3, <1>4 DEF Capacity

\* No node has touched its bucket in the future.
RefilledInThePast == \A n \in Node : lastRefill[n] <= time

\* A call finds no more than fits, and no more than a call with the global
\* limit would.
LEMMA FilledIsBounded ==
    ASSUME BucketTypeOK, RefilledInThePast, NEW n \in Node, NEW limit \in 0 .. GlobalLimit
    PROVE  /\ Filled(n, limit) \in 0 .. Capacity
           /\ Filled(n, limit) <= limit * Unit
           /\ Filled(n, limit) <= Filled(n, GlobalLimit)
           /\ limit * Unit \in Nat
<1> DEFINE since == (time - lastRefill[n]) * Rate
<1>1. since \in Nat
  BY LocalBucketAssumption, ProductIsNatural DEF BucketTypeOK, RefilledInThePast
<1> HIDE DEF since
<1>2. limit * Unit \in 0 .. Capacity /\ GlobalLimit * Unit = Capacity
  BY LimitFits DEF Capacity
<1>3. tokens[n] \in 0 .. Capacity
  BY DEF BucketTypeOK
<1>4. CASE n \in known
  <2>1. /\ Filled(n, limit) = Least(limit * Unit, tokens[n] + since)
        /\ Filled(n, GlobalLimit) = Least(Capacity, tokens[n] + since)
    BY <1>2, <1>4 DEF Filled, since
  <2>2. QED
    BY <1>1, <1>2, <1>3, <2>1, CapacityIsNatural DEF Least
<1>5. CASE n \notin known
  <2>1. Filled(n, limit) = limit * Unit /\ Filled(n, GlobalLimit) = Capacity
    BY <1>2, <1>5 DEF Filled
  <2>2. QED
    BY <1>2, <2>1, CapacityIsNatural
<1>6. QED
  BY <1>4, <1>5

\* What each node could grant is typed.
LEMMA CreditTyping ==
    ASSUME BucketTypeOK, RefilledInThePast
    PROVE  Credit \in [Node -> 0 .. Capacity]
  BY FilledIsBounded, LocalBucketAssumption DEF Credit

\* A bucket grants what its entry holds, and the refill may add to it.
LEMMA TokensAreCredit ==
    ASSUME BucketTypeOK, RefilledInThePast, NEW n \in known
    PROVE  n \in Node /\ tokens[n] <= Filled(n, GlobalLimit)
<1> DEFINE due == (time - lastRefill[n]) * Rate
<1>1. n \in Node /\ due \in Nat /\ tokens[n] \in 0 .. Capacity /\ GlobalLimit * Unit = Capacity
  BY LocalBucketAssumption, ProductIsNatural DEF BucketTypeOK, RefilledInThePast, Capacity
<1>2. Filled(n, GlobalLimit) = Least(Capacity, tokens[n] + due)
  BY <1>1 DEF Filled
<1> HIDE DEF due
<1>3. QED
  BY <1>1, <1>2, CapacityIsNatural DEF Least

\* What is missing from a bucket is no debt.
LEMMA MissingIsNatural ==
    ASSUME BucketTypeOK, RefilledInThePast, NEW n \in Node
    PROVE  Missing(n) \in Nat
  BY CreditTyping, CapacityIsNatural DEF Missing, Credit

\* A call splits what it finds into what it grants and what it leaves, and
\* leaves the other nodes alone.
LEMMA ConsumeConserves ==
    ASSUME BucketTypeOK, RefilledInThePast,
           NEW n \in Node, NEW cost \in Nat, NEW limit \in Limits, Consume(n, cost, limit)
    PROVE  /\ granted' \in [Node -> Nat]
           /\ tokens' \in [Node -> 0 .. Capacity]
           /\ granted'[n] + tokens'[n] = granted[n] + Filled(n, limit)
           /\ granted[n] <= granted'[n]
           /\ \A m \in Node \ {n} : granted'[m] = granted[m] /\ tokens'[m] = tokens[m]
<1> DEFINE price == cost * Unit
<1>1. Filled(n, limit) \in 0 .. Capacity /\ price \in Nat
  BY FilledIsBounded, LocalBucketAssumption, ProductIsNatural
<1>2. CASE Filled(n, limit) >= price
  <2>1. /\ granted' = [granted EXCEPT ![n] = @ + price]
        /\ tokens' = [tokens EXCEPT ![n] = Filled(n, limit) - price]
    BY <1>2 DEF Consume
  <2> HIDE DEF Filled, price
  <2>2. QED
    BY <1>1, <1>2, <2>1, CapacityIsNatural DEF BucketTypeOK
<1>3. CASE ~(Filled(n, limit) >= price)
  <2>1. /\ granted' = [granted EXCEPT ![n] = @]
        /\ tokens' = [tokens EXCEPT ![n] = Filled(n, limit)]
    BY <1>3 DEF Consume
  <2>2. QED
    BY <1>1, <2>1 DEF BucketTypeOK
<1>4. QED
  BY <1>2, <1>3

\* The five things that happen to the buckets.
BucketNext ==
    \/ \E n \in Node, cost \in Nat, limit \in Limits : Consume(n, cost, limit)
    \/ \E n \in Node : Snapshot(n)
    \/ \E n \in Node, view \in 0 .. Capacity : MergePeer(n, view)
    \/ \E n \in Node, view \in 0 .. Capacity : Seed(n, view)
    \/ Tick

\* What is given back is no debt, and fits into the bucket.
LEMMA SurplusFits ==
    ASSUME BucketTypeOK, RefilledInThePast, NEW n \in Node, NEW view \in 0 .. Capacity
    PROVE  Surplus(n, view) \in 0 .. Capacity - Filled(n, GlobalLimit)
<1>1. Filled(n, GlobalLimit) \in 0 .. Capacity /\ Capacity \in Nat
  BY FilledIsBounded, CapacityIsNatural, LocalBucketAssumption
<1>2. QED
  BY <1>1 DEF Surplus

\* They keep the buckets typed and the clock monotonic.
LEMMA BucketTyping ==
    ASSUME BucketTypeOK, RefilledInThePast,
           BucketNext \/ UNCHANGED <<time, bucketVars, ledgerVars>>
    PROVE  BucketTypeOK' /\ RefilledInThePast'
<1>0. Capacity' = Capacity
  BY DEF Capacity
<1>1. ASSUME NEW n \in Node, NEW cost \in Nat, NEW limit \in Limits, Consume(n, cost, limit)
      PROVE  BucketTypeOK' /\ RefilledInThePast'
  <2>1. granted' \in [Node -> Nat] /\ tokens' \in [Node -> 0 .. Capacity]
    BY <1>1, ConsumeConserves
  <2>2. QED
    BY <1>0, <1>1, <2>1 DEF Consume, BucketTypeOK, RefilledInThePast
<1>2. ASSUME NEW n \in Node, Snapshot(n)
      PROVE  BucketTypeOK' /\ RefilledInThePast'
  <2>1. Missing(n) \in Nat
    BY MissingIsNatural
  <2>2. QED
    BY <1>0, <1>2, <2>1, CapacityIsNatural DEF Snapshot, BucketTypeOK, RefilledInThePast
<1>3. ASSUME NEW n \in Node, NEW view \in 0 .. Capacity, MergePeer(n, view)
      PROVE  BucketTypeOK' /\ RefilledInThePast'
  BY <1>0, <1>3, CapacityIsNatural
     DEF MergePeer, Least, ledgerVars, BucketTypeOK, RefilledInThePast
<1>4. CASE Tick
  BY <1>0, <1>4 DEF Tick, bucketVars, ledgerVars, BucketTypeOK, RefilledInThePast
<1>5. CASE UNCHANGED <<time, bucketVars, ledgerVars>>
  BY <1>0, <1>5 DEF bucketVars, ledgerVars, BucketTypeOK, RefilledInThePast
<1>6. ASSUME NEW n \in Node, NEW view \in 0 .. Capacity, Seed(n, view)
      PROVE  BucketTypeOK' /\ RefilledInThePast'
  <2>1. Surplus(n, view) \in Nat
    BY SurplusFits, FilledIsBounded, CapacityIsNatural, LocalBucketAssumption
  <2>2. forgiven' \in [Node -> Nat]
    BY <1>6, <2>1 DEF Seed, BucketTypeOK
  <2>3. QED
    BY <1>0, <1>6, <2>2 DEF Seed, BucketTypeOK, RefilledInThePast
<1>7. QED
  BY <1>1, <1>2, <1>3, <1>4, <1>5, <1>6 DEF BucketNext

-----------------------------------------------------------------------------
(* The buckets implement TokenQuota, step by step.                          *)

\* After a call the bucket holds what the call left: nothing is due.
LEMMA ConsumeSpends ==
    ASSUME BucketTypeOK, RefilledInThePast,
           NEW n \in Node, NEW cost \in Nat, NEW limit \in Limits, Consume(n, cost, limit)
    PROVE  Quota!Spend(n)
<1>0. Capacity' = Capacity /\ Capacity \in Nat
  BY CapacityIsNatural DEF Capacity
<1>1. limit \in 0 .. GlobalLimit
  BY LocalBucketAssumption
<1>2. /\ granted' \in [Node -> Nat] /\ tokens' \in [Node -> 0 .. Capacity]
      /\ granted'[n] + tokens'[n] = granted[n] + Filled(n, limit)
      /\ granted[n] <= granted'[n]
      /\ \A m \in Node \ {n} : granted'[m] = granted[m] /\ tokens'[m] = tokens[m]
  BY ConsumeConserves
<1>3. Credit \in [Node -> 0 .. Capacity] /\ Filled(n, limit) <= Credit[n]
      /\ Filled(n, limit) \in Nat
  BY <1>0, <1>1, CreditTyping, FilledIsBounded DEF Credit
<1>4. Credit'[n] = tokens'[n]
  <2>1. n \in known' /\ lastRefill'[n] = time /\ time' = time /\ time \in Nat
    BY DEF Consume, BucketTypeOK
  <2>2. Credit'[n] = Least(Capacity, tokens'[n] + (time - time) * Rate)
    BY <2>1 DEF Credit, Filled, Capacity
  <2>3. (time - time) * Rate = 0
    BY <2>1, LocalBucketAssumption
  <2>4. QED
    BY <1>0, <1>2, <2>2, <2>3 DEF Least
<1>5. ASSUME NEW m \in Node \ {n}
      PROVE  Credit'[m] = Credit[m]
  <2>1. /\ m \in known' <=> m \in known
        /\ lastRefill'[m] = lastRefill[m] /\ time' = time /\ tokens'[m] = tokens[m]
    BY <1>2 DEF Consume, BucketTypeOK
  <2>2. QED
    BY <2>1 DEF Credit, Filled
<1> DEFINE spent == granted'[n] - granted[n]
           left == tokens'[n]
<1>6. granted[n] \in Nat /\ granted'[n] \in Nat /\ tokens'[n] \in Nat /\ Credit[n] \in Nat
  BY <1>2, <1>3 DEF BucketTypeOK
<1>7. spent \in 0 .. Credit[n] /\ left \in 0 .. Credit[n] - spent
  BY <1>2, <1>3, <1>6
<1>8. granted' = [granted EXCEPT ![n] = @ + spent]
  BY <1>2, <1>6 DEF BucketTypeOK
<1>9. Credit' = [Credit EXCEPT ![n] = left]
  <2>1. Credit' = [m \in Node |-> Credit'[m]] /\ Credit = [m \in Node |-> Credit[m]]
    BY DEF Credit
  <2>2. QED
    BY <1>3, <1>4, <1>5, <2>1
<1>10. time' = time /\ forgiven' = forgiven
  BY DEF Consume
<1> HIDE DEF spent, left
<1>11. QED
  BY <1>7, <1>8, <1>9, <1>10 DEF Quota!Spend

\* An eviction puts what is missing into the bucket, and writes it down.
LEMMA SnapshotForgives ==
    ASSUME BucketTypeOK, RefilledInThePast, NEW n \in Node, Snapshot(n)
    PROVE  Quota!Forgive(n)
<1>0. Capacity \in Nat /\ GlobalLimit * Unit = Capacity
  BY CapacityIsNatural DEF Capacity
<1>1. Credit \in [Node -> 0 .. Capacity]
  BY CreditTyping
<1>2. time' = time /\ granted' = granted /\ tokens' = tokens /\ lastRefill' = lastRefill
  BY DEF Snapshot
<1>3. ASSUME NEW m \in Node, m \in known' <=> m \in known
      PROVE  Credit'[m] = Credit[m]
  BY <1>2, <1>3 DEF Credit, Filled
<1> DEFINE amount == IF Stale(n) THEN Missing(n) ELSE 0
<1>4. Missing(n) = Capacity - Credit[n]
  BY DEF Missing, Credit
<1>5. amount \in 0 .. Capacity - Credit[n]
  BY <1>0, <1>1, <1>4
<1>6. forgiven' = [forgiven EXCEPT ![n] = @ + amount]
  <2>1. Missing(n) \in Nat /\ forgiven \in [Node -> Nat]
    BY MissingIsNatural DEF BucketTypeOK
  <2>2. forgiven' = [forgiven EXCEPT ![n] = IF Stale(n) THEN @ + Missing(n) ELSE @]
    BY DEF Snapshot
  <2>3. CASE Stale(n)
    BY <2>1, <2>2, <2>3
  <2>4. CASE ~Stale(n)
    <3>1. amount = 0 /\ forgiven[n] + 0 = forgiven[n]
      BY <2>1, <2>4
    <3>2. QED
      BY <2>2, <2>4, <3>1
  <2>5. QED
    BY <2>3, <2>4
<1>7. Credit' = [Credit EXCEPT ![n] = @ + amount]
  <2>1. Credit' = [m \in Node |-> Credit'[m]] /\ Credit = [m \in Node |-> Credit[m]]
    BY DEF Credit
  <2>2. \A m \in Node \ {n} : Credit'[m] = Credit[m]
    BY <1>3 DEF Snapshot
  <2>3. Credit'[n] = Credit[n] + amount
    <3>1. CASE Stale(n)
      <4>1. Credit'[n] = Capacity
        BY <1>0, <3>1 DEF Snapshot, Credit, Filled
      <4>2. QED
        BY <1>0, <1>1, <1>4, <3>1, <4>1
    <3>2. CASE ~Stale(n)
      BY <1>0, <1>1, <1>3, <3>2 DEF Snapshot
    <3>3. QED
      BY <3>1, <3>2
  <2>4. QED
    BY <1>1, <2>1, <2>2, <2>3
<1> HIDE DEF amount
<1>8. QED
  BY <1>2, <1>5, <1>6, <1>7 DEF Quota!Forgive

\* A merge is a loss of tokens.
LEMMA MergeSpends ==
    ASSUME BucketTypeOK, RefilledInThePast,
           NEW n \in Node, NEW view \in 0 .. Capacity, MergePeer(n, view)
    PROVE  Quota!Spend(n)
<1>0. Capacity \in Nat /\ GlobalLimit * Unit = Capacity
  BY CapacityIsNatural DEF Capacity
<1>1. Credit \in [Node -> 0 .. Capacity]
  BY CreditTyping
<1>2. /\ time' = time /\ known' = known /\ lastRefill' = lastRefill
      /\ granted' = granted /\ forgiven' = forgiven
  BY DEF MergePeer, ledgerVars
<1>3. \A m \in Node \ {n} : tokens'[m] = tokens[m]
  BY DEF MergePeer, BucketTypeOK
<1>4. \A m \in Node \ {n} : Credit'[m] = Credit[m]
  BY <1>2, <1>3 DEF Credit, Filled
<1>5. Credit'[n] \in 0 .. Credit[n]
  <2> DEFINE due == (time - lastRefill[n]) * Rate
  <2>1. due \in Nat
    BY LocalBucketAssumption, ProductIsNatural DEF BucketTypeOK, RefilledInThePast
  <2>2. tokens[n] \in 0 .. Capacity
    BY DEF BucketTypeOK
  <2>3. CASE n \in known
    <3>1. tokens'[n] = Least(tokens[n], view)
      BY <2>3 DEF MergePeer, BucketTypeOK
    <3>2. /\ Credit'[n] = Least(Capacity, tokens'[n] + due)
          /\ Credit[n] = Least(Capacity, tokens[n] + due)
      BY <1>0, <1>2, <2>3 DEF Credit, Filled
    <3> HIDE DEF due
    <3>3. QED
      BY <1>0, <2>1, <2>2, <3>1, <3>2 DEF Least
  <2>4. CASE n \notin known
    BY <1>0, <1>1, <1>2, <2>4 DEF Credit, Filled
  <2>5. QED
    BY <2>3, <2>4
<1>6. granted' = [granted EXCEPT ![n] = @ + 0] /\ 0 \in 0 .. Credit[n]
      /\ Credit'[n] \in 0 .. Credit[n] - 0
  BY <1>0, <1>1, <1>2, <1>5 DEF BucketTypeOK
<1>7. Credit' = [Credit EXCEPT ![n] = Credit'[n]]
  <2>1. Credit' = [m \in Node |-> Credit'[m]] /\ Credit = [m \in Node |-> Credit[m]]
    BY DEF Credit
  <2>2. QED
    BY <1>1, <1>4, <2>1
<1>8. QED
  BY <1>2, <1>6, <1>7 DEF Quota!Spend

\* A seed is a loss of tokens, or gives back what is written down.
LEMMA SeedSpendsOrForgives ==
    ASSUME BucketTypeOK, RefilledInThePast,
           NEW n \in Node, NEW view \in 0 .. Capacity, Seed(n, view)
    PROVE  Quota!Spend(n) \/ Quota!Forgive(n)
<1>0. Capacity \in Nat /\ GlobalLimit * Unit = Capacity /\ Rate \in Nat
  BY CapacityIsNatural, LocalBucketAssumption DEF Capacity
<1>1. Credit \in [Node -> 0 .. Capacity] /\ Credit[n] = Filled(n, GlobalLimit)
  BY CreditTyping DEF Credit
<1>2. /\ time' = time /\ granted' = granted /\ time \in Nat
      /\ tokens' = [tokens EXCEPT ![n] = view]
      /\ lastRefill' = [lastRefill EXCEPT ![n] = time]
      /\ known' = known \cup {n}
      /\ forgiven' = [forgiven EXCEPT ![n] = @ + Surplus(n, view)]
  BY DEF Seed, BucketTypeOK
<1>3. ASSUME NEW m \in Node \ {n}
      PROVE  Credit'[m] = Credit[m]
  <2>1. /\ m \in known' <=> m \in known
        /\ lastRefill'[m] = lastRefill[m] /\ time' = time /\ tokens'[m] = tokens[m]
    BY <1>2 DEF BucketTypeOK
  <2>2. QED
    BY <2>1 DEF Credit, Filled
<1>4. Credit'[n] = view
  <2>1. n \in known' /\ lastRefill'[n] = time /\ tokens'[n] = view /\ (time - time) * Rate = 0
    BY <1>0, <1>2 DEF BucketTypeOK
  <2>2. Credit'[n] = Least(Capacity, view + (time - time) * Rate)
    BY <1>0, <1>2, <2>1 DEF Credit, Filled
  <2>3. QED
    BY <1>0, <2>1, <2>2 DEF Least
<1>5. Credit' = [Credit EXCEPT ![n] = view]
  <2>1. Credit' = [m \in Node |-> Credit'[m]] /\ Credit = [m \in Node |-> Credit[m]]
    BY DEF Credit
  <2>2. QED
    BY <1>1, <1>3, <1>4, <2>1
<1>6. CASE view > Credit[n]
  <2> DEFINE amount == view - Credit[n]
  <2>1. amount \in 0 .. Capacity - Credit[n] /\ Credit[n] + amount = view
    BY <1>0, <1>1, <1>6
  <2>2. Surplus(n, view) = amount
    BY <1>1, <1>6 DEF Surplus
  <2> HIDE DEF amount
  <2>3. /\ Credit' = [Credit EXCEPT ![n] = @ + amount]
        /\ forgiven' = [forgiven EXCEPT ![n] = @ + amount]
    BY <1>2, <1>5, <2>1, <2>2
  <2>4. Quota!Forgive(n)
    BY <1>2, <2>1, <2>3 DEF Quota!Forgive
  <2>5. QED
    BY <2>4
<1>7. CASE ~(view > Credit[n])
  <2>1. view \in 0 .. Credit[n] - 0 /\ 0 \in 0 .. Credit[n]
    BY <1>0, <1>1, <1>7
  <2>2. Surplus(n, view) = 0
    BY <1>1, <1>7 DEF Surplus
  <2>3. forgiven' = forgiven /\ granted' = [granted EXCEPT ![n] = @ + 0]
    BY <1>2, <2>2 DEF BucketTypeOK
  <2>4. Quota!Spend(n)
    BY <1>2, <1>5, <2>1, <2>3 DEF Quota!Spend
  <2>5. QED
    BY <2>4
<1>8. QED
  BY <1>6, <1>7

\* The clock brings every bucket one refill, whenever it is written down.
LEMMA TickEarns ==
    ASSUME BucketTypeOK, RefilledInThePast, Tick
    PROVE  Quota!Earn
<1>0. Capacity \in Nat /\ GlobalLimit * Unit = Capacity /\ Rate \in Nat
  BY CapacityIsNatural, LocalBucketAssumption DEF Capacity
<1>1. /\ time' = time + 1 /\ known' = known /\ tokens' = tokens /\ lastRefill' = lastRefill
      /\ granted' = granted /\ forgiven' = forgiven
  BY DEF Tick, bucketVars, ledgerVars
<1>2. ASSUME NEW n \in Node
      PROVE  Credit'[n] = IF Credit[n] + Rate < Capacity THEN Credit[n] + Rate ELSE Capacity
  <2>1. CASE n \in known
    <3> DEFINE since == time - lastRefill[n]
               due == Rate * since
    <3>1. since \in Nat /\ time' - lastRefill'[n] = since + 1
      BY <1>1 DEF BucketTypeOK, RefilledInThePast
    <3> HIDE DEF since
    <3>2. due \in Nat /\ since * Rate = due /\ (since + 1) * Rate = due + Rate
      BY <1>0, <3>1, ProductIsNatural
    <3>3. tokens[n] \in 0 .. Capacity
      BY DEF BucketTypeOK
    <3>4. /\ Credit[n] = Least(Capacity, tokens[n] + since * Rate)
          /\ Credit'[n] = Least(Capacity, tokens[n] + (since + 1) * Rate)
      BY <1>0, <1>1, <2>1, <3>1 DEF Credit, Filled, since
    <3> HIDE DEF due
    <3>5. QED
      BY <1>0, <3>2, <3>3, <3>4 DEF Least
  <2>2. CASE n \notin known
    BY <1>0, <1>1, <2>2 DEF Credit, Filled
  <2>3. QED
    BY <2>1, <2>2
<1>3. Credit' = [n \in Node |-> Credit'[n]]
  BY DEF Credit
<1>4. QED
  BY <1>1, <1>2, <1>3 DEF Quota!Earn

\* Whatever happens to the buckets is a step of the quota.
LEMMA QuotaSteps ==
    ASSUME BucketTypeOK, RefilledInThePast,
           BucketNext \/ UNCHANGED <<time, bucketVars, ledgerVars>>
    PROVE  [Quota!Next]_Quota!quotaVars
<1>1. CASE UNCHANGED <<time, bucketVars, ledgerVars>>
  BY <1>1 DEF bucketVars, ledgerVars, Quota!quotaVars, Credit, Filled
<1>2. CASE BucketNext
  BY <1>2, ConsumeSpends, SnapshotForgives, MergeSpends, SeedSpendsOrForgives,
     TickEarns DEF BucketNext, Quota!Next
<1>3. QED
  BY <1>1, <1>2

\* The buckets are full at first.
LEMMA QuotaInit ==
    ASSUME BucketInit
    PROVE  Quota!Init
  BY DEF BucketInit, Quota!Init, Credit, Filled, Capacity

-----------------------------------------------------------------------------
(* What follows from the quota.                                             *)

\* No step of the quota lets a node gain on it: what it was granted and could
\* be granted grows by the refill and by what is forgiven, and by no more.
LEMMA QuotaNeverGains ==
    ASSUME Quota!QuotaTypeOK, [Quota!Next]_Quota!quotaVars, NEW n \in Node
    PROVE  /\ granted'[n] + Credit'[n] + forgiven[n] + Rate * time
              <= granted[n] + Credit[n] + forgiven'[n] + Rate * time'
           /\ time <= time'
<1> DEFINE before == Rate * time
<1>0. Capacity \in Nat /\ Rate \in Nat
  BY CapacityIsNatural, LocalBucketAssumption
<1>1. /\ time \in Nat /\ before \in Nat /\ granted[n] \in Nat /\ forgiven[n] \in Nat
      /\ Credit[n] \in 0 .. Capacity
      /\ granted \in [Node -> Nat] /\ forgiven \in [Node -> Nat]
      /\ Credit \in [Node -> 0 .. Capacity]
  BY <1>0, ProductIsNatural DEF Quota!QuotaTypeOK
<1>2. CASE Quota!Earn
  <2>1. /\ time' = time + 1 /\ granted' = granted /\ forgiven' = forgiven
        /\ Credit'[n] = IF Credit[n] + Rate < Capacity THEN Credit[n] + Rate ELSE Capacity
    BY <1>2 DEF Quota!Earn
  <2>2. Rate * time' = before + Rate
    BY <1>0, <1>1, <2>1, Distributes
  <2> HIDE DEF before
  <2>3. QED
    BY <1>0, <1>1, <2>1, <2>2 DEF before
<1>3. ASSUME NEW m \in Node, Quota!Spend(m)
      PROVE  /\ granted'[n] + Credit'[n] + forgiven[n] + before
                <= granted[n] + Credit[n] + forgiven'[n] + Rate * time'
             /\ time <= time'
  <2>1. PICK cost \in 0 .. Credit[m] :
            /\ granted' = [granted EXCEPT ![m] = @ + cost]
            /\ \E left \in 0 .. Credit[m] - cost : Credit' = [Credit EXCEPT ![m] = left]
            /\ time' = time /\ forgiven' = forgiven
    BY <1>3 DEF Quota!Spend
  <2>2. PICK left \in 0 .. Credit[m] - cost : Credit' = [Credit EXCEPT ![m] = left]
    BY <2>1
  <2>3. Rate * time' = before
    BY <2>1
  <2> HIDE DEF before
  <2>4. CASE n = m
    BY <1>0, <1>1, <2>1, <2>2, <2>3, <2>4
  <2>5. CASE n # m
    BY <1>0, <1>1, <2>1, <2>2, <2>3, <2>5
  <2>6. QED
    BY <2>4, <2>5
<1>4. ASSUME NEW m \in Node, Quota!Forgive(m)
      PROVE  /\ granted'[n] + Credit'[n] + forgiven[n] + before
                <= granted[n] + Credit[n] + forgiven'[n] + Rate * time'
             /\ time <= time'
  <2>1. PICK amount \in 0 .. Capacity - Credit[m] :
            /\ Credit' = [Credit EXCEPT ![m] = @ + amount]
            /\ forgiven' = [forgiven EXCEPT ![m] = @ + amount]
            /\ time' = time /\ granted' = granted
    BY <1>4 DEF Quota!Forgive
  <2>2. Rate * time' = before
    BY <2>1
  <2> HIDE DEF before
  <2>3. CASE n = m
    BY <1>0, <1>1, <2>1, <2>2, <2>3
  <2>4. CASE n # m
    BY <1>0, <1>1, <2>1, <2>2, <2>4
  <2>5. QED
    BY <2>3, <2>4
<1>5. CASE UNCHANGED Quota!quotaVars
  <2>1. /\ time' = time /\ granted' = granted /\ forgiven' = forgiven /\ Credit' = Credit
    BY <1>5 DEF Quota!quotaVars
  <2> HIDE DEF before
  <2>2. QED
    BY <1>0, <1>1, <2>1 DEF before
<1>6. QED
  BY <1>2, <1>3, <1>4, <1>5 DEF Quota!Next

\* The buckets are typed as the quota is.
LEMMA QuotaTyping ==
    ASSUME BucketTypeOK, RefilledInThePast
    PROVE  Quota!QuotaTypeOK
  BY CreditTyping DEF BucketTypeOK, Quota!QuotaTypeOK

\* The same of the buckets.
LEMMA NeverGains ==
    ASSUME BucketTypeOK, RefilledInThePast,
           BucketNext \/ UNCHANGED <<time, bucketVars, ledgerVars>>, NEW n \in Node
    PROVE  /\ granted'[n] + Credit'[n] + forgiven[n] + Rate * time
              <= granted[n] + Credit[n] + forgiven'[n] + Rate * time'
           /\ time <= time'
  BY QuotaTyping, QuotaSteps, QuotaNeverGains

\* At any time t, when node n was granted g and forgiven f, its bucket was not
\* more than full; what it was granted since, and could be granted now, is
\* covered by a full bucket, the refill and what was forgiven since.
SpentSince(n, t, g, f) ==
    /\ t <= time
    /\ granted[n] + Credit[n] + f + Rate * t <= g + Capacity + forgiven[n] + Rate * time

LEMMA SpentSinceBegins ==
    ASSUME BucketTypeOK, RefilledInThePast, NEW n \in Node
    PROVE  SpentSince(n, time, granted[n], forgiven[n])
<1>1. Rate * time \in Nat /\ Credit[n] \in 0 .. Capacity /\ Capacity \in Nat
  BY CreditTyping, CapacityIsNatural, ProductIsNatural, LocalBucketAssumption DEF BucketTypeOK
<1>2. granted[n] \in Nat /\ forgiven[n] \in Nat /\ time \in Nat
  BY DEF BucketTypeOK
<1>3. QED
  BY <1>1, <1>2 DEF SpentSince

LEMMA SpentSinceLasts ==
    ASSUME BucketTypeOK, RefilledInThePast,
           BucketNext \/ UNCHANGED <<time, bucketVars, ledgerVars>>,
           NEW n \in Node, NEW t \in Nat, NEW g \in Nat, NEW f \in Nat,
           SpentSince(n, t, g, f)
    PROVE  SpentSince(n, t, g, f)'
<1> DEFINE credit == Credit[n]
           now == Rate * time
           then == Rate * t
           next == Rate * time'
<1>0. Capacity' = Capacity /\ Capacity \in Nat
  BY CapacityIsNatural DEF Capacity
<1>1. BucketTypeOK' /\ RefilledInThePast'
  BY BucketTyping
<1>2. /\ granted[n] \in Nat /\ forgiven[n] \in Nat /\ time \in Nat
      /\ granted'[n] \in Nat /\ forgiven'[n] \in Nat /\ time' \in Nat
  BY <1>1 DEF BucketTypeOK
<1>3. credit \in Nat /\ Credit'[n] \in Nat
  <2>1. Credit \in [Node -> 0 .. Capacity]
    BY CreditTyping
  <2>2. (Credit \in [Node -> 0 .. Capacity])'
    BY <1>1, CreditTyping, PTL
  <2>3. QED
    BY <1>0, <2>1, <2>2
<1>4. now \in Nat /\ then \in Nat /\ next \in Nat
  BY <1>2, LocalBucketAssumption, ProductIsNatural
<1>5. granted[n] + credit + f + then <= g + Capacity + forgiven[n] + now /\ t <= time
  BY DEF SpentSince
<1>6. /\ granted'[n] + Credit'[n] + forgiven[n] + now
         <= granted[n] + credit + forgiven'[n] + next
      /\ time <= time'
  BY NeverGains
<1> HIDE DEF credit, now, then, next
<1>7. /\ granted'[n] + Credit'[n] + f + then <= g + Capacity + forgiven'[n] + next
      /\ t <= time'
  BY <1>0, <1>2, <1>3, <1>4, <1>5, <1>6
<1>8. QED
  BY <1>0, <1>7 DEF SpentSince, then, next

\* A burst, and what follows it, stays within the quota.
WithinQuotaSince(n, t, g, f) ==
    granted[n] - g <= Capacity + Rate * (time - t) + (forgiven[n] - f)

LEMMA SpentIsWithinQuota ==
    ASSUME BucketTypeOK, RefilledInThePast,
           NEW n \in Node, NEW t \in Nat, NEW g \in Nat, NEW f \in Nat,
           SpentSince(n, t, g, f)
    PROVE  WithinQuotaSince(n, t, g, f)
<1> DEFINE since == time - t
<1>1. /\ since \in Nat /\ time = t + since
      /\ granted[n] \in Nat /\ forgiven[n] \in Nat /\ Rate \in Nat
  BY LocalBucketAssumption DEF SpentSince, BucketTypeOK
<1> HIDE DEF since
<1>2. /\ Rate * time = Rate * t + Rate * since
      /\ Rate * t \in Nat /\ Rate * since \in Nat
  BY <1>1, Distributes, ProductIsNatural
<1>3. Credit[n] \in Nat /\ Capacity \in Nat
  BY CreditTyping, CapacityIsNatural
<1>4. granted[n] + Credit[n] + f + Rate * t <= g + Capacity + forgiven[n] + Rate * time
  BY DEF SpentSince
<1>5. granted[n] - g <= Capacity + Rate * since + (forgiven[n] - f)
  BY <1>1, <1>2, <1>3, <1>4
<1>6. QED
  BY <1>5 DEF WithinQuotaSince, since

\* The grants are covered at first and stay so.
LEMMA BucketCoversInitially ==
    ASSUME BucketInit
    PROVE  NodeGrantsCovered
<1> SUFFICES ASSUME NEW n \in Node
             PROVE  granted[n] + Filled(n, GlobalLimit) <= Capacity + forgiven[n] + Rate * time
  BY DEF NodeGrantsCovered
<1>1. Rate * 0 = 0 /\ Capacity \in Nat
  BY CapacityIsNatural, LocalBucketAssumption
<1>2. QED
  BY <1>1 DEF BucketInit, Filled, Capacity

LEMMA BucketCovers ==
    ASSUME BucketTypeOK, RefilledInThePast, NodeGrantsCovered,
           BucketNext \/ UNCHANGED <<time, bucketVars, ledgerVars>>
    PROVE  NodeGrantsCovered'
<1> SUFFICES ASSUME NEW n \in Node
             PROVE  granted'[n] + Filled(n, GlobalLimit)'
                        <= Capacity' + forgiven'[n] + Rate * time'
  BY DEF NodeGrantsCovered
<1>0. Capacity' = Capacity /\ Capacity \in Nat /\ Rate * 0 = 0
  BY CapacityIsNatural, LocalBucketAssumption DEF Capacity
<1>1. SpentSince(n, 0, 0, 0)
  <2>1. granted[n] + Credit[n] <= Capacity + forgiven[n] + Rate * time
    BY DEF NodeGrantsCovered, Credit
  <2>2. Credit[n] \in Nat /\ granted[n] \in Nat /\ forgiven[n] \in Nat /\ time \in Nat
    BY <1>0, CreditTyping DEF BucketTypeOK
  <2>3. QED
    BY <1>0, <2>1, <2>2 DEF SpentSince
<1>2. SpentSince(n, 0, 0, 0)'
  BY <1>1, SpentSinceLasts
<1>3. granted'[n] + Credit'[n] + 0 + 0 <= 0 + Capacity + forgiven'[n] + Rate * time'
  BY <1>0, <1>2 DEF SpentSince
<1>4. /\ granted'[n] \in Nat /\ Credit'[n] \in Nat /\ forgiven'[n] \in Nat
      /\ Rate * time' \in Nat
  <2>1. BucketTypeOK' /\ RefilledInThePast'
    BY BucketTyping
  <2>2. (Credit \in [Node -> 0 .. Capacity])'
    BY <2>1, CreditTyping, PTL
  <2>3. granted'[n] \in Nat /\ forgiven'[n] \in Nat /\ time' \in Nat
    BY <2>1 DEF BucketTypeOK
  <2>4. Credit'[n] \in Nat
    BY <1>0, <2>2
  <2>5. QED
    BY <2>3, <2>4, LocalBucketAssumption, ProductIsNatural
<1>5. Credit'[n] = Filled(n, GlobalLimit)'
  BY DEF Credit
<1>6. granted'[n] + Credit'[n] <= Capacity + forgiven'[n] + Rate * time'
  BY <1>0, <1>3, <1>4
<1>7. QED
  BY <1>0, <1>5, <1>6

\* When the refill of an hour fills the bucket, an entry idle for an hour is due
\* a full bucket anyway.
LEMMA StaleIsFull ==
    ASSUME BucketTypeOK, RefilledInThePast
    PROVE  EvictionIsFree
<1> SUFFICES ASSUME Rate * StaleAge >= Capacity, NEW n \in Node, Stale(n)
             PROVE  Missing(n) = 0
  BY DEF EvictionIsFree
<1> DEFINE since == time - lastRefill[n]
           due == since * Rate
<1>1. n \in known /\ since \in Nat /\ StaleAge <= since
  BY LocalBucketAssumption DEF Stale, BucketTypeOK, RefilledInThePast
<1> HIDE DEF since
<1>2. Rate * StaleAge <= Rate * since /\ Rate * since = due /\ due \in Nat
      /\ Rate * StaleAge \in Nat
  BY <1>1, LocalBucketAssumption, Monotone, ProductIsNatural
<1>3. tokens[n] \in Nat /\ Capacity \in Nat /\ GlobalLimit * Unit = Capacity
  BY CapacityIsNatural DEF BucketTypeOK, Capacity
<1> HIDE DEF due
<1>4. Filled(n, GlobalLimit) = Least(Capacity, tokens[n] + due)
  BY <1>1, <1>3 DEF Filled, since, due
<1>5. QED
  BY <1>2, <1>3, <1>4 DEF Least, Missing

=============================================================================
