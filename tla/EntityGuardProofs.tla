-------------------------- MODULE EntityGuardProofs --------------------------
(***************************************************************************)
(* Proofs about EntityGuard, for any clients, entities, servers, paces,    *)
(* limits, views and rate: type correctness; that waiting for Retry-After  *)
(* suffices unless tokens were taken from the bucket, and that a client    *)
(* within the refill rate is denied only then; that the buckets behind the *)
(* guard are token buckets.                                                *)
(*                                                                         *)
(* Both of the guard's promises are about a later moment, and rest on the  *)
(* same strengthening: a bucket that is ready by a time stays so until     *)
(* tokens are taken from it, whoever else refills, peeks, is denied,       *)
(* merges, seeds or finds it evicted meanwhile (Ready).                    *)
(***************************************************************************)
EXTENDS EntityGuard, LocalBucketProofs

-----------------------------------------------------------------------------
(* Rounding up.                                                             *)

\* Division rounds down, below zero too.
LEMMA DivisionFits ==
    ASSUME NEW x \in Int, NEW y \in Nat \ {0}
    PROVE  x \div y \in Int /\ y * (x \div y) <= x
  OBVIOUS

\* Products change their sign with a factor's.
LEMMA Negative == \A y, z \in Int : y * (-z) = -(y * z) /\ y * z \in Int
  OBVIOUS

\* Rounded up, it covers what was divided.
LEMMA CeilCovers ==
    ASSUME NEW x \in Int, NEW y \in Nat \ {0}
    PROVE  Ceil(x, y) \in Int /\ x <= y * Ceil(x, y)
<1> DEFINE z == (-x) \div y
<1>1. z \in Int /\ y * z <= -x
  BY DivisionFits
<1>2. y * (-z) = -(y * z) /\ y * z \in Int
  BY <1>1, Negative
<1>3. Ceil(x, y) = -z
  BY DEF Ceil
<1> HIDE DEF z
<1>4. QED
  BY <1>1, <1>2, <1>3

\* It is no negative number of what was none.
LEMMA CeilIsNatural ==
    ASSUME NEW x \in Nat, NEW y \in Nat \ {0}
    PROVE  Ceil(x, y) \in Nat
<1>1. Ceil(x, y) \in Int /\ x <= y * Ceil(x, y)
  BY CeilCovers
<1>2. ASSUME Ceil(x, y) < 0
      PROVE  FALSE
  <2> DEFINE d == -Ceil(x, y)
  <2>1. d \in Nat /\ 1 <= d /\ Ceil(x, y) = -d
    BY <1>1, <1>2
  <2> HIDE DEF d
  <2>2. y * 1 <= y * d /\ y * 1 = y /\ y * d \in Nat
    BY <2>1, Monotone, ProductIsNatural
  <2>3. y * Ceil(x, y) = -(y * d)
    BY <2>1, Negative
  <2>4. QED
    BY <1>1, <2>2, <2>3
<1>3. QED
  BY <1>1, <1>2

-----------------------------------------------------------------------------
(* Buckets that will be ready.                                              *)

\* By time t a call finds a token in the bucket, unless one is granted before.
Ready(b, t) ==
    b \in known =>
        \/ tokens[b] >= Unit
        \/ lastRefill[b] <= t /\ tokens[b] + Rate * (t - lastRefill[b]) >= Unit

\* Then it does.
LEMMA ReadyFills ==
    ASSUME BucketTypeOK, RefilledInThePast, NEW b \in Node, NEW t \in Nat, t <= time,
           NEW limit \in Limits, 1 <= limit, Ready(b, t)
    PROVE  Filled(b, limit) >= Unit
<1> DEFINE since == time - lastRefill[b]
           due == Rate * since
           room == limit * Unit
<1>1. since \in Nat /\ Unit \in Nat /\ Rate \in Nat /\ limit \in Nat
  BY LocalBucketAssumption DEF BucketTypeOK, RefilledInThePast
<1>2. tokens[b] \in Nat /\ lastRefill[b] \in Nat /\ time \in Nat
  BY CapacityIsNatural DEF BucketTypeOK
<1>3. room \in Nat /\ Unit <= room
  <2>1. Unit * 1 <= Unit * limit /\ Unit * 1 = Unit /\ Unit * limit = room
    BY <1>1, Monotone
  <2>2. QED
    BY <1>1, <2>1, ProductIsNatural
<1>4. due \in Nat /\ (time - lastRefill[b]) * Rate = due
  <2> HIDE DEF since
  <2>1. due \in Nat /\ since * Rate = due
    BY <1>1, ProductIsNatural
  <2>2. QED
    BY <2>1 DEF since
<1>5. CASE b \in known
  <2>1. Filled(b, limit) = Least(room, tokens[b] + due)
    BY <1>4, <1>5 DEF Filled
  <2>2. Unit <= tokens[b] + due
    <3>1. CASE tokens[b] >= Unit
      <4> HIDE DEF due
      <4>1. QED
        BY <1>1, <1>2, <1>4, <3>1
    <3>2. CASE lastRefill[b] <= t /\ tokens[b] + Rate * (t - lastRefill[b]) >= Unit
      <4> DEFINE then == t - lastRefill[b]
      <4>1. then \in Nat /\ then <= since
        BY <1>2, <3>2
      <4>2. Unit <= tokens[b] + Rate * then
        BY <3>2
      <4> HIDE DEF then, since
      <4>3. Rate * then <= due /\ Rate * then \in Nat
        BY <1>1, <4>1, Monotone, ProductIsNatural
      <4> HIDE DEF due
      <4>4. QED
        BY <1>1, <1>2, <1>4, <4>2, <4>3
    <3>3. QED
      BY <1>5, <3>1, <3>2 DEF Ready
  <2> HIDE DEF due, room
  <2>3. QED
    BY <1>2, <1>3, <1>4, <2>1, <2>2 DEF Least
<1>6. CASE b \notin known
  BY <1>1, <1>3, <1>6 DEF Filled
<1>7. QED
  BY <1>5, <1>6

\* Whoever waits longer finds one too.
LEMMA ReadyLater ==
    ASSUME BucketTypeOK, NEW b \in Node, NEW s \in Nat, NEW t \in Nat, s <= t, Ready(b, s)
    PROVE  Ready(b, t)
<1> SUFFICES ASSUME b \in known, lastRefill[b] <= s,
                    tokens[b] + Rate * (s - lastRefill[b]) >= Unit
             PROVE  lastRefill[b] <= t /\ tokens[b] + Rate * (t - lastRefill[b]) >= Unit
  BY DEF Ready
<1> DEFINE early == s - lastRefill[b]
           late == t - lastRefill[b]
<1>1. /\ tokens[b] \in Nat /\ lastRefill[b] \in Nat /\ Unit \in Nat /\ Rate \in Nat
      /\ early \in Nat /\ late \in Nat /\ early <= late
  BY CapacityIsNatural, LocalBucketAssumption DEF BucketTypeOK
<1>2. tokens[b] + Rate * early >= Unit
  OBVIOUS
<1> HIDE DEF early, late
<1>3. Rate * early <= Rate * late /\ Rate * early \in Nat /\ Rate * late \in Nat
  BY <1>1, Monotone, ProductIsNatural
<1>4. tokens[b] + Rate * late >= Unit
  BY <1>1, <1>2, <1>3
<1>5. QED
  BY <1>1, <1>4 DEF late

\* So does whoever waits longer after a step.
LEMMA ReadyLaterNext ==
    ASSUME BucketTypeOK', NEW b \in Node, NEW s \in Nat, NEW t \in Nat, s <= t, Ready(b, s)'
    PROVE  Ready(b, t)'
  BY ReadyLater, PTL

\* A bucket that will be ready is so when it is refilled before, too.
LEMMA RefillStaysReady ==
    ASSUME BucketTypeOK, RefilledInThePast, NEW b \in Node, NEW t \in Nat,
           NEW limit \in Limits, 1 <= limit, Ready(b, t), Filled(b, limit) < Unit
    PROVE  time <= t /\ Filled(b, limit) + Rate * (t - time) >= Unit
<1> DEFINE since == time - lastRefill[b]
           wait == t - time
<1>1. Filled(b, limit) \in Nat
  BY FilledIsBounded, CapacityIsNatural, LocalBucketAssumption
<1>2. ~(t <= time)
  <2>1. ~(Filled(b, limit) >= Unit)
    BY <1>1, LocalBucketAssumption
  <2>2. QED
    BY <2>1, ReadyFills
<1>3. /\ since \in Nat /\ wait \in Nat /\ time \in Nat /\ time <= t
      /\ Unit \in Nat /\ Rate \in Nat /\ limit \in Nat /\ tokens[b] \in Nat
      /\ lastRefill[b] \in Nat
  BY <1>2, CapacityIsNatural, LocalBucketAssumption DEF BucketTypeOK, RefilledInThePast
<1>4. /\ t - lastRefill[b] = since + wait /\ time - lastRefill[b] = since
      /\ t - time = wait
  BY <1>3
<1> HIDE DEF since, wait
<1>5. /\ Rate * (since + wait) = Rate * since + Rate * wait
      /\ Rate * since \in Nat /\ Rate * wait \in Nat /\ since * Rate = Rate * since
  BY <1>3, Distributes, ProductIsNatural
<1>6. limit * Unit \in Nat /\ Unit <= limit * Unit
  <2>1. Unit * 1 <= Unit * limit /\ Unit * 1 = Unit /\ Unit * limit = limit * Unit
    BY <1>3, Monotone
  <2>2. QED
    BY <1>3, <2>1, ProductIsNatural
<1>7. b \in known
  BY <1>3, <1>6 DEF Filled
<1>8. Filled(b, limit) = Least(limit * Unit, tokens[b] + since * Rate)
  BY <1>4, <1>7 DEF Filled
<1> DEFINE due == Rate * since
           later == Rate * wait
<1>9. Filled(b, limit) = tokens[b] + due /\ tokens[b] < Unit /\ due \in Nat
  BY <1>3, <1>5, <1>6, <1>8 DEF Least
<1>10. tokens[b] + (due + later) >= Unit
  BY <1>3, <1>4, <1>5, <1>7, <1>9 DEF Ready
<1>11. later \in Nat
  BY <1>5
<1> HIDE DEF due, later
<1>12. Filled(b, limit) + later >= Unit
  BY <1>3, <1>9, <1>10, <1>11
<1>13. QED
  BY <1>3, <1>4, <1>12 DEF later

\* What a step leaves in any bucket is enough after a pause that refills a token.
LEMMA ReadyInTime ==
    ASSUME BucketTypeOK', RefilledInThePast', NEW b \in Node,
           NEW p \in Nat, Rate * p >= Unit, NEW t \in Nat, t = time' + p
    PROVE  Ready(b, t)'
<1>1. /\ tokens'[b] \in Nat /\ lastRefill'[b] \in Nat /\ lastRefill'[b] <= time'
      /\ time' \in Nat /\ Rate \in Nat /\ Unit \in Nat
  <2>1. Capacity' = Capacity
    BY DEF Capacity
  <2>2. QED
    BY <2>1, CapacityIsNatural, LocalBucketAssumption DEF BucketTypeOK, RefilledInThePast
<1> DEFINE since == t - lastRefill'[b]
<1>2. since \in Nat /\ p <= since /\ lastRefill'[b] <= t
  BY <1>1
<1> HIDE DEF since
<1>3. Rate * p <= Rate * since /\ Rate * p \in Nat /\ Rate * since \in Nat
  BY <1>1, <1>2, Monotone, ProductIsNatural
<1> DEFINE due == Rate * since
<1>4. due >= Unit /\ due \in Nat
  BY <1>1, <1>3
<1> HIDE DEF due
<1>5. tokens'[b] + due >= Unit
  BY <1>1, <1>4
<1>6. tokens'[b] + Rate * (t - lastRefill'[b]) >= Unit
  BY <1>5 DEF since, due
<1>7. QED
  BY <1>2, <1>6 DEF Ready

\* A step that takes nothing from bucket b leaves it ready when it was to be.
KeepsReady(b) == \A t \in Nat : Ready(b, t) => Ready(b, t)'

\* It does when it leaves the bucket alone, or evicts it.
LEMMA UntouchedKeepsReady ==
    ASSUME NEW b \in Node, b \in known' => b \in known,
           tokens'[b] = tokens[b], lastRefill'[b] = lastRefill[b]
    PROVE  KeepsReady(b)
  BY DEF KeepsReady, Ready

\* It does when it writes down, as from now, no less than was due.
LEMMA RefillKeepsReady ==
    ASSUME BucketTypeOK, RefilledInThePast, NEW b \in Node,
           NEW limit \in Limits, 1 <= limit,
           lastRefill'[b] = time, tokens'[b] \in Nat, tokens'[b] >= Filled(b, limit)
    PROVE  KeepsReady(b)
<1> SUFFICES ASSUME NEW t \in Nat, Ready(b, t)
             PROVE  Ready(b, t)'
  BY DEF KeepsReady
<1>1. Filled(b, limit) \in Nat /\ Unit \in Nat /\ Rate \in Nat /\ time \in Nat
  BY FilledIsBounded, CapacityIsNatural, LocalBucketAssumption DEF BucketTypeOK
<1>2. CASE Filled(b, limit) >= Unit
  <2>1. tokens'[b] >= Unit
    BY <1>1, <1>2
  <2>2. QED
    BY <2>1 DEF Ready
<1>3. CASE ~(Filled(b, limit) >= Unit)
  <2>1. time <= t /\ Filled(b, limit) + Rate * (t - time) >= Unit
    BY <1>1, <1>3, RefillStaysReady
  <2> DEFINE later == Rate * (t - time)
  <2>2. later \in Nat
    BY <1>1, <2>1, ProductIsNatural
  <2>3. Filled(b, limit) + later >= Unit
    BY <2>1
  <2> HIDE DEF later
  <2>4. tokens'[b] + later >= Unit
    BY <1>1, <2>2, <2>3
  <2>5. QED
    BY <2>1, <2>4 DEF Ready, later
<1>4. QED
  BY <1>2, <1>3

\* It does when it is a call to another bucket, or one that takes nothing.
LEMMA CallKeepsReady ==
    ASSUME BucketTypeOK, RefilledInThePast, NEW b \in Node, NEW n \in Node,
           NEW cost \in Nat, NEW limit \in Limits, 1 <= limit, Consume(n, cost, limit),
           b = n => granted'[n] = granted[n]
    PROVE  KeepsReady(b)
<1>1. CASE b = n
  <2>1. tokens'[b] = Filled(b, limit) /\ tokens'[b] \in Nat
    <3>1. /\ granted'[b] + tokens'[b] = granted[b] + Filled(b, limit)
          /\ tokens' \in [Node -> 0 .. Capacity]
      BY <1>1, ConsumeConserves
    <3>2. Filled(b, limit) \in 0 .. Capacity /\ granted[b] \in Nat /\ Capacity \in Nat
      BY FilledIsBounded, CapacityIsNatural, LocalBucketAssumption DEF BucketTypeOK
    <3>3. granted'[b] = granted[b] /\ tokens'[b] \in Nat
      BY <1>1, <3>1, <3>2
    <3>4. QED
      BY <3>1, <3>2, <3>3
  <2>2. lastRefill'[b] = time
    BY <1>1 DEF Consume, BucketTypeOK
  <2>3. tokens'[b] >= Filled(b, limit)
    BY <2>1
  <2>4. QED
    BY <2>1, <2>2, <2>3, RefillKeepsReady
<1>2. CASE b # n
  <2>1. /\ b \in known' => b \in known
        /\ tokens'[b] = tokens[b] /\ lastRefill'[b] = lastRefill[b]
    BY <1>2 DEF Consume, BucketTypeOK
  <2>2. QED
    BY <2>1, UntouchedKeepsReady
<1>3. QED
  BY <1>1, <1>2

\* It does when it is the view of a peer that lowers nothing.
LEMMA MergeKeepsReady ==
    ASSUME BucketTypeOK, NEW b \in Node, NEW n \in Node, NEW view \in 0 .. Capacity,
           MergePeer(n, view), b = n => ~(n \in known /\ view < tokens[n])
    PROVE  KeepsReady(b)
<1>1. known' = known /\ lastRefill' = lastRefill
  BY DEF MergePeer
<1>2. tokens'[b] = tokens[b]
  <2>1. tokens[b] \in Nat /\ view \in Nat
    BY CapacityIsNatural DEF BucketTypeOK
  <2>2. CASE b = n /\ n \in known
    <3>1. tokens'[b] = Least(tokens[b], view)
      BY <2>2 DEF MergePeer, BucketTypeOK
    <3>2. QED
      BY <2>1, <2>2, <3>1 DEF Least
  <2>3. CASE ~(b = n /\ n \in known)
    BY <2>3 DEF MergePeer, BucketTypeOK
  <2>4. QED
    BY <2>2, <2>3
<1>3. QED
  BY <1>1, <1>2, UntouchedKeepsReady

\* It does when it is a seed with no less than was due.
LEMMA SeedKeepsReady ==
    ASSUME BucketTypeOK, RefilledInThePast, NEW b \in Node, NEW n \in Node,
           NEW view \in 0 .. Capacity, Seed(n, view), GlobalLimit \in Limits, 1 <= GlobalLimit,
           b = n => ~(view < Filled(n, GlobalLimit))
    PROVE  KeepsReady(b)
<1>1. CASE b = n
  <2>1. lastRefill'[b] = time /\ tokens'[b] = view /\ view \in Nat
    BY <1>1, CapacityIsNatural DEF Seed, BucketTypeOK
  <2>2. Filled(b, GlobalLimit) \in Nat
    BY FilledIsBounded, CapacityIsNatural, LocalBucketAssumption
  <2>3. tokens'[b] >= Filled(b, GlobalLimit)
    BY <1>1, <2>1, <2>2
  <2>4. QED
    BY <2>1, <2>3, RefillKeepsReady
<1>2. CASE b # n
  <2>1. /\ b \in known' => b \in known
        /\ tokens'[b] = tokens[b] /\ lastRefill'[b] = lastRefill[b]
    BY <1>2 DEF Seed, BucketTypeOK
  <2>2. QED
    BY <2>1, UntouchedKeepsReady
<1>3. QED
  BY <1>1, <1>2

-----------------------------------------------------------------------------
(* The guard.                                                               *)

\* A check is charged to a bucket with a limit of at least one token.
LEMMA RouteFits ==
    ASSUME NEW route \in Route, NEW entity \in Entity
    PROVE  /\ route[1] \in Place /\ <<route[1], entity>> \in Node
           /\ route[2] \in Limits /\ route[2] \in Nat /\ 1 <= route[2]
<1>1. route[1] \in Place /\ route[2] \in {Share, GlobalLimit}
  BY DEF Route, Place
<1>2. Share \in Nat /\ 1 <= Share /\ Share <= GlobalLimit /\ GlobalLimit \in Nat
  BY GuardAssumption, LocalBucketAssumption
<1>3. route[2] \in Limits /\ route[2] \in Nat /\ 1 <= route[2]
  BY <1>1, <1>2, GuardAssumption
<1>4. QED
  BY <1>1, <1>3, GuardAssumption

\* Redis' own limit is one of them.
LEMMA RedisFits ==
    ASSUME NEW entity \in Entity
    PROVE  <<"redis", entity>> \in Node /\ GlobalLimit \in Limits /\ 1 <= GlobalLimit
<1>1. <<"redis", GlobalLimit>> \in Route
  BY DEF Route
<1>2. QED
  BY <1>1, RouteFits

\* The entity of a client is one, and stays it.
LEMMA EntityIdFits == \A c \in Client : EntityId(c) \in Entity /\ EntityId(c)' = EntityId(c)
  BY DEF Entity, EntityId

\* An answer is not taken for none.
LEMMA NoAnswerIsNoAnswer == NoAnswer \notin Answer
  BY DEF NoAnswer, Answer

\* Every step of the guard does one of the five things to the buckets.
LEMMA BucketSteps ==
    ASSUME [Next]_vars
    PROVE  BucketNext \/ UNCHANGED <<time, bucketVars, ledgerVars>>
<1>1. ASSUME NEW c \in Client, NEW route \in Route, Check(c, route)
      PROVE  BucketNext
  <2>1. Consume(<<route[1], EntityId(c)>>, 1, route[2]) /\ 1 \in Nat
    BY <1>1 DEF Check
  <2>2. QED
    BY <2>1, RouteFits, EntityIdFits DEF BucketNext
<1>2. ASSUME NEW entity \in Entity, NEW route \in Route, Peek(entity, route)
      PROVE  BucketNext
  <2>1. Consume(<<route[1], entity>>, 0, route[2]) /\ 0 \in Nat
    BY <1>2 DEF Peek
  <2>2. QED
    BY <2>1, RouteFits DEF BucketNext
<1>3. ASSUME NEW bucket \in Node, Expire(bucket)
      PROVE  BucketNext
  BY <1>3 DEF Expire, BucketNext
<1>4. ASSUME NEW bucket \in Node, NEW view \in Views, Merge(bucket, view)
      PROVE  BucketNext
  BY <1>4, GuardAssumption DEF Merge, BucketNext
<1>5. ASSUME NEW entity \in Entity, NEW view \in Views, WarmUp(entity, view)
      PROVE  BucketNext
  BY <1>5, RedisFits, GuardAssumption DEF WarmUp, BucketNext
<1>6. ASSUME NEW entity \in Entity, Resend(entity)
      PROVE  BucketNext
  <2>1. Consume(<<"redis", entity>>, 1, GlobalLimit) /\ 1 \in Nat
    BY <1>6 DEF Resend
  <2>2. QED
    BY <2>1, RedisFits DEF BucketNext
<1>7. CASE TimePasses
  BY <1>7 DEF TimePasses, BucketNext
<1>8. CASE (\E c \in Client : Respond(c)) \/ UNCHANGED vars
  BY <1>8 DEF Respond, vars
<1>9. QED
  BY <1>1, <1>2, <1>3, <1>4, <1>5, <1>6, <1>7, <1>8 DEF Next

Typed == GuardTypeOK /\ RefilledInThePast

-----------------------------------------------------------------------------
(* A check that is denied.                                                  *)

\* Its answer names a time by which the bucket it leaves is ready.
LEMMA ResetAtFits ==
    ASSUME BucketTypeOK, RefilledInThePast, NEW b \in Node, NEW limit \in Limits, 1 <= limit,
           Filled(b, limit) < Unit
    PROVE  /\ ResetAt(b, limit) \in Nat /\ time <= ResetAt(b, limit)
           /\ Filled(b, limit) + Rate * (ResetAt(b, limit) - time) >= Unit
<1> DEFINE missing == IF b[1] # "redis" THEN Unit - Filled(b, limit)
                      ELSE (limit - Filled(b, limit) \div Unit) * Unit
           wait == SecondsFor(missing)
           found == Filled(b, limit)
<1>0. /\ Unit \in Nat \ {0} /\ Rate \in Nat \ {0} /\ Second \in Nat \ {0} /\ limit \in Nat
      /\ time \in Nat
  BY LocalBucketAssumption, GuardAssumption DEF BucketTypeOK
<1>1. found \in Nat /\ found < Unit
  BY FilledIsBounded, CapacityIsNatural, LocalBucketAssumption
<1>2. missing \in Nat /\ found + missing >= Unit
  <2>1. CASE b[1] # "redis"
    <3> HIDE DEF found
    <3>1. QED
      BY <1>0, <1>1, <2>1 DEF found
  <2>2. CASE b[1] = "redis"
    <3>1. found \div Unit = 0
      <4> HIDE DEF found
      <4>1. QED
        BY <1>0, <1>1
    <3>2. missing = limit * Unit
      BY <1>0, <2>2, <3>1
    <3>3. Unit * 1 <= Unit * limit /\ Unit * 1 = Unit /\ Unit * limit = limit * Unit
          /\ limit * Unit \in Nat
      BY <1>0, Monotone, ProductIsNatural
    <3> HIDE DEF missing, found
    <3>4. QED
      BY <1>0, <1>1, <3>2, <3>3
  <2>3. QED
    BY <2>1, <2>2
<1>3. ResetAt(b, limit) = time + Second * wait
  BY DEF ResetAt
<1> HIDE DEF missing, found
<1>4. Rate * Second \in Nat \ {0}
  <2>1. Rate * 1 <= Rate * Second /\ Rate * 1 = Rate /\ Rate * Second \in Nat
    BY <1>0, Monotone, ProductIsNatural
  <2>2. QED
    BY <1>0, <2>1
<1>5. wait \in Nat /\ missing <= (Rate * Second) * wait
  BY <1>2, <1>4, CeilCovers, CeilIsNatural DEF SecondsFor
<1> HIDE DEF wait
<1>6. Second * wait \in Nat /\ (Rate * Second) * wait = Rate * (Second * wait)
  BY <1>0, <1>5, ProductIsNatural
<1> DEFINE delay == Second * wait
<1>7. delay \in Nat /\ missing <= Rate * delay /\ Rate * delay \in Nat
  BY <1>0, <1>5, <1>6, ProductIsNatural
<1>8. ResetAt(b, limit) = time + delay
  BY <1>3
<1> HIDE DEF delay
<1>9. ResetAt(b, limit) - time = delay
  BY <1>0, <1>7, <1>8
<1>10. found + Rate * delay >= Unit
  BY <1>0, <1>1, <1>2, <1>7
<1>11. QED
  BY <1>0, <1>7, <1>8, <1>9, <1>10 DEF found

\* The answer of a denied check, once charged.
LEMMA DenialIsReady ==
    ASSUME BucketTypeOK, RefilledInThePast, NEW b \in Node, NEW limit \in Limits, 1 <= limit,
           Consume(b, 1, limit), Filled(b, limit) < Unit,
           NEW t \in Nat, t = ResetAt(b, limit)
    PROVE  Ready(b, t)' /\ granted'[b] = granted[b]
<1>1. Filled(b, limit) \in Nat /\ Unit \in Nat
  BY FilledIsBounded, CapacityIsNatural, LocalBucketAssumption
<1>2. ~(Filled(b, limit) >= 1 * Unit)
  BY <1>1
<1>3. /\ tokens'[b] = Filled(b, limit) /\ lastRefill'[b] = time
      /\ granted'[b] = granted[b]
  BY <1>2 DEF Consume, BucketTypeOK
<1>4. time <= t /\ Filled(b, limit) + Rate * (t - time) >= Unit
  BY ResetAtFits
<1>5. QED
  BY <1>3, <1>4 DEF Ready

-----------------------------------------------------------------------------
(* Typing.                                                                  *)

\* A check leaves its client idle, or denied with an answer.
LEMMA CheckAnswers ==
    ASSUME Typed, NEW c \in Client, NEW route \in Route, Check(c, route)
    PROVE  \/ /\ phase' = [phase EXCEPT ![c] = "idle"]
              /\ answer' = [answer EXCEPT ![c] = NoAnswer]
           \/ /\ phase' = [phase EXCEPT ![c] = "denied"]
              /\ \E a \in Answer : /\ answer' = [answer EXCEPT ![c] = a]
                                   /\ a.place = route[1]
                                   /\ a.until = ResetAt(<<route[1], EntityId(c)>>, route[2])
                                   /\ Filled(<<route[1], EntityId(c)>>, route[2]) < Unit
<1>1. PICK b \in Node : b = <<route[1], EntityId(c)>>
  BY RouteFits, EntityIdFits
<1>2. PICK limit \in Limits : limit = route[2] /\ 1 <= limit
  BY RouteFits, EntityIdFits
<1>3. Filled(b, limit) \in Nat /\ Unit \in Nat
  BY FilledIsBounded, CapacityIsNatural, LocalBucketAssumption DEF Typed, GuardTypeOK
<1>4. CASE Filled(b, limit) >= Unit
  BY <1>1, <1>2, <1>4 DEF Check
<1>5. CASE ~(Filled(b, limit) >= Unit)
  <2>1. Filled(b, limit) < Unit
    BY <1>3, <1>5
  <2>2. PICK t \in Nat : t = ResetAt(b, limit)
    BY <1>2, <2>1, ResetAtFits DEF Typed, GuardTypeOK
  <2> DEFINE a == [place |-> route[1], until |-> t]
  <2>3. a \in Answer /\ a.place = route[1] /\ a.until = t
    BY RouteFits, EntityIdFits DEF Answer
  <2>4. /\ phase' = [phase EXCEPT ![c] = "denied"]
        /\ answer' = [answer EXCEPT ![c] = a]
    BY <1>1, <1>2, <1>5, <2>2 DEF Check
  <2> HIDE DEF a
  <2>5. QED
    BY <1>1, <1>2, <2>1, <2>2, <2>3, <2>4
<1>6. QED
  BY <1>4, <1>5

\* The Retry-After a client is told is not over before the reset.
LEMMA RetryAfterFits ==
    ASSUME Typed, NEW resetAt \in Nat
    PROVE  /\ time + RetryAfter(resetAt) * Second \in Nat
           /\ resetAt <= time + RetryAfter(resetAt) * Second
<1>1. time \in Nat /\ Second \in Nat \ {0}
  BY GuardAssumption DEF Typed, GuardTypeOK, BucketTypeOK
<1>2. RetryAfter(resetAt) \in Int /\ resetAt - time <= Second * RetryAfter(resetAt)
  BY <1>1, CeilCovers DEF RetryAfter
<1> DEFINE seconds == RetryAfter(resetAt)
           wait == Second * seconds
<1> HIDE DEF seconds
<1>3. wait \in Int /\ seconds * Second = wait /\ resetAt - time <= wait
  BY <1>1, <1>2 DEF seconds
<1> HIDE DEF wait
<1>4. time + wait \in Nat /\ resetAt <= time + wait
  BY <1>1, <1>3
<1>5. QED
  BY <1>3, <1>4 DEF seconds

\* What is answered when the guard resumes.
LEMMA RespondAnswers ==
    ASSUME Typed, NEW c \in Client, Respond(c)
    PROVE  \E a \in Answer : /\ answer' = [answer EXCEPT ![c] = a]
                             /\ a.place = answer[c].place
                             /\ answer[c].until <= a.until
<1>1. PICK old \in Answer : old = answer[c]
  BY DEF Respond, Typed, GuardTypeOK
<1>2. PICK t \in Nat : t = old.until
  BY DEF Answer
<1>3. PICK s \in Nat : s = time + RetryAfter(t) * Second /\ t <= s
  BY RetryAfterFits
<1> DEFINE a == [old EXCEPT !.until = s]
<1>4. a \in Answer /\ a.place = old.place /\ a.until = s
  BY DEF Answer
<1>5. answer' = [answer EXCEPT ![c] = a]
  BY <1>1, <1>2, <1>3 DEF Respond, Typed, GuardTypeOK
<1> HIDE DEF a
<1>6. QED
  BY <1>1, <1>2, <1>3, <1>4, <1>5

\* Who sees what is taken is typed.
LEMMA SeenTyping ==
    ASSUME GuardTypeOK, NEW bucket \in Node
    PROVE  Seen(bucket) \in [Client -> SUBSET Place]
  BY GuardAssumption DEF Seen, GuardTypeOK

LEMMA NextTyping ==
    ASSUME Typed, [Next]_vars
    PROVE  Typed'
<1>0. BucketTypeOK' /\ RefilledInThePast'
  BY BucketSteps, BucketTyping DEF Typed, GuardTypeOK
<1> SUFFICES GuardTypeOK'
  BY <1>0 DEF Typed
<1> USE DEF Typed
<1>1. ASSUME NEW c \in Client, NEW route \in Route, Check(c, route)
      PROVE  GuardTypeOK'
  <2>1. pause' = [pause EXCEPT ![c] = Pace[c]] /\ writes' = writes
    BY <1>1 DEF Check
  <2>2. \/ /\ phase' = [phase EXCEPT ![c] = "idle"]
           /\ answer' = [answer EXCEPT ![c] = NoAnswer]
        \/ /\ phase' = [phase EXCEPT ![c] = "denied"]
           /\ \E a \in Answer : answer' = [answer EXCEPT ![c] = a]
    BY <1>1, CheckAnswers
  <2>3. Pace[c] \in Nat
    BY GuardAssumption
  <2>4. phase' \in [Client -> Phase] /\ answer' \in [Client -> Answer \cup {NoAnswer}]
    BY <2>2 DEF GuardTypeOK, Phase
  <2>5. \A d \in Client : phase'[d] = "idle" <=> answer'[d] = NoAnswer
    BY <2>2, NoAnswerIsNoAnswer DEF GuardTypeOK
  <2>6. taken' \in [Client -> SUBSET Place]
    <3>1. Seen(<<route[1], EntityId(c)>>) \in [Client -> SUBSET Place]
      BY RouteFits, EntityIdFits, SeenTyping
    <3>2. QED
      BY <1>1, <3>1 DEF Check, GuardTypeOK
  <2>7. QED
    BY <1>0, <2>1, <2>3, <2>4, <2>5, <2>6 DEF GuardTypeOK
<1>2. ASSUME NEW c \in Client, Respond(c)
      PROVE  GuardTypeOK'
  <2>1. PICK a \in Answer : answer' = [answer EXCEPT ![c] = a]
    BY <1>2, RespondAnswers
  <2>2. /\ phase[c] = "denied" /\ phase' = [phase EXCEPT ![c] = "told"]
        /\ pause' = pause /\ taken' = taken /\ writes' = writes
    BY <1>2 DEF Respond
  <2>3. \A d \in Client : phase'[d] = "idle" <=> answer'[d] = NoAnswer
    BY <2>1, <2>2, NoAnswerIsNoAnswer DEF GuardTypeOK
  <2>4. QED
    BY <1>0, <2>1, <2>2, <2>3 DEF GuardTypeOK, Phase
<1>3. ASSUME guardVars' = guardVars, taken' \in [Client -> SUBSET Place], Meddle
      PROVE  GuardTypeOK'
  BY <1>0, <1>3, GuardAssumption DEF Meddle, guardVars, GuardTypeOK
<1>4. ASSUME NEW entity \in Entity, NEW route \in Route, Peek(entity, route)
      PROVE  GuardTypeOK'
  BY <1>3, <1>4 DEF Peek, GuardTypeOK
<1>5. CASE (\E bucket \in Node : Expire(bucket)) \/ UNCHANGED vars
  BY <1>0, <1>5 DEF Expire, vars, guardVars, GuardTypeOK
<1>6. ASSUME NEW bucket \in Node, NEW view \in Views, Merge(bucket, view)
      PROVE  GuardTypeOK'
  BY <1>3, <1>6, SeenTyping DEF Merge, GuardTypeOK
<1>7. ASSUME NEW entity \in Entity, NEW view \in Views, WarmUp(entity, view)
      PROVE  GuardTypeOK'
  <2>1. Seen(<<"redis", entity>>) \in [Client -> SUBSET Place]
    BY RedisFits, SeenTyping
  <2>2. QED
    BY <1>3, <1>7, <2>1 DEF WarmUp, GuardTypeOK
<1>8. ASSUME NEW entity \in Entity, Resend(entity)
      PROVE  GuardTypeOK'
  <2>1. Seen(<<"redis", entity>>) \in [Client -> SUBSET Place]
    BY RedisFits, SeenTyping
  <2>2. QED
    BY <1>3, <1>8, <2>1 DEF Resend, GuardTypeOK
<1>9. CASE TimePasses
  BY <1>0, <1>9 DEF TimePasses, GuardTypeOK
<1>10. QED
  BY <1>1, <1>2, <1>4, <1>5, <1>6, <1>7, <1>8, <1>9 DEF Next

LEMMA Typing == Spec => []Typed
<1>1. Init => Typed
  <2> SUFFICES ASSUME Init PROVE Typed
    OBVIOUS
  <2>1. BucketTypeOK /\ RefilledInThePast
    BY CapacityIsNatural DEF Init, BucketInit, BucketTypeOK, RefilledInThePast
  <2>2. QED
    BY <2>1, GuardAssumption DEF Init, Typed, GuardTypeOK, Phase
<1>2. Typed /\ [Next]_vars => Typed'
  BY NextTyping
<1>3. QED
  BY <1>1, <1>2, PTL DEF Spec

(***************************************************************************)
(* Whatever clients ask, every answer of a check that was denied names a   *)
(* bucket and a time, and Retry-After never ends before time began.        *)
(***************************************************************************)
THEOREM TypeCorrect == Spec => []GuardTypeOK
<1>1. Typed => GuardTypeOK
  BY DEF Typed
<1>2. QED
  BY <1>1, Typing, PTL

-----------------------------------------------------------------------------
(* What is taken is seen.                                                   *)

\* A step that took nothing, as client c saw it, from its bucket in a place.
Untaken(c, place) ==
    /\ place \notin taken[c]
    /\ KeepsReady(<<place, EntityId(c)>>)

\* A call of someone else's either grants nothing or is seen.
LEMMA CallIsSeen ==
    ASSUME Typed, NEW c \in Client, NEW place \in Place, NEW n \in Node,
           NEW cost \in Nat, NEW limit \in Limits, 1 <= limit, Consume(n, cost, limit),
           place \notin taken'[c],
           IF Filled(n, limit) >= cost * Unit /\ cost # 0
           THEN taken'[c] = Seen(n)[c] ELSE taken'[c] = taken[c]
    PROVE  Untaken(c, place)
<1>1. PICK b \in Node : b = <<place, EntityId(c)>>
  BY EntityIdFits, GuardAssumption
<1>2. PICK q \in Place, entity \in Entity : n = <<q, entity>>
  BY GuardAssumption
<1>3. place \notin taken[c]
  BY DEF Seen, Typed, GuardTypeOK
<1>4. ASSUME b = n
      PROVE  granted'[n] = granted[n]
  <2>1. CASE Filled(n, limit) >= cost * Unit /\ cost # 0
    BY <1>1, <1>2, <1>4, <2>1 DEF Seen
  <2>2. CASE cost = 0
    <3>1. cost * Unit = 0 /\ granted[n] \in Nat
      BY <2>2, LocalBucketAssumption DEF Typed, GuardTypeOK, BucketTypeOK
    <3>2. \/ granted' = [granted EXCEPT ![n] = @ + cost * Unit]
          \/ granted' = [granted EXCEPT ![n] = @]
      BY DEF Consume
    <3>3. QED
      BY <3>1, <3>2 DEF Typed, GuardTypeOK, BucketTypeOK
  <2>3. CASE ~(Filled(n, limit) >= cost * Unit)
    BY <2>3 DEF Consume, Typed, GuardTypeOK, BucketTypeOK
  <2>4. QED
    BY <2>1, <2>2, <2>3
<1>5. KeepsReady(b)
  BY <1>4, CallKeepsReady DEF Typed, GuardTypeOK
<1>6. QED
  BY <1>1, <1>3, <1>5 DEF Untaken

\* So is whatever else takes tokens.
LEMMA TakingIsSeen ==
    ASSUME Typed, [Next]_vars, NEW c \in Client, NEW place \in Place,
           \A route \in Route : ~Check(c, route), place \notin taken'[c]
    PROVE  Untaken(c, place)
<1>0. BucketTypeOK /\ RefilledInThePast /\ taken \in [Client -> SUBSET Place]
  BY DEF Typed, GuardTypeOK
<1>00. PICK b \in Node : b = <<place, EntityId(c)>>
  BY EntityIdFits, GuardAssumption
<1>1. ASSUME NEW d \in Client, NEW route \in Route, Check(d, route)
      PROVE  Untaken(c, place)
  <2>1. PICK n \in Node : n = <<route[1], EntityId(d)>>
    BY RouteFits, EntityIdFits
  <2>2. PICK limit \in Limits : limit = route[2] /\ 1 <= limit
    BY RouteFits, EntityIdFits
  <2>3. c # d
    BY <1>1
  <2>4. 1 * Unit = Unit
    BY LocalBucketAssumption
  <2>5. Consume(n, 1, limit)
    BY <1>1, <2>1, <2>2 DEF Check
  <2>6. taken'[c] = IF Filled(n, limit) >= Unit THEN Seen(n)[c] ELSE taken[c]
    <3>1. CASE Filled(n, limit) >= Unit
      <4>1. taken' = [Seen(n) EXCEPT ![d] = {}]
        BY <1>1, <2>1, <2>2, <3>1 DEF Check
      <4>2. QED
        BY <2>3, <3>1, <4>1 DEF Seen
    <3>2. CASE ~(Filled(n, limit) >= Unit)
      <4>1. taken' = [taken EXCEPT ![d] = {}]
        BY <1>1, <2>1, <2>2, <3>2 DEF Check
      <4>2. QED
        BY <1>0, <2>3, <3>2, <4>1
    <3>3. QED
      BY <3>1, <3>2
  <2>7. QED
    BY <2>2, <2>4, <2>5, <2>6, CallIsSeen
<1>2. ASSUME NEW entity \in Entity, NEW route \in Route, Peek(entity, route)
      PROVE  Untaken(c, place)
  <2>1. PICK n \in Node, limit \in Limits :
            n = <<route[1], entity>> /\ limit = route[2] /\ 1 <= limit
    BY RouteFits
  <2>2. Consume(n, 0, limit) /\ taken' = taken
    BY <1>2, <2>1 DEF Peek
  <2>3. QED
    BY <2>1, <2>2, CallIsSeen
<1>3. ASSUME NEW entity \in Entity, Resend(entity)
      PROVE  Untaken(c, place)
  <2>1. PICK n \in Node : n = <<"redis", entity>>
    BY RedisFits
  <2>2. 1 * Unit = Unit
    BY LocalBucketAssumption
  <2>3. /\ Consume(n, 1, GlobalLimit)
        /\ taken' = IF Filled(n, GlobalLimit) >= Unit THEN Seen(n) ELSE taken
    BY <1>3, <2>1 DEF Resend
  <2>4. taken'[c] = IF Filled(n, GlobalLimit) >= Unit THEN Seen(n)[c] ELSE taken[c]
    BY <2>3
  <2>5. GlobalLimit \in Limits /\ 1 <= GlobalLimit
    BY RedisFits
  <2>6. QED
    BY <2>2, <2>3, <2>4, <2>5, CallIsSeen
<1>4. ASSUME NEW n \in Node, NEW view \in Views, Merge(n, view)
      PROVE  Untaken(c, place)
  <2>1. place \notin taken[c]
    BY <1>0, <1>4 DEF Merge, Seen
  <2>2. b = n => ~(n \in known /\ view < tokens[n])
    BY <1>0, <1>00, <1>4 DEF Merge, Seen
  <2>3. KeepsReady(b)
    BY <1>0, <1>4, <2>2, MergeKeepsReady, GuardAssumption DEF Merge
  <2>4. QED
    BY <1>00, <2>1, <2>3 DEF Untaken
<1>5. ASSUME NEW entity \in Entity, NEW view \in Views, WarmUp(entity, view)
      PROVE  Untaken(c, place)
  <2>1. PICK n \in Node : n = <<"redis", entity>>
    BY RedisFits
  <2>2. /\ Seed(n, view)
        /\ taken' = IF view < Filled(n, GlobalLimit) THEN Seen(n) ELSE taken
    BY <1>5, <2>1 DEF WarmUp
  <2>3. place \notin taken[c]
    BY <1>0, <2>2 DEF Seen
  <2>4. b = n => ~(view < Filled(n, GlobalLimit))
    BY <1>0, <1>00, <2>1, <2>2 DEF Seen
  <2>5. KeepsReady(b)
    BY <1>0, <2>2, <2>4, RedisFits, SeedKeepsReady, GuardAssumption
  <2>6. QED
    BY <1>00, <2>3, <2>5 DEF Untaken
<1>6. CASE \/ \E d \in Client : Respond(d)
           \/ \E bucket \in Node : Expire(bucket)
           \/ TimePasses \/ UNCHANGED vars
  <2>1. taken' = taken
    BY <1>6 DEF Respond, Expire, TimePasses, vars
  <2>2. (b \in known' => b \in known) /\ tokens'[b] = tokens[b] /\ lastRefill'[b] = lastRefill[b]
    BY <1>6 DEF Respond, Expire, Snapshot, TimePasses, Tick, vars, bucketVars
  <2>3. QED
    BY <1>00, <2>1, <2>2, UntouchedKeepsReady DEF Untaken
<1>7. QED
  BY <1>1, <1>2, <1>3, <1>4, <1>5, <1>6 DEF Next

-----------------------------------------------------------------------------
(* Retry-After.                                                             *)

\* The bucket that denied a client will be ready when its answer says, unless
\* tokens are taken from it.
Waits(c) ==
    answer[c].place \notin taken[c] => Ready(<<answer[c].place, EntityId(c)>>, answer[c].until)

RetryInv == \A c \in Client : phase[c] # "idle" => Waits(c)

\* A denied client holds an answer.
LEMMA AnswerFits ==
    ASSUME Typed, NEW c \in Client, phase[c] # "idle"
    PROVE  answer[c] \in Answer /\ answer[c].place \in Place /\ answer[c].until \in Nat
  BY DEF Typed, GuardTypeOK, Answer

\* Its answer stays as good as it was while others do something, or when it is
\* told a later time.
LEMMA WaitsLasts ==
    ASSUME Typed, [Next]_vars, NEW c \in Client, phase[c] # "idle", Waits(c),
           \A route \in Route : ~Check(c, route),
           NEW a \in Answer, answer'[c] = a, a.place = answer[c].place,
           answer[c].until <= a.until
    PROVE  Waits(c)'
<1>1. PICK place \in Place, s \in Nat : place = answer[c].place /\ s = answer[c].until
  BY AnswerFits
<1>2. PICK t \in Nat : t = a.until
  BY DEF Answer
<1>3. PICK b \in Node : b = <<place, EntityId(c)>>
  BY EntityIdFits, GuardAssumption
<1>4. ASSUME place \notin taken'[c]
      PROVE  Ready(b, t)'
  <2>1. Untaken(c, place)
    BY <1>4, TakingIsSeen
  <2>2. Ready(b, s)'
    BY <1>1, <1>3, <2>1 DEF Waits, Untaken, KeepsReady
  <2>3. BucketTypeOK'
    BY NextTyping DEF Typed, GuardTypeOK
  <2>4. QED
    BY <1>1, <1>2, <2>2, <2>3, ReadyLaterNext
<1>5. EntityId(c)' = EntityId(c)
  BY EntityIdFits
<1>6. QED
  BY <1>1, <1>2, <1>3, <1>4, <1>5 DEF Waits, Ready

\* A check that is denied is told when its bucket will be ready.
LEMMA DenialWaits ==
    ASSUME Typed, NEW c \in Client, NEW route \in Route, Check(c, route), phase'[c] # "idle"
    PROVE  Waits(c)'
<1>1. PICK b \in Node : b = <<route[1], EntityId(c)>>
  BY RouteFits, EntityIdFits
<1>2. PICK limit \in Limits : limit = route[2] /\ 1 <= limit
  BY RouteFits, EntityIdFits
<1>3. PICK a \in Answer : /\ answer' = [answer EXCEPT ![c] = a]
                          /\ a.place = route[1] /\ a.until = ResetAt(b, limit)
                          /\ Filled(b, limit) < Unit
  BY <1>1, <1>2, CheckAnswers DEF Typed, GuardTypeOK
<1>4. answer'[c] = a
  BY <1>3 DEF Typed, GuardTypeOK
<1>5. PICK t \in Nat : t = a.until
  BY DEF Answer
<1>6. Consume(b, 1, limit)
  BY <1>1, <1>2 DEF Check
<1>7. Ready(b, t)'
  BY <1>2, <1>3, <1>5, <1>6, DenialIsReady DEF Typed, GuardTypeOK
<1>8. EntityId(c)' = EntityId(c)
  BY EntityIdFits
<1>9. QED
  BY <1>1, <1>3, <1>4, <1>5, <1>7, <1>8 DEF Waits, Ready

LEMMA RetryInvariance ==
    ASSUME Typed, RetryInv, [Next]_vars
    PROVE  RetryInv'
<1> SUFFICES ASSUME NEW c \in Client, phase'[c] # "idle"
             PROVE  Waits(c)'
  BY DEF RetryInv
<1>1. CASE \E route \in Route : Check(c, route)
  BY <1>1, DenialWaits
<1>2. CASE Respond(c)
  <2>1. PICK a \in Answer : /\ answer' = [answer EXCEPT ![c] = a]
                            /\ a.place = answer[c].place
                            /\ answer[c].until <= a.until
    BY <1>2, RespondAnswers
  <2>2. answer'[c] = a /\ phase[c] # "idle"
    BY <1>2, <2>1 DEF Respond, Typed, GuardTypeOK
  <2>3. \A route \in Route : ~Check(c, route)
    BY <1>2 DEF Respond, Check
  <2>4. Waits(c)
    BY <2>2 DEF RetryInv
  <2>5. QED
    BY <2>1, <2>2, <2>3, <2>4, WaitsLasts
<1>3. CASE (\A route \in Route : ~Check(c, route)) /\ ~Respond(c)
  <2>1. phase'[c] = phase[c] /\ answer'[c] = answer[c]
    <3>1. ASSUME NEW d \in Client, NEW route \in Route, Check(d, route)
          PROVE  phase'[c] = phase[c] /\ answer'[c] = answer[c]
      <4>1. c # d
        BY <1>3, <3>1
      <4>2. QED
        BY <3>1, <4>1 DEF Check, Typed, GuardTypeOK
    <3>2. ASSUME NEW d \in Client, Respond(d)
          PROVE  phase'[c] = phase[c] /\ answer'[c] = answer[c]
      <4>1. c # d
        BY <1>3, <3>2
      <4>2. QED
        BY <3>2, <4>1 DEF Respond, Typed, GuardTypeOK
    <3>3. CASE phase' = phase /\ answer' = answer
      BY <3>3
    <3>4. QED
      BY <3>1, <3>2, <3>3
         DEF Next, Peek, Expire, Merge, WarmUp, Resend, TimePasses, vars, guardVars
  <2>2. PICK a \in Answer : a = answer[c] /\ a.until \in Nat
    BY <2>1, AnswerFits
  <2>3. a.until <= a.until
    BY <2>2
  <2>4. Waits(c)
    BY <2>1 DEF RetryInv
  <2>5. QED
    BY <1>3, <2>1, <2>2, <2>3, <2>4, WaitsLasts
<1>4. QED
  BY <1>1, <1>2, <1>3

(***************************************************************************)
(* A client that was denied and waits for its Retry-After finds a token in *)
(* the bucket that denied it, however late the guard resumed, whoever      *)
(* peeked or was denied meanwhile, and whatever was rounded on the way, at *)
(* any rate and limit; unless tokens were taken from that bucket, by a     *)
(* grant or a resent call, a peer's view or a seed.                        *)
(***************************************************************************)
THEOREM RetryAfterIsEnough == Spec => []RetryAfterSuffices
<1>1. Init => RetryInv
  BY DEF Init, RetryInv
<1>2. Typed /\ RetryInv /\ [Next]_vars => RetryInv'
  BY RetryInvariance
<1>3. Typed /\ RetryInv => RetryAfterSuffices
  <2> SUFFICES ASSUME Typed, RetryInv, NEW c \in Client, NEW route \in Route,
                      phase[c] = "told", time >= answer[c].until,
                      route[1] = answer[c].place, route[1] \notin taken[c]
               PROVE  Filled(<<route[1], EntityId(c)>>, route[2]) >= Unit
    BY DEF RetryAfterSuffices
  <2>1. PICK t \in Nat : t = answer[c].until
    BY AnswerFits
  <2>2. PICK b \in Node : b = <<route[1], EntityId(c)>>
    BY RouteFits, EntityIdFits
  <2>3. PICK limit \in Limits : limit = route[2] /\ 1 <= limit
    BY RouteFits, EntityIdFits
  <2>4. Ready(b, t)
    BY <2>1, <2>2 DEF RetryInv, Waits
  <2>5. t <= time
    BY <2>1 DEF Typed, GuardTypeOK, BucketTypeOK
  <2>6. Filled(b, limit) >= Unit
    BY <2>3, <2>4, <2>5, ReadyFills DEF Typed, GuardTypeOK
  <2>7. QED
    BY <2>2, <2>3, <2>6
<1>4. QED
  BY <1>1, <1>2, <1>3, Typing, PTL DEF Spec

-----------------------------------------------------------------------------
(* Clients within the refill rate.                                          *)

Paced(c) == Rate * Pace[c] >= Unit

\* Every bucket of its entity from which no tokens were taken since its last
\* request will be ready for the next.
PacedInv ==
    \A c \in Client, place \in Place :
        Paced(c) /\ place \notin taken[c]
            => Ready(<<place, EntityId(c)>>, time + pause[c])

\* Its own request leaves every bucket time to refill.
LEMMA PauseSuffices ==
    ASSUME Typed, [Next]_vars, NEW c \in Client, NEW place \in Place, NEW route \in Route,
           Check(c, route), Paced(c)
    PROVE  Ready(<<place, EntityId(c)>>, time + pause[c])'
<1>1. BucketTypeOK' /\ RefilledInThePast' /\ EntityId(c)' = EntityId(c)
  BY NextTyping, EntityIdFits DEF Typed, GuardTypeOK
<1>2. PICK b \in Node : b = <<place, EntityId(c)>>
  BY EntityIdFits, GuardAssumption
<1>3. pause'[c] = Pace[c] /\ Pace[c] \in Nat /\ time' \in Nat
  BY <1>1, GuardAssumption DEF Check, Typed, GuardTypeOK, BucketTypeOK
<1>4. PICK t \in Nat : t = time' + Pace[c]
  BY <1>3
<1>5. Ready(b, t)'
  BY <1>1, <1>3, <1>4, ReadyInTime DEF Paced
<1>6. QED
  BY <1>1, <1>2, <1>3, <1>4, <1>5 DEF Ready

LEMMA PacedInvariance ==
    ASSUME Typed, PacedInv, [Next]_vars
    PROVE  PacedInv'
<1> SUFFICES ASSUME NEW c \in Client, NEW place \in Place, Paced(c), place \notin taken'[c]
             PROVE  Ready(<<place, EntityId(c)>>, time + pause[c])'
  BY DEF PacedInv, Paced
<1>1. CASE \E route \in Route : Check(c, route)
  BY <1>1, PauseSuffices
<1>2. CASE \A route \in Route : ~Check(c, route)
  <2>1. Untaken(c, place)
    BY <1>2, TakingIsSeen
  <2>2. PICK b \in Node : b = <<place, EntityId(c)>>
    BY EntityIdFits, GuardAssumption
  <2>3. BucketTypeOK' /\ time \in Nat /\ time' \in Nat /\ pause[c] \in Nat /\ pause'[c] \in Nat
    BY NextTyping DEF Typed, GuardTypeOK, BucketTypeOK
  <2>4. PICK s \in Nat : s = time + pause[c]
    BY <2>3
  <2>5. PICK t \in Nat : t = time' + pause'[c]
    BY <2>3
  <2>6. Ready(b, s)'
    BY <2>1, <2>2, <2>4 DEF PacedInv, Untaken, KeepsReady
  <2>7. s <= t
    <3>1. CASE TimePasses
      <4>1. time' = time + 1 /\ pause'[c] = IF pause[c] = 0 THEN 0 ELSE pause[c] - 1
        BY <3>1 DEF TimePasses, Tick
      <4>2. QED
        BY <2>3, <2>4, <2>5, <4>1
    <3>2. ASSUME NEW d \in Client, NEW route \in Route, Check(d, route)
          PROVE  s <= t
      <4>1. c # d
        BY <1>2, <3>2
      <4>2. time' = time /\ pause'[c] = pause[c]
        BY <3>2, <4>1 DEF Check, Consume, Typed, GuardTypeOK
      <4>3. QED
        BY <2>3, <2>4, <2>5, <4>2
    <3>3. CASE time' = time /\ pause' = pause
      BY <2>3, <2>4, <2>5, <3>3
    <3>4. QED
      BY <3>1, <3>2, <3>3
         DEF Next, Respond, Peek, Consume, Expire, Snapshot, Merge, MergePeer, WarmUp, Seed,
             Resend, vars, guardVars
  <2>8. Ready(b, t)'
    BY <2>3, <2>6, <2>7, ReadyLaterNext
  <2>9. EntityId(c)' = EntityId(c)
    BY EntityIdFits
  <2>10. QED
    BY <2>2, <2>5, <2>8, <2>9 DEF Ready
<1>3. QED
  BY <1>1, <1>2

\* A step that denies a client is its check, and finds no token.
LEMMA DenialIsCheck ==
    ASSUME Typed, [Next]_vars, NEW c \in Client, phase[c] # "denied", phase'[c] = "denied"
    PROVE  \E route \in Route : /\ Check(c, route)
                                /\ answer'[c].place = route[1]
                                /\ Filled(<<route[1], EntityId(c)>>, route[2]) < Unit
<1>1. PICK route \in Route : Check(c, route)
  <2>1. ASSUME NEW d \in Client, NEW route \in Route, Check(d, route), c # d
        PROVE  FALSE
    BY <2>1 DEF Check, Typed, GuardTypeOK
  <2>2. ASSUME NEW d \in Client, Respond(d)
        PROVE  FALSE
    BY <2>2 DEF Respond, Typed, GuardTypeOK
  <2>3. phase' # phase
    OBVIOUS
  <2>4. QED
    BY <2>1, <2>2, <2>3
       DEF Next, Peek, Expire, Merge, WarmUp, Resend, TimePasses, vars, guardVars
<1>2. PICK a \in Answer : /\ answer' = [answer EXCEPT ![c] = a]
                          /\ a.place = route[1]
                          /\ Filled(<<route[1], EntityId(c)>>, route[2]) < Unit
  BY <1>1, CheckAnswers DEF Typed, GuardTypeOK
<1>3. answer'[c] = a
  BY <1>2 DEF Typed, GuardTypeOK
<1>4. QED
  BY <1>1, <1>2, <1>3

(***************************************************************************)
(* A client within the refill rate is denied only by a bucket of its own   *)
(* entity that tokens were taken from since its last request: whatever is  *)
(* done to other entities, peeked and found evicted, however many servers  *)
(* and clients there are, and whichever of its entity's buckets, with      *)
(* which limit, its requests were charged to.                              *)
(***************************************************************************)
THEOREM PacedDeniedOnlyWhenTaken == Spec => DeniedOnlyWhenTaken
<1>1. Init => PacedInv
  BY DEF Init, BucketInit, PacedInv, Ready
<1>2. Typed /\ PacedInv /\ [Next]_vars => PacedInv'
  BY PacedInvariance
<1>3. ASSUME Typed, PacedInv, [Next]_vars,
             NEW c \in Client, Paced(c), phase[c] # "denied", phase'[c] = "denied"
      PROVE  answer'[c].place \in taken[c]
  <2>1. PICK route \in Route : /\ Check(c, route)
                               /\ answer'[c].place = route[1]
                               /\ Filled(<<route[1], EntityId(c)>>, route[2]) < Unit
    BY <1>3, DenialIsCheck
  <2>2. PICK b \in Node : b = <<route[1], EntityId(c)>>
    BY RouteFits, EntityIdFits
  <2>3. PICK limit \in Limits : limit = route[2] /\ 1 <= limit
    BY RouteFits, EntityIdFits
  <2>4. PICK now \in Nat : now = time
    BY <1>3 DEF Typed, GuardTypeOK, BucketTypeOK
  <2>5. pause[c] = 0 /\ now + 0 = now
    BY <2>1, <2>4 DEF Check
  <2>6. ASSUME route[1] \notin taken[c]
        PROVE  FALSE
    <3>1. Ready(b, now)
      BY <1>3, <2>2, <2>4, <2>5, <2>6, RouteFits, EntityIdFits DEF PacedInv
    <3>2. Filled(b, limit) >= Unit
      BY <1>3, <2>3, <2>4, <3>1, ReadyFills DEF Typed, GuardTypeOK
    <3>3. Filled(b, limit) \in Nat /\ Unit \in Nat
      BY <1>3, <2>3, FilledIsBounded, CapacityIsNatural, LocalBucketAssumption
         DEF Typed, GuardTypeOK
    <3>4. QED
      BY <2>1, <2>2, <2>3, <3>2, <3>3
  <2>7. QED
    BY <2>1, <2>6
<1>4. Typed /\ PacedInv /\ [Next]_vars
        => [\A c \in Client :
                /\ Rate * Pace[c] >= Unit
                /\ phase[c] # "denied"
                /\ phase'[c] = "denied"
                => answer'[c].place \in taken[c]]_vars
  BY <1>3 DEF Paced
<1>5. QED
  BY <1>1, <1>2, <1>4, Typing, PTL DEF Spec, DeniedOnlyWhenTaken

-----------------------------------------------------------------------------
(* The buckets behind the guard.                                            *)

(***************************************************************************)
(* Every bucket of every entity implements the token bucket, with checks   *)
(* and peeks charged and evictions made with either limit, resent calls    *)
(* and merges, and with seeds, of which it says that they put back no more *)
(* than is written down as forgiven.                                       *)
(***************************************************************************)
THEOREM Refinement == Spec => ImplementsQuota
<1>1. Init => Quota!Init
  BY QuotaInit DEF Init
<1>2. Typed /\ [Next]_vars => [Quota!Next]_Quota!quotaVars
  BY BucketSteps, QuotaSteps DEF Typed, GuardTypeOK
<1>3. QED
  BY <1>1, <1>2, Typing, PTL DEF Spec, ImplementsQuota, Quota!Spec

(***************************************************************************)
(* However long its clients were idle, a bucket saved up one burst for     *)
(* them: when, at time t, g was granted from it and f forgiven, at most a  *)
(* full bucket, the refill since t and what evictions and seeds put back   *)
(* since is granted ever after.                                            *)
(***************************************************************************)
THEOREM BurstsBounded ==
    ASSUME NEW b \in Node, NEW t \in Nat, NEW g \in Nat, NEW f \in Nat
    PROVE  Spec => [](time = t /\ granted[b] = g /\ forgiven[b] = f
                        => []WithinQuotaSince(b, t, g, f))
<1>1. Typed /\ time = t /\ granted[b] = g /\ forgiven[b] = f => SpentSince(b, t, g, f)
  BY SpentSinceBegins DEF Typed, GuardTypeOK
<1>2. Typed /\ SpentSince(b, t, g, f) /\ [Next]_vars => SpentSince(b, t, g, f)'
  BY BucketSteps, SpentSinceLasts DEF Typed, GuardTypeOK
<1>3. Typed /\ SpentSince(b, t, g, f) => WithinQuotaSince(b, t, g, f)
  BY SpentIsWithinQuota DEF Typed, GuardTypeOK
<1>4. QED
  BY <1>1, <1>2, <1>3, Typing, PTL DEF Spec

(***************************************************************************)
(* When an entry stays as long as its bucket takes to refill, its eviction *)
(* gives nothing away.                                                     *)
(***************************************************************************)
THEOREM EvictionFree == Spec => []EvictionIsFree
<1>1. Typed => EvictionIsFree
  BY StaleIsFull DEF Typed, GuardTypeOK
<1>2. QED
  BY <1>1, Typing, PTL

=============================================================================
