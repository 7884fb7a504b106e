------------------------- MODULE MySQLFallbackProofs -------------------------
(***************************************************************************)
(* Proofs about MySQLFallback, for any number of servers, restarts and     *)
(* upserts under way, and any limits and rate.                             *)
(*                                                                         *)
(* What a row leaves must be covered when a server is seeded from it, long *)
(* after its snapshot: the strengthening says that every snapshot under    *)
(* way or in the row, with what its server had granted by then, is covered *)
(* now as the server's own bucket is (Leaves).                             *)
(***************************************************************************)
EXTENDS MySQLFallback, LocalBucketProofs

\* The snapshots a server may yet be seeded from.
Snapshots ==
    taken \cup {u.snapshot : u \in upserts} \cup (IF row = NoRow THEN {} ELSE {row.snapshot})

\* No server has granted less than when it took a snapshot.
Typed ==
    /\ FallbackTypeOK
    /\ RefilledInThePast
    /\ \A u \in Snapshots : u.granted <= granted[u.by]

\* What the snapshot leaves, and its server had granted by then, is covered by
\* what that server may have granted since time t, when it had granted g and
\* been forgiven f.
Leaves(u, t, g, f) ==
    u.granted + Remaining(u) * Unit + f + Rate * t
        <= g + Capacity + forgiven[u.by] + Rate * time

\* So is its bucket, and so is every snapshot of it.
CoveredSince(n, t, g, f) ==
    /\ SpentSince(n, t, g, f)
    /\ \A u \in Snapshots : u.by = n => Leaves(u, t, g, f)

-----------------------------------------------------------------------------

\* NoRow is no upsert.
LEMMA NoRowIsNoUpsert == NoRow \notin Upsert
  BY DEF NoRow, Upsert

\* What is left of a share fits into it.
LEMMA RemainingFits ==
    ASSUME NEW u \in Taken
    PROVE  Remaining(u) * Unit \in 0 .. Capacity
<1>1. Remaining(u) \in Nat /\ Remaining(u) <= GlobalLimit /\ Unit \in Nat /\ GlobalLimit \in Nat
  BY FallbackAssumption, LocalBucketAssumption DEF Remaining, Taken
<1>2. Unit * Remaining(u) <= Unit * GlobalLimit
  BY <1>1, Monotone
<1>3. Unit * Remaining(u) = Remaining(u) * Unit /\ Unit * GlobalLimit = GlobalLimit * Unit
  BY <1>1
<1>4. Remaining(u) * Unit \in Nat /\ GlobalLimit * Unit \in Nat
  BY <1>1, ProductIsNatural
<1> HIDE DEF Remaining
<1>5. QED
  BY <1>2, <1>3, <1>4 DEF Capacity

\* A share is used up to its size, and what the row leaves of it is in the
\* bucket.
LEMMA UsedTokensFit ==
    ASSUME BucketTypeOK, NEW n \in Node
    PROVE  /\ UsedTokens(n) \in 0 .. Share
           /\ (Share - UsedTokens(n)) * Unit <= tokens[n]
<1> DEFINE whole == tokens[n] \div Unit
<1>1. tokens[n] \in Nat /\ Unit \in Nat \ {0} /\ Share \in Nat
  BY CapacityIsNatural, LocalBucketAssumption, FallbackAssumption DEF BucketTypeOK
<1>2. whole \in Nat /\ whole * Unit <= tokens[n]
  BY <1>1
<1> HIDE DEF whole
<1>3. UsedTokens(n) = IF whole < Share THEN Share - whole ELSE 0
  BY DEF UsedTokens, whole
<1>4. UsedTokens(n) \in 0 .. Share /\ Share - UsedTokens(n) \in Nat
      /\ Share - UsedTokens(n) <= whole
  BY <1>1, <1>2, <1>3
<1>5. Unit * (Share - UsedTokens(n)) <= Unit * whole
  BY <1>1, <1>2, <1>4, Monotone
<1> DEFINE left == Share - UsedTokens(n)
<1>6. left \in Nat
  BY <1>4
<1>7. Unit * left <= Unit * whole
  BY <1>5
<1> HIDE DEF left
<1>8. left * Unit <= tokens[n]
  <2>1. left * Unit = Unit * left /\ whole * Unit = Unit * whole
    BY <1>1, <1>2, <1>6
  <2>2. left * Unit \in Nat /\ whole * Unit \in Nat
    BY <1>1, <1>2, <1>6, ProductIsNatural
  <2>3. QED
    BY <1>1, <1>2, <1>7, <2>1, <2>2
<1>9. QED
  BY <1>4, <1>8 DEF left

-----------------------------------------------------------------------------
(* Steps that restart no server.                                            *)

\* They do to the buckets what LocalBucket does.
RunningNext ==
    \/ \E n \in Node : Check(n) \/ StartFlush(n) \/ StopFlush(n) \/ Flush(n)
    \/ \E t \in taken : Send(t)
    \/ \E u \in upserts : Land(u) \/ Fail(u)
    \/ TimePasses
    \/ UNCHANGED vars

LEMMA BucketSteps ==
    ASSUME Typed, RunningNext
    PROVE  /\ BucketTypeOK' /\ RefilledInThePast'
           /\ BucketNext \/ UNCHANGED <<time, bucketVars, ledgerVars>>
<1>1. BucketNext \/ UNCHANGED <<time, bucketVars, ledgerVars>>
  <2>1. ASSUME NEW n \in Node, Check(n)
        PROVE  BucketNext
    <3>1. PICK limit \in {Share, GlobalLimit} : Consume(n, 1, limit)
      BY <2>1 DEF Check
    <3>2. limit \in Limits /\ 1 \in Nat
      BY FallbackAssumption
    <3>3. QED
      BY <3>1, <3>2 DEF BucketNext
  <2>2. ASSUME NEW n \in Node, Flush(n)
        PROVE  BucketNext
    BY <2>2 DEF Flush, BucketNext
  <2>3. CASE TimePasses
    BY <2>3 DEF TimePasses, BucketNext
  <2>4. CASE \/ \E n \in Node : StartFlush(n) \/ StopFlush(n)
             \/ \E t \in taken : Send(t)
             \/ \E u \in upserts : Land(u) \/ Fail(u)
             \/ UNCHANGED vars
    BY <2>4 DEF StartFlush, StopFlush, Send, Land, Fail, vars
  <2>5. QED
    BY <2>1, <2>2, <2>3, <2>4 DEF RunningNext
<1>2. QED
  BY <1>1, BucketTyping DEF Typed, FallbackTypeOK

\* No step takes a grant, time or what was given back away.
Grows ==
    /\ time <= time'
    /\ \A n \in Node : granted[n] <= granted'[n] /\ forgiven[n] <= forgiven'[n]

LEMMA LedgersGrow ==
    ASSUME Typed, BucketNext \/ UNCHANGED <<time, bucketVars, ledgerVars>>
    PROVE  Grows
<1> USE DEF Typed, FallbackTypeOK, BucketTypeOK
<1>1. ASSUME NEW n \in Node, NEW cost \in Nat, NEW limit \in Limits, Consume(n, cost, limit)
      PROVE  Grows
  <2>1. cost * Unit \in Nat
    BY LocalBucketAssumption, ProductIsNatural
  <2> HIDE DEF Filled
  <2>2. granted' = [granted EXCEPT ![n] = @ + cost * Unit] \/ granted' = granted
    BY <1>1 DEF Consume
  <2>3. QED
    BY <1>1, <2>1, <2>2 DEF Consume, Grows
<1>2. ASSUME NEW n \in Node, Snapshot(n)
      PROVE  Grows
  BY <1>2, MissingIsNatural DEF Snapshot, Grows
<1>3. ASSUME NEW n \in Node, NEW view \in 0 .. Capacity, MergePeer(n, view)
      PROVE  Grows
  BY <1>3 DEF MergePeer, ledgerVars, Grows
<1>4. CASE Tick \/ UNCHANGED <<time, bucketVars, ledgerVars>>
  BY <1>4 DEF Tick, bucketVars, ledgerVars, Grows
<1>5. ASSUME NEW n \in Node, NEW view \in 0 .. Capacity, Seed(n, view)
      PROVE  Grows
  <2>1. Surplus(n, view) \in Nat
    BY SurplusFits, FilledIsBounded, CapacityIsNatural, LocalBucketAssumption
  <2>2. QED
    BY <1>5, <2>1 DEF Seed, Grows
<1>6. QED
  BY <1>1, <1>2, <1>3, <1>4, <1>5 DEF BucketNext

\* A snapshot that was covered stays so while the ledgers grow.
LEMMA LeavesLasts ==
    ASSUME Typed, Grows, BucketTypeOK', NEW u \in Taken,
           NEW t \in Nat, NEW g \in Nat, NEW f \in Nat, Leaves(u, t, g, f)
    PROVE  Leaves(u, t, g, f)'
<1>0. Capacity' = Capacity /\ Capacity \in Nat /\ Remaining(u)' = Remaining(u)
  BY CapacityIsNatural DEF Capacity, Remaining
<1>1. u.by \in Node /\ u.granted \in Nat /\ Remaining(u) * Unit \in Nat
  BY RemainingFits, CapacityIsNatural DEF Taken
<1>2. /\ forgiven[u.by] \in Nat /\ forgiven'[u.by] \in Nat
      /\ time \in Nat /\ time' \in Nat
  BY <1>1 DEF Typed, FallbackTypeOK, BucketTypeOK
<1>3. /\ Rate * time <= Rate * time'
      /\ Rate * time \in Nat /\ Rate * time' \in Nat /\ Rate * t \in Nat
  BY <1>2, LocalBucketAssumption, ProductIsNatural, Monotone DEF Grows
<1>4. forgiven[u.by] <= forgiven'[u.by]
  BY <1>1 DEF Grows
<1> HIDE DEF Remaining
<1> DEFINE left == Remaining(u) * Unit
           now == Rate * time
           next == Rate * time'
           then == Rate * t
<1>5. u.granted + left + f + then <= g + Capacity + forgiven[u.by] + now
  BY DEF Leaves
<1>6. left \in Nat /\ now \in Nat /\ next \in Nat /\ then \in Nat /\ now <= next
  BY <1>1, <1>3
<1> HIDE DEF left, now, next, then
<1>7. u.granted + left + f + then <= g + Capacity + forgiven'[u.by] + next
  BY <1>0, <1>1, <1>2, <1>4, <1>5, <1>6
<1>8. QED
  BY <1>0, <1>7 DEF Leaves, left, next, then

\* What Flush takes.
Sent(n) == [usedTokens |-> UsedTokens(n), by |-> n, granted |-> granted[n]]

LEMMA WindowTyping == \A t \in Nat : t \div Minute \in Nat
  BY FallbackAssumption

\* It leaves no more than the bucket it was taken from.
LEMMA SentFits ==
    ASSUME Typed, NEW n \in known
    PROVE  /\ Sent(n) \in Taken /\ Sent(n).by = n /\ Sent(n).granted = granted[n]
           /\ Remaining(Sent(n)) * Unit <= Credit[n]
<1>1. BucketTypeOK /\ RefilledInThePast /\ n \in Node
  BY DEF Typed, FallbackTypeOK, BucketTypeOK
<1>2. granted[n] \in Nat /\ tokens[n] \in Nat /\ time \in Nat
  BY <1>1, CapacityIsNatural DEF BucketTypeOK
<1>3. UsedTokens(n) \in 0 .. Share /\ (Share - UsedTokens(n)) * Unit <= tokens[n]
  BY <1>1, UsedTokensFit
<1>4. Sent(n) \in Taken
  BY <1>1, <1>2, <1>3 DEF Sent, Taken
<1>5. /\ Remaining(Sent(n)) = Share - UsedTokens(n)
      /\ Sent(n).granted = granted[n] /\ Sent(n).by = n
  BY DEF Remaining, Sent
<1>6. Remaining(Sent(n)) * Unit <= tokens[n] /\ Remaining(Sent(n)) * Unit \in Nat
  BY <1>3, <1>4, <1>5, RemainingFits, CapacityIsNatural
<1>7. tokens[n] <= Credit[n] /\ Credit[n] \in Nat
  BY <1>1, TokensAreCredit, CreditTyping, CapacityIsNatural DEF Credit
<1>8. QED
  BY <1>2, <1>4, <1>5, <1>6, <1>7

\* So it is covered as the bucket is.
LEMMA SentIsCovered ==
    ASSUME Typed, NEW n \in known, NEW t \in Nat, NEW g \in Nat, NEW f \in Nat,
           SpentSince(n, t, g, f)
    PROVE  Leaves(Sent(n), t, g, f)
<1>1. /\ n \in Node /\ granted[n] \in Nat /\ forgiven[n] \in Nat /\ time \in Nat
      /\ Capacity \in Nat /\ Credit[n] \in Nat
  BY CapacityIsNatural, CreditTyping DEF Typed, FallbackTypeOK, BucketTypeOK
<1> DEFINE left == Remaining(Sent(n)) * Unit
           now == Rate * time
           then == Rate * t
<1>2. /\ Sent(n).granted = granted[n] /\ Sent(n).by = n /\ left <= Credit[n]
      /\ left \in Nat /\ now \in Nat /\ then \in Nat
  BY <1>1, SentFits, RemainingFits, CapacityIsNatural, LocalBucketAssumption, ProductIsNatural
<1>3. granted[n] + Credit[n] + f + then <= g + Capacity + forgiven[n] + now
  BY DEF SpentSince
<1> HIDE DEF left, now, then
<1>4. granted[n] + left + f + then <= g + Capacity + forgiven[n] + now
  BY <1>1, <1>2, <1>3
<1>5. QED
  BY <1>2, <1>4 DEF Leaves, left, now, then

\* A step that restarts no server adds no snapshot but the one it flushes.
LEMMA RunningSnapshots ==
    ASSUME Typed, RunningNext
    PROVE  /\ FallbackTypeOK'
           /\ \A u \in Snapshots' :
                u \in Snapshots \/ \E n \in known : u = Sent(n)
<1>1. BucketTypeOK'
  BY BucketSteps
<1>0. \A n \in known : Sent(n) \in Taken
  BY SentFits
<1> USE <1>1, NoRowIsNoUpsert DEF Typed, FallbackTypeOK, Snapshots
<1>2. ASSUME NEW n \in Node, Check(n)
      PROVE  FallbackTypeOK' /\ Snapshots' = Snapshots
  BY <1>2 DEF Check, rowVars
<1>3. ASSUME NEW n \in Node, StartFlush(n) \/ StopFlush(n)
      PROVE  FallbackTypeOK' /\ Snapshots' = Snapshots
  BY <1>3 DEF StartFlush, StopFlush, rowVars
<1>4. ASSUME NEW n \in Node, Flush(n)
      PROVE  /\ FallbackTypeOK'
             /\ \A u \in Snapshots' : u \in Snapshots \/ \E m \in known : u = Sent(m)
  <2>1. \/ taken' = taken
        \/ n \in known /\ taken' = taken \cup {Sent(n)}
    BY <1>4 DEF Flush, Sent
  <2>2. n \in known => Sent(n) \in Taken
    BY <1>0
  <2>3. taken' \in SUBSET Taken
    BY <2>1, <2>2
  <2>4. QED
    BY <1>4, <2>1, <2>3 DEF Flush
<1>a. ASSUME NEW t \in taken, Send(t)
      PROVE  FallbackTypeOK' /\ Snapshots' \subseteq Snapshots
  <2>1. /\ taken' = taken \ {t} /\ row' = row
        /\ upserts' = upserts \cup {[snapshot |-> t, windowStart |-> WindowStart,
                                     stamped |-> granted[t.by]]}
    BY <1>a DEF Send
  <2>2. [snapshot |-> t, windowStart |-> WindowStart, stamped |-> granted[t.by]] \in Upsert
    BY WindowTyping DEF Upsert, Taken, BucketTypeOK, WindowStart
  <2>3. FallbackTypeOK'
    BY <1>a, <2>1, <2>2 DEF Send
  <2>4. ASSUME NEW u \in upserts'
        PROVE  u.snapshot \in taken \cup {v.snapshot : v \in upserts}
    BY <2>1
  <2>5. QED
    BY <2>1, <2>3, <2>4
<1>5. ASSUME NEW u \in upserts, Land(u)
      PROVE  FallbackTypeOK' /\ Snapshots' \subseteq Snapshots
  BY <1>5 DEF Land
<1>6. ASSUME NEW u \in upserts, Fail(u)
      PROVE  FallbackTypeOK' /\ Snapshots' \subseteq Snapshots
  BY <1>6 DEF Fail
<1>7. CASE TimePasses
  BY <1>7 DEF TimePasses, Tick, ledgerVars, BucketTypeOK
<1>8. CASE UNCHANGED vars
  BY <1>8 DEF vars, rowVars
<1>9. QED
  BY <1>2, <1>3, <1>4, <1>a, <1>5, <1>6, <1>7, <1>8 DEF RunningNext

LEMMA SnapshotTyping ==
    ASSUME FallbackTypeOK
    PROVE  Snapshots \subseteq Taken
  BY DEF FallbackTypeOK, Snapshots, Upsert

\* Nor does it take anything back.
LEMMA RunningTyping ==
    ASSUME Typed, RunningNext
    PROVE  Typed'
<1>1. Grows /\ BucketTypeOK' /\ RefilledInThePast' /\ FallbackTypeOK'
  BY BucketSteps, LedgersGrow, RunningSnapshots
<1>2. ASSUME NEW u \in Snapshots'
      PROVE  u.granted <= granted'[u.by]
  <2>1. u \in Taken /\ u.granted <= granted[u.by]
    <3>1. CASE u \in Snapshots
      BY <3>1, SnapshotTyping DEF Typed
    <3>2. ASSUME NEW n \in known, u = Sent(n)
          PROVE  u \in Taken /\ u.granted <= granted[u.by]
      BY <3>2, SentFits DEF Typed, FallbackTypeOK, BucketTypeOK
    <3>3. QED
      BY <3>1, <3>2, RunningSnapshots
  <2>2. /\ u.by \in Node /\ u.granted \in Nat /\ granted[u.by] \in Nat
        /\ granted'[u.by] \in Nat /\ granted[u.by] <= granted'[u.by]
    BY <1>1, <2>1 DEF Taken, Typed, FallbackTypeOK, BucketTypeOK, Grows
  <2>3. QED
    BY <2>1, <2>2
<1>3. QED
  BY <1>1, <1>2 DEF Typed

LEMMA RunningCovers ==
    ASSUME Typed, RunningNext,
           NEW n \in Node, NEW t \in Nat, NEW g \in Nat, NEW f \in Nat,
           CoveredSince(n, t, g, f)
    PROVE  CoveredSince(n, t, g, f)'
<1>1. Grows /\ BucketTypeOK'
  BY BucketSteps, LedgersGrow
<1>2. SpentSince(n, t, g, f)'
  BY BucketSteps, SpentSinceLasts DEF Typed, FallbackTypeOK, CoveredSince
<1>3. ASSUME NEW u \in Snapshots', u.by = n
      PROVE  Leaves(u, t, g, f)'
  <2>1. u \in Taken /\ Leaves(u, t, g, f)
    <3>1. CASE u \in Snapshots
      BY <1>3, <3>1, SnapshotTyping DEF Typed, CoveredSince
    <3>2. ASSUME NEW m \in known, u = Sent(m)
          PROVE  u \in Taken /\ Leaves(u, t, g, f)
      BY <1>3, <3>2, SentFits, SentIsCovered DEF CoveredSince
    <3>3. QED
      BY <3>1, <3>2, RunningSnapshots
  <2>2. QED
    BY <1>1, <2>1, LeavesLasts
<1>4. QED
  BY <1>2, <1>3 DEF CoveredSince

-----------------------------------------------------------------------------
(* Restarts.                                                                *)

\* A restart changes one server's bucket, and gives back no debt.
LEMMA RestartSteps ==
    ASSUME Typed, NEW n \in Node, StartUnseeded(n) \/ StartSeeded(n)
    PROVE  /\ FallbackTypeOK' /\ RefilledInThePast' /\ Grows
           /\ time' = time /\ granted' = granted /\ Snapshots' \subseteq Snapshots
           /\ \A m \in Node \ {n} : Credit'[m] = Credit[m] /\ forgiven'[m] = forgiven[m]
<1>0. Capacity' = Capacity /\ Capacity \in Nat
  BY CapacityIsNatural DEF Capacity
<1>1. /\ time' = time /\ granted' = granted /\ row' = row
      /\ upserts' = upserts /\ before' = before
      /\ taken' = {t \in taken : t.by # n}
      /\ flushing' = flushing \ {n} /\ restarts' = restarts + 1
  BY DEF StartUnseeded, StartSeeded, Restart, rowVars
<1>2. Snapshots' \subseteq Snapshots
  BY <1>1 DEF Snapshots
<1>3. /\ Missing(n) \in Nat
      /\ row # NoRow => Forgives(n, row.snapshot) \in Nat /\ Remaining(row.snapshot) * Unit \in 0 .. Capacity
  <2>1. Missing(n) \in Nat
    BY MissingIsNatural DEF Typed, FallbackTypeOK
  <2>2. CASE row # NoRow
    <3>1. row.snapshot \in Taken /\ row.snapshot.granted <= granted[row.snapshot.by]
      BY <2>2 DEF Typed, FallbackTypeOK, Snapshots, Upsert
    <3>2. row.snapshot.granted \in Nat /\ granted[n] \in Nat /\ Remaining(row.snapshot) * Unit \in 0 .. Capacity
      BY <3>1, RemainingFits DEF Taken, Typed, FallbackTypeOK, BucketTypeOK
    <3> HIDE DEF Remaining
    <3>3. Forgives(n, row.snapshot) \in Nat
      BY <1>0, <3>1, <3>2 DEF Forgives
    <3>4. QED
      BY <2>1, <3>2, <3>3
  <2>3. QED
    BY <2>1, <2>2
<1>4. \E amount \in Nat : forgiven' = [forgiven EXCEPT ![n] = @ + amount]
  BY <1>3 DEF StartUnseeded, StartSeeded
<1>5. /\ known' \in SUBSET Node
      /\ tokens' \in [Node -> 0 .. Capacity]
      /\ lastRefill' \in [Node -> Nat]
      /\ \A m \in Node : lastRefill'[m] <= time
      /\ \A m \in Node \ {n} : /\ tokens'[m] = tokens[m] /\ lastRefill'[m] = lastRefill[m]
                               /\ m \in known' <=> m \in known
  BY <1>3 DEF StartUnseeded, StartSeeded, Typed, FallbackTypeOK, BucketTypeOK, RefilledInThePast
<1>6. BucketTypeOK' /\ RefilledInThePast'
  <2>1. BucketTypeOK
    BY DEF Typed, FallbackTypeOK
  <2>2. forgiven' \in [Node -> Nat]
    BY <1>4, <2>1 DEF BucketTypeOK
  <2>3. BucketTypeOK'
    BY <1>0, <1>1, <1>5, <2>1, <2>2 DEF BucketTypeOK
  <2>4. QED
    BY <1>1, <1>5, <2>3 DEF RefilledInThePast
<1>7. FallbackTypeOK'
  BY <1>1, <1>6 DEF Typed, FallbackTypeOK
<1>8. Grows
  BY <1>1, <1>4 DEF Grows, Typed, FallbackTypeOK, BucketTypeOK
<1>9. \A m \in Node \ {n} : Credit'[m] = Credit[m] /\ forgiven'[m] = forgiven[m]
  BY <1>1, <1>4, <1>5 DEF Credit, Filled, Typed, FallbackTypeOK, BucketTypeOK
<1>10. QED
  BY <1>1, <1>2, <1>6, <1>7, <1>8, <1>9

LEMMA RestartTyping ==
    ASSUME Typed, NEW n \in Node, StartUnseeded(n) \/ StartSeeded(n)
    PROVE  Typed'
  BY RestartSteps DEF Typed

\* Without a seed the bucket is full, and what was missing is written down.
LEMMA UnseededSpends ==
    ASSUME Typed, NEW n \in Node, StartUnseeded(n),
           NEW t \in Nat, NEW g \in Nat, NEW f \in Nat, SpentSince(n, t, g, f)
    PROVE  SpentSince(n, t, g, f)'
<1> DEFINE now == Rate * time
           then == Rate * t
<1>0. Capacity' = Capacity /\ Capacity \in Nat /\ GlobalLimit * Unit = Capacity
  BY CapacityIsNatural DEF Capacity
<1>1. time' = time /\ granted' = granted
  BY RestartSteps
<1>2. Credit'[n] = Capacity
  BY <1>0 DEF StartUnseeded, Credit, Filled
<1>3. forgiven'[n] = forgiven[n] + (Capacity - Credit[n])
  BY DEF StartUnseeded, Missing, Credit, Typed, FallbackTypeOK, BucketTypeOK
<1>4. /\ granted[n] \in Nat /\ forgiven[n] \in Nat /\ Credit[n] \in 0 .. Capacity
      /\ now \in Nat /\ then \in Nat
  BY CreditTyping, LocalBucketAssumption, ProductIsNatural
     DEF Typed, FallbackTypeOK, BucketTypeOK
<1>5. granted[n] + Credit[n] + f + then <= g + Capacity + forgiven[n] + now /\ t <= time
  BY DEF SpentSince
<1> HIDE DEF now, then
<1>6. granted[n] + Capacity + f + then <= g + Capacity + forgiven'[n] + now
  BY <1>0, <1>3, <1>4, <1>5
<1>7. QED
  BY <1>0, <1>1, <1>2, <1>5, <1>6 DEF SpentSince, now, then

\* With a seed the bucket holds what the row leaves: of the server's own, the
\* grants since are given back; of another, all that is left.
LEMMA SeededSpends ==
    ASSUME Typed, NEW n \in Node, StartSeeded(n),
           NEW t \in Nat, NEW g \in Nat, NEW f \in Nat, CoveredSince(n, t, g, f)
    PROVE  SpentSince(n, t, g, f)'
<1> DEFINE now == Rate * time
           then == Rate * t
           held == row.snapshot
           left == Remaining(held) * Unit
<1>0. Capacity' = Capacity /\ Capacity \in Nat /\ GlobalLimit * Unit = Capacity
  BY CapacityIsNatural DEF Capacity
<1>1. time' = time /\ granted' = granted
  BY RestartSteps
<1>2. held \in Taken /\ held \in Snapshots /\ held.granted <= granted[held.by]
  BY DEF StartSeeded, Typed, FallbackTypeOK, Snapshots, Upsert
<1>3. held.by \in Node /\ held.granted \in Nat /\ left \in 0 .. Capacity
  BY <1>2, RemainingFits DEF Taken
<1>4. Credit'[n] = left
  <2>1. /\ n \in known' /\ lastRefill'[n] = time /\ time' = time /\ time \in Nat
        /\ tokens'[n] = left
    BY <1>1 DEF StartSeeded, Typed, FallbackTypeOK, BucketTypeOK
  <2>2. (time - time) * Rate = 0
    BY <2>1, LocalBucketAssumption
  <2> HIDE DEF left
  <2>3. Credit'[n] = Least(Capacity, left + (time - time) * Rate)
    BY <1>0, <2>1 DEF Credit, Filled
  <2>4. QED
    BY <1>0, <1>3, <2>2, <2>3 DEF Least
<1>5. forgiven'[n] = forgiven[n] + IF held.by = n THEN granted[n] - held.granted ELSE left
  BY DEF StartSeeded, Forgives, Typed, FallbackTypeOK, BucketTypeOK
<1>6. /\ granted[n] \in Nat /\ forgiven[n] \in Nat /\ Credit[n] \in 0 .. Capacity
      /\ now \in Nat /\ then \in Nat
  BY CreditTyping, LocalBucketAssumption, ProductIsNatural
     DEF Typed, FallbackTypeOK, BucketTypeOK
<1>7. granted[n] + Credit[n] + f + then <= g + Capacity + forgiven[n] + now /\ t <= time
  BY DEF CoveredSince, SpentSince
<1>8. held.by = n => held.granted + left + f + then <= g + Capacity + forgiven[n] + now
  BY <1>2 DEF CoveredSince, Leaves
<1> HIDE DEF now, then, left, held
<1>9. granted[n] + left + f + then <= g + Capacity + forgiven'[n] + now
  BY <1>0, <1>3, <1>5, <1>6, <1>7, <1>8
<1>10. QED
  BY <1>0, <1>1, <1>4, <1>7, <1>9 DEF SpentSince, now, then

\* A restart leaves every server covered.
LEMMA RestartCovers ==
    ASSUME Typed, NEW m \in Node, StartUnseeded(m) \/ StartSeeded(m),
           NEW n \in Node, NEW t \in Nat, NEW g \in Nat, NEW f \in Nat,
           CoveredSince(n, t, g, f)
    PROVE  CoveredSince(n, t, g, f)'
<1>1. /\ Grows /\ BucketTypeOK' /\ Snapshots' \subseteq Snapshots
      /\ time' = time /\ granted' = granted
      /\ n # m => Credit'[n] = Credit[n] /\ forgiven'[n] = forgiven[n]
  BY RestartSteps DEF FallbackTypeOK
<1>2. SpentSince(n, t, g, f)'
  <2>1. CASE n = m
    BY <2>1, UnseededSpends, SeededSpends DEF CoveredSince
  <2>2. CASE n # m
    BY <1>1, <2>2 DEF CoveredSince, SpentSince, Capacity
  <2>3. QED
    BY <2>1, <2>2
<1>3. ASSUME NEW u \in Snapshots, u.by = n
      PROVE  Leaves(u, t, g, f)'
  BY <1>1, <1>3, LeavesLasts, SnapshotTyping DEF Typed, CoveredSince
<1>4. QED
  BY <1>1, <1>2, <1>3 DEF CoveredSince

-----------------------------------------------------------------------------
(* The theorems.                                                            *)

\* Every step either restarts a server or does not.
LEMMA EveryStep ==
    ASSUME [Next]_vars
    PROVE  RunningNext \/ \E n \in Node : StartUnseeded(n) \/ StartSeeded(n)
  BY DEF Next, RunningNext

LEMMA Typing == Spec => []Typed
<1>1. Init => Typed
  <2> SUFFICES ASSUME Init PROVE Typed
    OBVIOUS
  <2>1. BucketTypeOK /\ RefilledInThePast
    BY CapacityIsNatural DEF Init, BucketInit, BucketTypeOK, RefilledInThePast
  <2>2. Snapshots = {}
    BY DEF Init, Snapshots
  <2>3. QED
    BY <2>1, <2>2 DEF Init, Typed, FallbackTypeOK
<1>2. Typed /\ [Next]_vars => Typed'
  BY EveryStep, RunningTyping, RestartTyping
<1>3. QED
  BY <1>1, <1>2, PTL DEF Spec

LEMMA CoverageLasts ==
    ASSUME Typed, [Next]_vars,
           NEW n \in Node, NEW t \in Nat, NEW g \in Nat, NEW f \in Nat,
           CoveredSince(n, t, g, f)
    PROVE  CoveredSince(n, t, g, f)'
  BY EveryStep, RunningCovers, RestartCovers

(***************************************************************************)
(* Rows, upserts and buckets keep their types: a row never counts fewer    *)
(* tokens than none or more than the share.                                *)
(***************************************************************************)
THEOREM TypeCorrect == Spec => []FallbackTypeOK
<1>1. Typed => FallbackTypeOK
  BY DEF Typed
<1>2. QED
  BY <1>1, Typing, PTL

(***************************************************************************)
(* A restart forgets no more than the row does, and a start without a seed *)
(* no more than was missing from the bucket: what each server granted and  *)
(* could grant now is covered, however upserts overlap, fail, land late or *)
(* overwrite the other server's row.                                       *)
(***************************************************************************)
THEOREM RestartsCovered == Spec => []RestartsAreCovered
<1> DEFINE Covered == \A n \in Node : CoveredSince(n, 0, 0, 0)
<1>1. Init => Covered
  <2> SUFFICES ASSUME Init, NEW n \in Node PROVE CoveredSince(n, 0, 0, 0)
    OBVIOUS
  <2>1. Snapshots = {}
    BY DEF Init, Snapshots
  <2>2. BucketTypeOK /\ RefilledInThePast /\ time = 0 /\ granted[n] = 0 /\ forgiven[n] = 0
    BY CapacityIsNatural DEF Init, BucketInit, BucketTypeOK, RefilledInThePast
  <2>3. SpentSince(n, time, granted[n], forgiven[n])
    BY <2>2, SpentSinceBegins
  <2>4. QED
    BY <2>1, <2>2, <2>3 DEF CoveredSince
<1>2. Typed /\ Covered /\ [Next]_vars => Covered'
  BY CoverageLasts
<1>3. Typed /\ Covered => RestartsAreCovered
  <2> SUFFICES ASSUME Typed, Covered, NEW n \in Node
               PROVE  granted[n] + Filled(n, GlobalLimit)
                          <= Capacity + forgiven[n] + Rate * time
    BY DEF RestartsAreCovered, NodeGrantsCovered
  <2>1. granted[n] + Credit[n] + 0 + Rate * 0 <= 0 + Capacity + forgiven[n] + Rate * time
    BY DEF CoveredSince, SpentSince
  <2>2. /\ Credit[n] \in Nat /\ granted[n] \in Nat /\ forgiven[n] \in Nat
        /\ Rate * time \in Nat /\ Capacity \in Nat /\ Rate * 0 = 0
    BY CreditTyping, CapacityIsNatural, ProductIsNatural, LocalBucketAssumption
       DEF Typed, FallbackTypeOK, BucketTypeOK
  <2>3. granted[n] + Credit[n] <= Capacity + forgiven[n] + Rate * time
    BY <2>1, <2>2
  <2>4. QED
    BY <2>3 DEF Credit
<1> HIDE DEF Covered
<1>4. QED
  BY <1>1, <1>2, <1>3, Typing, PTL DEF Spec

(***************************************************************************)
(* The same from any moment on: when, at time t, server n had granted g    *)
(* and been forgiven f, it grants ever after at most a full bucket more,   *)
(* the refill since t and what is forgiven since, however often servers    *)
(* are restarted, with a seed or without, and whatever rows and upserts    *)
(* were left behind at t.                                                  *)
(***************************************************************************)
THEOREM BurstsBounded ==
    ASSUME NEW n \in Node, NEW t \in Nat, NEW g \in Nat, NEW f \in Nat
    PROVE  Spec => [](time = t /\ granted[n] = g /\ forgiven[n] = f
                        => []WithinQuotaSince(n, t, g, f))
<1>1. Typed /\ time = t /\ granted[n] = g /\ forgiven[n] = f => CoveredSince(n, t, g, f)
  <2> SUFFICES ASSUME Typed, time = t, granted[n] = g, forgiven[n] = f
               PROVE  CoveredSince(n, t, g, f)
    OBVIOUS
  <2>1. SpentSince(n, t, g, f)
    BY SpentSinceBegins DEF Typed, FallbackTypeOK
  <2>2. ASSUME NEW u \in Snapshots, u.by = n
        PROVE  Leaves(u, t, g, f)
    <3> DEFINE left == Remaining(u) * Unit
               now == Rate * t
    <3>1. u \in Taken /\ u.granted <= g /\ u.granted \in Nat
      BY <2>2, SnapshotTyping DEF Typed, Taken
    <3>2. left \in 0 .. Capacity /\ Capacity \in Nat /\ now \in Nat
      BY <3>1, RemainingFits, CapacityIsNatural, LocalBucketAssumption, ProductIsNatural
    <3> HIDE DEF left, now
    <3>3. u.granted + left + f + now <= g + Capacity + f + now
      BY <3>1, <3>2
    <3>4. QED
      BY <2>2, <3>3 DEF Leaves, left, now
  <2>3. QED
    BY <2>1, <2>2 DEF CoveredSince
<1>2. Typed /\ CoveredSince(n, t, g, f) /\ [Next]_vars => CoveredSince(n, t, g, f)'
  BY CoverageLasts
<1>3. Typed /\ CoveredSince(n, t, g, f) => WithinQuotaSince(n, t, g, f)
  BY SpentIsWithinQuota DEF Typed, FallbackTypeOK, CoveredSince
<1>4. QED
  BY <1>1, <1>2, <1>3, Typing, PTL DEF Spec

-----------------------------------------------------------------------------
(* Minutes.                                                                 *)

\* What was sent, and may still be the row of its minute.
Written == upserts \cup (IF row = NoRow THEN {} ELSE {row})

\* The strengthening: nothing written is of a minute to come, and what is of
\* this minute, wherever it is, was stamped since the minute began.
MinuteInv ==
    /\ row # NoRow => row.windowStart = WindowStart
    /\ \A u \in Written :
        /\ u.windowStart <= WindowStart
        /\ u.windowStart = WindowStart => before[u.snapshot.by] <= u.stamped
    /\ \A n \in Node : before[n] <= granted[n]

\* What was written before a step that leaves the minute alone, and what the
\* step sends.
LEMMA WrittenSince ==
    ASSUME Typed, RunningNext, WindowStart' = WindowStart
    PROVE  /\ \A u \in Written' :
                \/ u \in Written
                \/ \E t \in taken : u = [snapshot |-> t, windowStart |-> WindowStart,
                                         stamped |-> granted[t.by]]
           /\ \/ row' = row
              \/ row' \in upserts /\ row'.windowStart = WindowStart
              \/ row' = NoRow
<1> USE DEF Written
<1>1. ASSUME NEW n \in Node, Check(n) \/ StartFlush(n) \/ StopFlush(n) \/ Flush(n)
      PROVE  row' = row /\ upserts' = upserts
  BY <1>1 DEF Check, StartFlush, StopFlush, Flush, rowVars
<1>2. ASSUME NEW t \in taken, Send(t)
      PROVE  row' = row /\ upserts' = upserts \cup
                {[snapshot |-> t, windowStart |-> WindowStart, stamped |-> granted[t.by]]}
  BY <1>2 DEF Send
<1>3. ASSUME NEW u \in upserts, Land(u) \/ Fail(u)
      PROVE  /\ upserts' \subseteq upserts
             /\ \/ row' = row
                \/ row' = u /\ u.windowStart = WindowStart
  BY <1>3 DEF Land, Fail
<1>4. CASE TimePasses \/ UNCHANGED vars
  <2>1. row' = row /\ upserts' = upserts
    BY <1>4 DEF TimePasses, vars, rowVars
  <2>2. QED
    BY <2>1
<1>5. CASE \E n \in Node : Check(n) \/ StartFlush(n) \/ StopFlush(n) \/ Flush(n)
  <2>1. row' = row /\ upserts' = upserts
    BY <1>1, <1>5
  <2>2. QED
    BY <2>1
<1>6. CASE \E t \in taken : Send(t)
  <2>1. PICK t \in taken : row' = row /\ upserts' = upserts \cup
            {[snapshot |-> t, windowStart |-> WindowStart, stamped |-> granted[t.by]]}
    BY <1>2, <1>6
  <2>2. QED
    BY <2>1
<1>7. CASE \E u \in upserts : Land(u) \/ Fail(u)
  <2>1. PICK u \in upserts : /\ upserts' \subseteq upserts
                             /\ \/ row' = row
                                \/ row' = u /\ u.windowStart = WindowStart
    BY <1>3, <1>7
  <2>2. QED
    BY <2>1
<1>8. QED
  BY <1>4, <1>5, <1>6, <1>7 DEF RunningNext

LEMMA MinuteInvariance ==
    ASSUME Typed, Typed', MinuteInv, [Next]_vars
    PROVE  MinuteInv'
<1> USE DEF Typed, FallbackTypeOK, BucketTypeOK
<1>0. WindowStart \in Nat /\ WindowStart' \in Nat
  <2>1. time \in Nat /\ time' \in Nat
    OBVIOUS
  <2>2. QED
    BY <2>1, WindowTyping DEF WindowStart
<1>1. \A n \in Node : before[n] \in Nat /\ granted[n] \in Nat /\ before[n] <= granted[n]
  BY DEF MinuteInv
<1>2. ASSUME RunningNext, WindowStart' = WindowStart, before' = before
      PROVE  MinuteInv'
  <2>1. \A n \in Node : before'[n] <= granted'[n]
    BY <1>1, <1>2, BucketSteps, LedgersGrow DEF Grows
  <2>2. ASSUME NEW u \in Written'
        PROVE  /\ u.windowStart <= WindowStart
               /\ u.windowStart = WindowStart => before[u.snapshot.by] <= u.stamped
    <3>1. CASE u \in Written
      BY <3>1 DEF MinuteInv
    <3>2. ASSUME NEW t \in taken, u = [snapshot |-> t, windowStart |-> WindowStart,
                                       stamped |-> granted[t.by]]
          PROVE  /\ u.windowStart <= WindowStart
                 /\ u.windowStart = WindowStart => before[u.snapshot.by] <= u.stamped
      <4>1. t.by \in Node
        BY DEF Taken
      <4>2. QED
        BY <1>0, <1>1, <3>2, <4>1
    <3>3. QED
      BY <1>2, <3>1, <3>2, WrittenSince
  <2>3. row' # NoRow => row'.windowStart = WindowStart
    BY <1>2, WrittenSince DEF MinuteInv
  <2>4. QED
    BY <1>2, <2>1, <2>2, <2>3 DEF MinuteInv
<1>3. CASE TimePasses
  <2>1. time' = time + 1 /\ granted' = granted /\ upserts' = upserts
    BY <1>3 DEF TimePasses, Tick, ledgerVars
  <2>2. WindowStart <= WindowStart'
    BY <2>1, FallbackAssumption DEF WindowStart
  <2>3. CASE WindowStart' = WindowStart
    BY <1>2, <1>3, <2>3 DEF TimePasses, RunningNext
  <2>4. CASE WindowStart' # WindowStart
    <3>1. row' = NoRow /\ before' = granted
      BY <1>3, <2>4 DEF TimePasses
    <3>2. ASSUME NEW u \in Written'
          PROVE  u.windowStart < WindowStart' /\ u.windowStart \in Nat
      <4>1. u \in Upsert /\ u \in Written
        BY <2>1, <3>1 DEF Written
      <4>2. u.windowStart \in Nat /\ u.windowStart <= WindowStart
        BY <4>1 DEF MinuteInv, Upsert
      <4>3. QED
        BY <1>0, <2>2, <2>4, <4>2
    <3>3. QED
      BY <1>0, <1>1, <2>1, <3>1, <3>2 DEF MinuteInv
  <2>5. QED
    BY <2>3, <2>4
<1>4. ASSUME NEW n \in Node, StartUnseeded(n) \/ StartSeeded(n)
      PROVE  MinuteInv'
  <2>1. /\ time' = time /\ granted' = granted /\ row' = row
        /\ upserts' = upserts /\ before' = before
    BY <1>4 DEF StartUnseeded, StartSeeded, Restart
  <2>2. WindowStart' = WindowStart /\ Written' = Written
    BY <2>1 DEF WindowStart, Written
  <2>3. QED
    BY <2>1, <2>2 DEF MinuteInv
<1>5. CASE UNCHANGED vars
  BY <1>2, <1>5 DEF RunningNext, vars, WindowStart
<1>6. ASSUME NEW n \in Node, Check(n) \/ StartFlush(n) \/ StopFlush(n) \/ Flush(n)
      PROVE  MinuteInv'
  <2>1. time' = time /\ before' = before
    BY <1>6 DEF Check, StartFlush, StopFlush, Flush, Consume, Snapshot
  <2>2. QED
    BY <1>2, <1>6, <2>1 DEF RunningNext, WindowStart
<1>7. CASE (\E t \in taken : Send(t)) \/ (\E u \in upserts : Land(u) \/ Fail(u))
  <2>1. time' = time /\ before' = before
    BY <1>7 DEF Send, Land, Fail
  <2>2. QED
    BY <1>2, <1>7, <2>1 DEF RunningNext, WindowStart
<1>8. QED
  BY <1>3, <1>4, <1>5, <1>6, <1>7 DEF Next

(***************************************************************************)
(* What a seed forgets of earlier minutes was granted while the flush that *)
(* wrote its row was between its snapshot and the minute, however late the *)
(* upsert of the row landed.                                               *)
(***************************************************************************)
THEOREM PastMinutesRemembered == Spec => []SeedsRememberPastMinutes
<1>1. Init => MinuteInv
  <2> SUFFICES ASSUME Init PROVE MinuteInv
    OBVIOUS
  <2>1. Written = {}
    BY DEF Init, Written
  <2>2. QED
    BY <2>1 DEF Init, BucketInit, MinuteInv
<1>2. Typed /\ Typed' /\ MinuteInv /\ [Next]_vars => MinuteInv'
  BY MinuteInvariance
<1>3. Typed /\ MinuteInv => SeedsRememberPastMinutes
  BY DEF MinuteInv, SeedsRememberPastMinutes, Written
<1>4. QED
  BY <1>1, <1>2, <1>3, Typing, PTL DEF Spec

=============================================================================
