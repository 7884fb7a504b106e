-------------------------- MODULE PeerGossipProofs --------------------------
(***************************************************************************)
(* Proofs about PeerGossip, for any number of nodes and any limits and     *)
(* rate: type correctness; that the gossiping buckets implement the token  *)
(* bucket of TokenQuota; that no message, however late, puts tokens into a *)
(* bucket; that bursts are bounded.  That the buckets converge is liveness *)
(* and stays with TLC.                                                     *)
(***************************************************************************)
EXTENDS PeerGossip, LocalBucketProofs

-----------------------------------------------------------------------------
(* The gossip.                                                              *)

\* What a node reports fits into a bucket.
LEMMA ViewTyping ==
    ASSUME BucketTypeOK, NEW n \in Node
    PROVE  View(n) \in 0 .. Capacity
  BY CapacityIsNatural DEF View, BucketTypeOK

\* Every step of the gossip does one of the five things to the buckets.
LEMMA GossipSteps ==
    ASSUME TypeOK, [Next]_vars
    PROVE  BucketNext \/ UNCHANGED <<time, bucketVars, ledgerVars>>
<1>1. ASSUME NEW n \in Node, NEW limit \in Limits, Request(n, limit)
      PROVE  BucketNext
  <2>1. Consume(n, 1, limit) /\ 1 \in Nat
    BY <1>1 DEF Request
  <2>2. QED
    BY <2>1 DEF BucketNext
<1>2. ASSUME NEW n \in Node, SyncStep(n)
      PROVE  BucketNext \/ UNCHANGED <<time, bucketVars, ledgerVars>>
  <2>1. CASE SyncStart(n)
    BY <2>1 DEF SyncStart, BucketNext
  <2>2. CASE (\E p \in Node : Call(n, p)) \/ GiveUp(n)
    BY <2>2 DEF Call, GiveUp
  <2>3. CASE Deliver(n)
    BY <2>3 DEF Deliver, BucketNext, TypeOK
  <2>4. CASE Answer(n)
    BY <2>4 DEF Answer, BucketNext, TypeOK
  <2>5. CASE MergeAnswer(n)
    BY <2>5 DEF MergeAnswer, BucketNext, TypeOK
  <2>6. QED
    BY <1>2, <2>1, <2>2, <2>3, <2>4, <2>5 DEF SyncStep
<1>3. ASSUME NEW call \in late, DeliverLate(call)
      PROVE  BucketNext
  <2>1. call[1] \in Node /\ call[2] \in 0 .. Capacity
    BY DEF TypeOK
  <2>2. QED
    BY <1>3, <2>1 DEF DeliverLate, BucketNext
<1>4. CASE LinkFlips \/ TrafficEnds \/ UNCHANGED vars
  BY <1>4 DEF LinkFlips, TrafficEnds, vars, bucketVars, ledgerVars
<1>5. CASE TimePasses
  BY <1>5 DEF TimePasses, BucketNext
<1>6. QED
  BY <1>1, <1>2, <1>3, <1>4, <1>5 DEF Next

Typed == TypeOK /\ RefilledInThePast

LEMMA BodyTyping ==
    ASSUME TypeOK, NEW n \in Node
    PROVE  BodyAfter(n) \in [Node -> 0 .. Capacity]
  BY CapacityIsNatural DEF BodyAfter, TypeOK

\* The end of a call leaves the call's variables typed.
LEMMA HangupTyping ==
    ASSUME TypeOK, NEW n \in Node, Hangup(n)
    PROVE  /\ phase' \in [Node -> Phase]
           /\ todo' \in [Node -> SUBSET Node]
           /\ callee' \in [Node -> Node]
           /\ body' \in [Node -> 0 .. Capacity]
           /\ answer' \in [Node -> 0 .. Capacity]
  BY BodyTyping, CapacityIsNatural DEF Hangup, TypeOK, Phase

\* Every step keeps the gossip typed.
LEMMA NextTyping ==
    ASSUME Typed, [Next]_vars
    PROVE  Typed'
<1>0. BucketTypeOK' /\ RefilledInThePast'
  BY GossipSteps, BucketTyping DEF Typed, TypeOK
<1> SUFFICES TypeOK'
  BY <1>0 DEF Typed
<1>00. Capacity' = Capacity
  BY DEF Capacity
<1> USE <1>0, <1>00 DEF Typed, TypeOK
<1>1. ASSUME NEW n \in Node, NEW limit \in Limits, Request(n, limit)
      PROVE  TypeOK'
  BY <1>1 DEF Request, callVars, envVars
<1>2. ASSUME NEW n \in Node, SyncStep(n)
      PROVE  TypeOK'
  <2>1. CASE SyncStart(n)
    BY <2>1, ViewTyping DEF SyncStart, envVars
  <2>2. ASSUME NEW p \in Node, Call(n, p)
        PROVE  TypeOK'
    BY <2>2 DEF Call, Phase, envVars
  <2>3. CASE Deliver(n)
    BY <2>3, BodyTyping DEF Deliver, Phase, envVars
  <2>4. CASE Answer(n)
    BY <2>4, ViewTyping DEF Answer, Phase, envVars
  <2>5. CASE MergeAnswer(n)
    BY <2>5, HangupTyping DEF MergeAnswer, envVars
  <2>6. CASE GiveUp(n)
    <3>1. late' \in SUBSET (Node \X (0 .. Capacity))
      BY <2>6 DEF GiveUp, Outstanding
    <3>2. QED
      BY <2>6, <3>1, HangupTyping DEF GiveUp, envVars
  <2>7. QED
    BY <1>2, <2>1, <2>2, <2>3, <2>4, <2>5, <2>6 DEF SyncStep
<1>3. ASSUME NEW call \in late, DeliverLate(call)
      PROVE  TypeOK'
  BY <1>3 DEF DeliverLate, callVars, envVars
<1>4. CASE LinkFlips \/ TrafficEnds
  BY <1>4 DEF LinkFlips, TrafficEnds, callVars
<1>5. CASE TimePasses
  BY <1>5 DEF TimePasses, callVars, envVars
<1>6. CASE UNCHANGED vars
  BY <1>6 DEF vars, callVars, envVars
<1>7. QED
  BY <1>1, <1>2, <1>3, <1>4, <1>5, <1>6 DEF Next

LEMMA Typing == Spec => []Typed
<1>1. Init => Typed
  <2> SUFFICES ASSUME Init PROVE Typed
    OBVIOUS
  <2>1. BucketTypeOK /\ RefilledInThePast
    BY CapacityIsNatural DEF Init, BucketInit, BucketTypeOK, RefilledInThePast
  <2>2. QED
    BY <2>1, CapacityIsNatural DEF Init, Typed, TypeOK, Phase
<1>2. Typed /\ [Next]_vars => Typed'
  BY NextTyping
<1>3. QED
  BY <1>1, <1>2, PTL DEF Spec

(***************************************************************************)
(* Whatever is called, given up and delivered late, every bucket holds     *)
(* between nothing and the global limit, and every view sent is one a      *)
(* bucket could show.                                                      *)
(***************************************************************************)
THEOREM TypeCorrect == Spec => []TypeOK
<1>1. Typed => TypeOK
  BY DEF Typed
<1>2. QED
  BY <1>1, Typing, PTL

(***************************************************************************)
(* The gossiping buckets implement the token bucket: refilled on demand,   *)
(* evicted, made anew and lowered by whatever peers send, they grant only  *)
(* what buckets refilled with every tick could.                            *)
(***************************************************************************)
THEOREM Refinement == Spec => ImplementsQuota
<1>1. Init => Quota!Init
  BY QuotaInit DEF Init
<1>2. Typed /\ [Next]_vars => [Quota!Next]_Quota!quotaVars
  BY GossipSteps, QuotaSteps DEF Typed, TypeOK
<1>3. QED
  BY <1>1, <1>2, Typing, PTL DEF Spec, ImplementsQuota, Quota!Spec

(***************************************************************************)
(* No message, however late or stale, puts tokens into a bucket: what a    *)
(* node granted and could grant now is covered by one full bucket, what    *)
(* was missing from entries that were evicted, and the refill until now.   *)
(***************************************************************************)
THEOREM GrantsCovered == Spec => []NodeGrantsCovered
<1>1. Init => NodeGrantsCovered
  BY BucketCoversInitially DEF Init
<1>2. Typed /\ NodeGrantsCovered /\ [Next]_vars => NodeGrantsCovered'
  BY GossipSteps, BucketCovers DEF Typed, TypeOK
<1>3. QED
  BY <1>1, <1>2, Typing, PTL DEF Spec

(***************************************************************************)
(* The quota holds from any moment on, and not only from the start: when,  *)
(* at time t, node n had granted g and been forgiven f, it grants ever     *)
(* after at most a full bucket more, the refill since t and what is        *)
(* forgiven since.  However long it was idle, it saved up one burst.       *)
(***************************************************************************)
THEOREM BurstsBounded ==
    ASSUME NEW n \in Node, NEW t \in Nat, NEW g \in Nat, NEW f \in Nat
    PROVE  Spec => [](time = t /\ granted[n] = g /\ forgiven[n] = f
                        => []WithinQuotaSince(n, t, g, f))
<1>1. Typed /\ time = t /\ granted[n] = g /\ forgiven[n] = f => SpentSince(n, t, g, f)
  BY SpentSinceBegins DEF Typed, TypeOK
<1>2. Typed /\ SpentSince(n, t, g, f) /\ [Next]_vars => SpentSince(n, t, g, f)'
  BY GossipSteps, SpentSinceLasts DEF Typed, TypeOK
<1>3. Typed /\ SpentSince(n, t, g, f) => WithinQuotaSince(n, t, g, f)
  BY SpentIsWithinQuota DEF Typed, TypeOK
<1>4. QED
  BY <1>1, <1>2, <1>3, Typing, PTL DEF Spec

(***************************************************************************)
(* When an entry stays as long as its bucket takes to refill, its eviction *)
(* gives nothing away: nothing is missing from an entry that may go.       *)
(***************************************************************************)
THEOREM EvictionFree == Spec => []EvictionIsFree
<1>1. Typed => EvictionIsFree
  BY StaleIsFull DEF Typed, TypeOK
<1>2. QED
  BY <1>1, Typing, PTL

=============================================================================
