---------------------------- MODULE GoNodeProofs ----------------------------
(***************************************************************************)
(* Proofs about one node of the Go service: ThrottleManager, for any       *)
(* number of requests and peers and any thresholds, and the flush loops of *)
(* MySQLFlusher, for any number of Starts.  They establish every invariant *)
(* and action property that Manager.cfg and Flusher.cfg check on small     *)
(* instances; what must happen in the end is liveness and stays with TLC.  *)
(*                                                                         *)
(* The manager's invariants each concern one corner of the state, so the   *)
(* steps of Next are first abstracted to what they do to that corner (the  *)
(* lemmas CircuitSteps, ModeSteps, ChargeSteps and MissSteps).             *)
(***************************************************************************)
EXTENDS ThrottleManager, MySQLFlusher, TLAPS

-----------------------------------------------------------------------------
(* Type correctness.                                                        *)

\* The breaker's methods keep its fields in range.
LEMMA CircuitTyping ==
    ASSUME CBTypeOK, [CBNext]_cbVars
    PROVE  CBTypeOK'
<1> USE CircuitAssumption DEF CBTypeOK, CircuitState
<1>1. CASE State
  BY <1>1 DEF State, Observed
<1>2. CASE RecordSuccess
  BY <1>2 DEF RecordSuccess
<1>3. CASE RecordFailure
  BY <1>3 DEF RecordFailure, Saturate
<1>4. CASE Reset
  BY <1>4 DEF Reset
<1>5. CASE ClockTick
  BY <1>5 DEF ClockTick
<1>6. CASE UNCHANGED cbVars
  BY <1>6 DEF cbVars
<1>7. QED
  BY <1>1, <1>2, <1>3, <1>4, <1>5, <1>6 DEF CBNext

\* Every step of the node is a step of its breaker or leaves it alone.
LEMMA CircuitSteps ==
    ASSUME [Next]_vars
    PROVE  [CBNext]_cbVars
<1>1. ASSUME NEW r \in Request, Check(r) \/ RequestStep(r)
      PROVE  [CBNext]_cbVars
  BY <1>1 DEF Check, RequestStep, ReadCircuit, RedisAnswers, RedisFails,
     OnRedisSuccess, ClearPeerFailures, OnRedisFailure, RecheckCircuit,
     EnterPeer, ConsumeLocal, CBNext, cbVars
<1>2. CASE SyncStep
  BY <1>2 DEF SyncStep, SyncStart, PeerMisses, PeerAnswers, CheckMissed,
     EnterLocal, CheckAnswered, ReturnToPeer, cbVars
<1>3. CASE ProbeStep
  BY <1>3 DEF ProbeStep, ProbeStart, Ping, WarmUp, ResetCircuit,
     ReturnToRedis, CBNext, cbVars
<1>4. CASE RedisFlips \/ (\E p \in Peer : PeerFlips(p)) \/ Tick
  BY <1>4 DEF RedisFlips, PeerFlips, Tick, CBNext, cbVars
<1>5. CASE UNCHANGED vars
  BY <1>5 DEF vars, cbVars
<1>6. QED
  BY <1>1, <1>2, <1>3, <1>4, <1>5 DEF Next

\* The node's initial states are typed.
LEMMA InitTyping == Init => TypeOK
<1> SUFFICES ASSUME Init PROVE TypeOK
  OBVIOUS
<1>1. CBTypeOK
  BY CircuitAssumption DEF Init, CBInit, CBTypeOK, CircuitState
<1>2. peerFailures \in 0 .. PeerFailureLimit /\ misses \in 0 .. PeerFailureLimit
  BY ManagerAssumption DEF Init
<1>3. pc \in [Request -> RequestPc] /\ limit \in [Request -> {GlobalLimit, PerNodeLimit}]
  BY DEF Init, RequestPc
<1>4. mode \in ThrottleMode /\ syncPc \in SyncPc /\ probePc \in ProbePc
  BY DEF Init, ThrottleMode, SyncPc, ProbePc
<1>5. QED
  BY <1>1, <1>2, <1>3, <1>4 DEF Init, TypeOK

\* A transition keeps the mode, the flusher and the history in range.
LEMMA TransitionTyping ==
    ASSUME TypeOK, NEW newMode \in ThrottleMode, TransitionTo(newMode)
    PROVE  /\ mode' \in ThrottleMode
           /\ running' \in BOOLEAN
           /\ carried' \in SUBSET Request
<1>1. CASE mode = newMode
  BY <1>1 DEF TransitionTo, TypeOK
<1>2. CASE mode # newMode
  BY <1>2, ManagerAssumption DEF TransitionTo, StartFlusher, StopFlusher, TypeOK
<1>3. QED
  BY <1>1, <1>2

\* Every step keeps the state typed.
LEMMA NextTyping ==
    ASSUME TypeOK, [Next]_vars
    PROVE  TypeOK'
<1>1. CBTypeOK'
  BY CircuitTyping, CircuitSteps DEF TypeOK
<1> USE <1>1, ManagerAssumption DEF TypeOK
<1>2. ASSUME NEW r \in Request, Check(r)
      PROVE  TypeOK'
  BY <1>2 DEF Check, Goto, RequestPc, nodeVars, syncVars, envVars
<1>3. ASSUME NEW r \in Request, RequestStep(r)
      PROVE  TypeOK'
  <2>1. CASE ReadCircuit(r)
    BY <2>1 DEF ReadCircuit, Goto, RequestPc, nodeVars, syncVars, envVars
  <2>2. CASE RedisAnswers(r) \/ RedisFails(r)
    BY <2>2 DEF RedisAnswers, RedisFails, Goto, RequestPc, nodeVars, syncVars, envVars
  <2>3. CASE OnRedisSuccess(r) \/ OnRedisFailure(r)
    BY <2>3 DEF OnRedisSuccess, OnRedisFailure, Goto, RequestPc, nodeVars,
       syncVars, envVars
  <2>4. CASE ClearPeerFailures(r)
    BY <2>4 DEF ClearPeerFailures, Return, Goto, RequestPc, syncVars, envVars
  <2>5. CASE RecheckCircuit(r)
    BY <2>5 DEF RecheckCircuit, Goto, RequestPc, nodeVars, syncVars, envVars
  <2>6. CASE EnterPeer(r)
    <3>1. mode' \in ThrottleMode /\ running' \in BOOLEAN /\ carried' \in SUBSET Request
      BY <2>6, TransitionTyping DEF EnterPeer, ThrottleMode
    <3>2. QED
      BY <2>6, <3>1 DEF EnterPeer, Goto, RequestPc, syncVars, envVars
  <2>7. CASE ConsumeLocal(r)
    BY <2>7 DEF ConsumeLocal, Return, Goto, RequestPc, nodeVars, syncVars, envVars
  <2>8. QED
    BY <1>3, <2>1, <2>2, <2>3, <2>4, <2>5, <2>6, <2>7 DEF RequestStep
<1>4. CASE SyncStep
  <2>1. CASE SyncStart
    BY <2>1 DEF SyncStart, SyncPc, nodeVars, requestVars, envVars
  <2>2. ASSUME NEW p \in Peer, PeerMisses(p)
        PROVE  TypeOK'
    BY <2>2 DEF PeerMisses, Saturate, NextCall, SyncPc, requestVars, envVars
  <2>3. ASSUME NEW p \in Peer, PeerAnswers(p)
        PROVE  TypeOK'
    BY <2>3 DEF PeerAnswers, SyncPc, requestVars, envVars
  <2>4. CASE CheckMissed \/ CheckAnswered
    BY <2>4 DEF CheckMissed, CheckAnswered, NextCall, SyncPc, nodeVars,
       requestVars, envVars
  <2>5. CASE EnterLocal \/ ReturnToPeer
    <3>1. mode' \in ThrottleMode /\ running' \in BOOLEAN /\ carried' \in SUBSET Request
      BY <2>5, TransitionTyping DEF EnterLocal, ReturnToPeer, ThrottleMode
    <3>2. QED
      BY <2>5, <3>1 DEF EnterLocal, ReturnToPeer, NextCall, SyncPc, requestVars, envVars
  <2>6. QED
    BY <1>4, <2>1, <2>2, <2>3, <2>4, <2>5 DEF SyncStep
<1>5. CASE ProbeStep
  <2>1. CASE ProbeStart \/ Ping \/ WarmUp \/ ResetCircuit
    BY <2>1 DEF ProbeStart, Ping, WarmUp, ResetCircuit, ProbePc, nodeVars,
       requestVars, syncVars, envVars
  <2>2. CASE ReturnToRedis
    <3>1. mode' \in ThrottleMode /\ running' \in BOOLEAN /\ carried' \in SUBSET Request
      BY <2>2, TransitionTyping DEF ReturnToRedis, ThrottleMode
    <3>2. QED
      BY <2>2, <3>1 DEF ReturnToRedis, ProbePc, requestVars, syncVars, envVars
  <2>3. QED
    BY <1>5, <2>1, <2>2 DEF ProbeStep
<1>6. CASE RedisFlips \/ (\E p \in Peer : PeerFlips(p)) \/ Tick
  BY <1>6 DEF RedisFlips, PeerFlips, Tick, nodeVars, requestVars, syncVars, envVars
<1>7. CASE UNCHANGED vars
  BY <1>7 DEF vars, nodeVars, requestVars, syncVars, envVars
<1>8. QED
  BY <1>2, <1>3, <1>4, <1>5, <1>6, <1>7 DEF Next

(***************************************************************************)
(* Every goroutine of the node keeps every variable within its type: the   *)
(* limit a request charges is one of the two the code computes, and the    *)
(* counters stay within their thresholds.                                  *)
(***************************************************************************)
THEOREM TypeCorrect == Spec => []TypeOK
<1>1. Init => TypeOK
  BY InitTyping
<1>2. TypeOK /\ [Next]_vars => TypeOK'
  BY NextTyping
<1>3. QED
  BY <1>1, <1>2, PTL DEF Spec

-----------------------------------------------------------------------------
(* The breaker counts failures.                                             *)

\* The breaker's methods keep the count and the state in step.
LEMMA CircuitInvariance ==
    ASSUME CBTypeOK, CircuitCountsFailures, [CBNext]_cbVars
    PROVE  CircuitCountsFailures'
<1> USE CircuitAssumption DEF CBTypeOK, CircuitState, CircuitCountsFailures
<1>1. CASE State
  BY <1>1 DEF State, Observed
<1>2. CASE RecordSuccess \/ Reset
  BY <1>2 DEF RecordSuccess, Reset
<1>3. CASE RecordFailure
  BY <1>3 DEF RecordFailure, Saturate
<1>4. CASE ClockTick \/ UNCHANGED cbVars
  BY <1>4 DEF ClockTick, cbVars
<1>5. QED
  BY <1>1, <1>2, <1>3, <1>4 DEF CBNext

(***************************************************************************)
(* However requests and probe interleave their calls, the breaker is away  *)
(* from CLOSED exactly when the failures since the last success or reset   *)
(* have reached the threshold.                                             *)
(***************************************************************************)
THEOREM CircuitCounts == Spec => []CircuitCountsFailures
<1>1. Init => CircuitCountsFailures
  BY CircuitAssumption DEF Init, CBInit, CircuitCountsFailures
<1>2. TypeOK /\ CircuitCountsFailures /\ [Next]_vars => CircuitCountsFailures'
  BY CircuitInvariance, CircuitSteps DEF TypeOK
<1>3. QED
  BY <1>1, <1>2, TypeCorrect, PTL DEF Spec

(***************************************************************************)
(* A failure recorded while the breaker is HALF_OPEN opens it again and    *)
(* restarts its timeout: HALF_OPEN has kept the count that tripped it.     *)
(***************************************************************************)
THEOREM HalfOpenReopens == Spec => HalfOpenFailureReopens
<1> DEFINE Reopens == \A r \in Request :
               cbState = "HALF_OPEN" /\ pc[r] = "failure" /\ pc'[r] = "recheck"
                   => cbState' = "OPEN" /\ sinceFailure' = 0
<1>1. ASSUME TypeOK, CircuitCountsFailures, Next
      PROVE  Reopens
  <2> SUFFICES ASSUME NEW r \in Request, cbState = "HALF_OPEN",
                      pc[r] = "failure", pc'[r] = "recheck"
               PROVE  cbState' = "OPEN" /\ sinceFailure' = 0
    OBVIOUS
  <2>1. pc' # pc
    OBVIOUS
  <2>2. PICK q \in Request : Check(q) \/ RequestStep(q)
    BY <1>1, <2>1 DEF Next, SyncStep, SyncStart, PeerMisses, PeerAnswers,
       CheckMissed, EnterLocal, CheckAnswered, ReturnToPeer, ProbeStep,
       ProbeStart, Ping, WarmUp, ResetCircuit, ReturnToRedis, RedisFlips,
       PeerFlips, Tick, requestVars
  <2>3. q = r
    BY <1>1, <2>2 DEF TypeOK, Check, RequestStep, ReadCircuit, RedisAnswers,
       RedisFails, OnRedisSuccess, ClearPeerFailures, OnRedisFailure,
       RecheckCircuit, EnterPeer, ConsumeLocal, Goto, Return
  <2>4. OnRedisFailure(r)
    BY <1>1, <2>2, <2>3 DEF Check, RequestStep, ReadCircuit, RedisAnswers,
       RedisFails, OnRedisSuccess, ClearPeerFailures, RecheckCircuit,
       EnterPeer, ConsumeLocal
  <2>5. failureCount = FailureThreshold
    BY <1>1 DEF CircuitCountsFailures
  <2>6. QED
    BY <2>4, <2>5, CircuitAssumption DEF OnRedisFailure, RecordFailure, Saturate
<1>2. TypeOK /\ CircuitCountsFailures /\ [Next]_vars => [Reopens]_vars
  BY <1>1
<1>3. QED
  BY <1>2, TypeCorrect, CircuitCounts, PTL DEF Spec, HalfOpenFailureReopens

-----------------------------------------------------------------------------
(* The flusher follows the mode.                                            *)

\* The mode and the flusher change in transitionTo and nowhere else.
LEMMA ModeSteps ==
    ASSUME [Next]_vars
    PROVE  \/ UNCHANGED <<mode, running>>
           \/ \E newMode \in ThrottleMode : TransitionTo(newMode)
<1>1. ASSUME NEW r \in Request, Check(r) \/ RequestStep(r)
      PROVE  UNCHANGED <<mode, running>> \/ TransitionTo("PEER")
  BY <1>1 DEF Check, RequestStep, ReadCircuit, RedisAnswers, RedisFails,
     OnRedisSuccess, ClearPeerFailures, OnRedisFailure, RecheckCircuit,
     EnterPeer, ConsumeLocal, nodeVars
<1>2. ASSUME SyncStep
      PROVE  UNCHANGED <<mode, running>> \/ TransitionTo("PEER") \/ TransitionTo("LOCAL")
  BY <1>2 DEF SyncStep, SyncStart, PeerMisses, PeerAnswers, CheckMissed,
     EnterLocal, CheckAnswered, ReturnToPeer, nodeVars
<1>3. ASSUME ProbeStep
      PROVE  UNCHANGED <<mode, running>> \/ TransitionTo("REDIS")
  BY <1>3 DEF ProbeStep, ProbeStart, Ping, WarmUp, ResetCircuit, ReturnToRedis, nodeVars
<1>4. CASE RedisFlips \/ (\E p \in Peer : PeerFlips(p)) \/ Tick
  BY <1>4 DEF RedisFlips, PeerFlips, Tick, nodeVars
<1>5. CASE UNCHANGED vars
  BY <1>5 DEF vars, nodeVars
<1>6. QED
  BY <1>1, <1>2, <1>3, <1>4, <1>5 DEF Next, ThrottleMode

(***************************************************************************)
(* The MySQL flusher runs exactly while the node is in LOCAL mode and      *)
(* MySQL is configured, whichever goroutines raced to change the mode.     *)
(***************************************************************************)
THEOREM FlusherFollows == Spec => []FlusherFollowsMode
<1>1. Init => FlusherFollowsMode
  BY DEF Init, FlusherFollowsMode
<1>2. TypeOK /\ FlusherFollowsMode /\ [Next]_vars => FlusherFollowsMode'
  <2> SUFFICES ASSUME TypeOK, FlusherFollowsMode, [Next]_vars
               PROVE  FlusherFollowsMode'
    OBVIOUS
  <2>1. CASE UNCHANGED <<mode, running>>
    BY <2>1 DEF FlusherFollowsMode
  <2>2. ASSUME NEW newMode \in ThrottleMode, TransitionTo(newMode)
        PROVE  FlusherFollowsMode'
    BY <2>2, ManagerAssumption DEF TypeOK, ThrottleMode, TransitionTo,
       StartFlusher, StopFlusher, FlusherFollowsMode
  <2>3. QED
    BY <2>1, <2>2, ModeSteps
<1>3. QED
  BY <1>1, <1>2, TypeCorrect, PTL DEF Spec

-----------------------------------------------------------------------------
(* The probe works outside REDIS mode.                                      *)

(***************************************************************************)
(* While a probe is under way the node stays out of REDIS mode: requests   *)
(* and peer callbacks may change the mode, but only to PEER or LOCAL.      *)
(***************************************************************************)
THEOREM ProbesStayOutside == Spec => []ProbesOutsideRedis
<1>1. Init => ProbesOutsideRedis
  BY DEF Init, ProbesOutsideRedis
<1>2. ProbesOutsideRedis /\ [Next]_vars => ProbesOutsideRedis'
  <2> SUFFICES ASSUME ProbesOutsideRedis, [Next]_vars
               PROVE  ProbesOutsideRedis'
    OBVIOUS
  <2>1. ASSUME NEW r \in Request, Check(r) \/ RequestStep(r)
        PROVE  ProbesOutsideRedis'
    BY <2>1 DEF Check, RequestStep, ReadCircuit, RedisAnswers, RedisFails,
       OnRedisSuccess, ClearPeerFailures, OnRedisFailure, RecheckCircuit,
       EnterPeer, ConsumeLocal, TransitionTo, nodeVars, ProbesOutsideRedis
  <2>2. CASE SyncStep
    BY <2>2 DEF SyncStep, SyncStart, PeerMisses, PeerAnswers, CheckMissed,
       EnterLocal, CheckAnswered, ReturnToPeer, TransitionTo, nodeVars,
       ProbesOutsideRedis
  <2>3. CASE ProbeStep
    BY <2>3 DEF ProbeStep, ProbeStart, Ping, WarmUp, ResetCircuit,
       ReturnToRedis, nodeVars, ProbesOutsideRedis
  <2>4. CASE RedisFlips \/ (\E p \in Peer : PeerFlips(p)) \/ Tick
    BY <2>4 DEF RedisFlips, PeerFlips, Tick, nodeVars, ProbesOutsideRedis
  <2>5. CASE UNCHANGED vars
    BY <2>5 DEF vars, nodeVars, ProbesOutsideRedis
  <2>6. QED
    BY <2>1, <2>2, <2>3, <2>4, <2>5 DEF Next
<1>3. QED
  BY <1>1, <1>2, PTL DEF Spec

-----------------------------------------------------------------------------
(* LOCAL mode charges the per-node share.                                   *)

\* The share of a node is a limit like any other: dividing is defined.
LEMMA ShareIsNatural == PerNodeLimit \in Nat
  BY ManagerAssumption DEF PerNodeLimit

\* What the steps do to the requests: one is accepted with the limit of the
\* mode, one returns, or requests move on with the limit they had and the
\* mode may change.
LEMMA ChargeSteps ==
    ASSUME [Next]_vars
    PROVE  \/ \E r \in Request : Check(r)
           \/ \E r \in Request : Return(r) /\ UNCHANGED mode
           \/ /\ UNCHANGED <<pc, limit>>
              /\ UNCHANGED <<mode, carried>> \/ \E m \in ThrottleMode : TransitionTo(m)
           \/ \E r \in Request :
                /\ pc[r] # "idle"
                /\ \E label \in RequestPc : Goto(r, label)
                /\ UNCHANGED limit
                /\ UNCHANGED <<mode, carried>> \/ TransitionTo("PEER")
<1>1. ASSUME NEW r \in Request, RequestStep(r)
      PROVE  \/ Return(r) /\ UNCHANGED mode
             \/ /\ pc[r] # "idle"
                /\ \E label \in RequestPc : Goto(r, label)
                /\ UNCHANGED limit
                /\ UNCHANGED <<mode, carried>> \/ TransitionTo("PEER")
  <2>1. CASE ReadCircuit(r) \/ RecheckCircuit(r)
    BY <2>1 DEF ReadCircuit, RecheckCircuit, RequestPc, nodeVars
  <2>2. CASE RedisAnswers(r) \/ RedisFails(r) \/ OnRedisSuccess(r) \/ OnRedisFailure(r)
    BY <2>2 DEF RedisAnswers, RedisFails, OnRedisSuccess, OnRedisFailure, RequestPc, nodeVars
  <2>3. CASE ClearPeerFailures(r) \/ ConsumeLocal(r)
    BY <2>3 DEF ClearPeerFailures, ConsumeLocal, nodeVars
  <2>4. CASE EnterPeer(r)
    BY <2>4 DEF EnterPeer, RequestPc
  <2>5. QED
    BY <1>1, <2>1, <2>2, <2>3, <2>4 DEF RequestStep
<1>2. ASSUME SyncStep \/ ProbeStep
      PROVE  /\ UNCHANGED <<pc, limit>>
             /\ UNCHANGED <<mode, carried>> \/ \E m \in ThrottleMode : TransitionTo(m)
  BY <1>2 DEF SyncStep, SyncStart, PeerMisses, PeerAnswers, CheckMissed,
     EnterLocal, CheckAnswered, ReturnToPeer, ProbeStep, ProbeStart, Ping,
     WarmUp, ResetCircuit, ReturnToRedis, nodeVars, requestVars, ThrottleMode
<1>3. ASSUME RedisFlips \/ (\E p \in Peer : PeerFlips(p)) \/ Tick
      PROVE  UNCHANGED <<pc, limit, mode, carried>>
  BY <1>3 DEF RedisFlips, PeerFlips, Tick, nodeVars, requestVars
<1>4. ASSUME UNCHANGED vars
      PROVE  UNCHANGED <<pc, limit, mode, carried>>
  BY <1>4 DEF vars, nodeVars, requestVars
<1>5. QED
  BY <1>1, <1>2, <1>3, <1>4 DEF Next

(***************************************************************************)
(* In LOCAL mode a request that still carries more than the per-node share *)
(* was in flight when the node entered LOCAL: the limit goes stale for     *)
(* those requests only.                                                    *)
(***************************************************************************)
THEOREM LocalChargesCapped == Spec => []LocalChargesAreCapped
<1>1. Init => LocalChargesAreCapped
  BY DEF Init, LocalChargesAreCapped
<1>2. TypeOK /\ LocalChargesAreCapped /\ [Next]_vars => LocalChargesAreCapped'
  <2> SUFFICES ASSUME TypeOK, LocalChargesAreCapped, [Next]_vars, mode' = "LOCAL",
                      NEW q \in Request, pc'[q] # "idle", limit'[q] > PerNodeLimit'
               PROVE  q \in carried'
    BY DEF LocalChargesAreCapped
  <2> USE ShareIsNatural, ManagerAssumption DEF TypeOK
  <2>0. PerNodeLimit' = PerNodeLimit
    BY DEF PerNodeLimit
  <2>1. ASSUME NEW r \in Request, Check(r)
        PROVE  q \in carried'
    BY <2>0, <2>1 DEF Check, Goto, nodeVars, LocalChargesAreCapped
  <2>2. ASSUME NEW r \in Request, Return(r), UNCHANGED mode
        PROVE  q \in carried'
    BY <2>0, <2>2 DEF Return, Goto, LocalChargesAreCapped
  <2>3. ASSUME UNCHANGED <<pc, limit>>,
               UNCHANGED <<mode, carried>> \/ \E m \in ThrottleMode : TransitionTo(m)
        PROVE  q \in carried'
    BY <2>0, <2>3 DEF TransitionTo, LocalChargesAreCapped
  <2>4. ASSUME NEW r \in Request, pc[r] # "idle",
               \E label \in RequestPc : Goto(r, label), UNCHANGED limit,
               UNCHANGED <<mode, carried>> \/ TransitionTo("PEER")
        PROVE  q \in carried'
    <3>1. pc[q] # "idle"
      BY <2>4 DEF Goto
    <3>2. UNCHANGED <<mode, carried>>
      BY <2>4 DEF TransitionTo
    <3>3. QED
      BY <2>0, <2>4, <3>1, <3>2 DEF LocalChargesAreCapped
  <2>5. QED
    BY <2>1, <2>2, <2>3, <2>4, ChargeSteps
<1>3. QED
  BY <1>1, <1>2, TypeCorrect, PTL DEF Spec

-----------------------------------------------------------------------------
(* LOCAL mode is entered after misses only.                                 *)

(***************************************************************************)
(* The strengthening: the counter the goroutines share never runs ahead of *)
(* the misses since the last answer (requests only clear it), and once the *)
(* callback has seen it at the limit, no answer comes in before the        *)
(* callback is over, since the goroutine that counts is the one that       *)
(* calls.                                                                  *)
(***************************************************************************)
MissesCounted ==
    /\ peerFailures <= misses
    /\ syncPc \in {"missed", "toLocal"} => misses = PeerFailureLimit

\* What the steps do to the counters.
LEMMA MissSteps ==
    ASSUME [Next]_vars
    PROVE  \/ UNCHANGED <<syncPc, misses>> /\ peerFailures' \in {peerFailures, 0}
           \/ SyncStep
<1>1. ASSUME NEW r \in Request, Check(r) \/ RequestStep(r)
      PROVE  UNCHANGED <<syncPc, misses>> /\ peerFailures' \in {peerFailures, 0}
  BY <1>1 DEF Check, RequestStep, ReadCircuit, RedisAnswers, RedisFails,
     OnRedisSuccess, ClearPeerFailures, OnRedisFailure, RecheckCircuit,
     EnterPeer, ConsumeLocal, nodeVars, syncVars
<1>2. CASE ProbeStep
  BY <1>2 DEF ProbeStep, ProbeStart, Ping, WarmUp, ResetCircuit, ReturnToRedis,
     nodeVars, syncVars
<1>3. CASE RedisFlips \/ (\E p \in Peer : PeerFlips(p)) \/ Tick
  BY <1>3 DEF RedisFlips, PeerFlips, Tick, nodeVars, syncVars
<1>4. CASE UNCHANGED vars
  BY <1>4 DEF vars, nodeVars, syncVars
<1>5. QED
  BY <1>1, <1>2, <1>3, <1>4 DEF Next

\* The shared counter is covered by consecutive misses.
LEMMA MissesInvariance == Spec => []MissesCounted
<1>1. Init => MissesCounted
  BY DEF Init, MissesCounted
<1>2. TypeOK /\ MissesCounted /\ [Next]_vars => MissesCounted'
  <2> SUFFICES ASSUME TypeOK, MissesCounted, [Next]_vars
               PROVE  MissesCounted'
    OBVIOUS
  <2> USE ManagerAssumption DEF TypeOK, MissesCounted
  <2>1. CASE UNCHANGED <<syncPc, misses>> /\ peerFailures' \in {peerFailures, 0}
    BY <2>1
  <2>2. CASE SyncStart
    BY <2>2 DEF SyncStart, nodeVars
  <2>3. ASSUME NEW p \in Peer, PeerMisses(p)
        PROVE  MissesCounted'
    BY <2>3 DEF PeerMisses, Saturate, NextCall
  <2>4. ASSUME NEW p \in Peer, PeerAnswers(p)
        PROVE  MissesCounted'
    BY <2>4 DEF PeerAnswers
  <2>5. CASE CheckMissed \/ CheckAnswered
    BY <2>5 DEF CheckMissed, CheckAnswered, NextCall, nodeVars
  <2>6. CASE EnterLocal \/ ReturnToPeer
    BY <2>6 DEF EnterLocal, ReturnToPeer, NextCall
  <2>7. QED
    BY <2>1, <2>2, <2>3, <2>4, <2>5, <2>6, MissSteps DEF SyncStep
<1>3. QED
  BY <1>1, <1>2, TypeCorrect, PTL DEF Spec

(***************************************************************************)
(* The node enters LOCAL only after PeerFailureLimit calls to peers failed *)
(* with none answered in between.                                          *)
(***************************************************************************)
THEOREM LocalNeedsMisses == Spec => LocalAfterMisses
<1>1. TypeOK /\ MissesCounted /\ [Next]_vars
        => [mode # "LOCAL" /\ mode' = "LOCAL" => misses = PeerFailureLimit]_vars
  <2> SUFFICES ASSUME MissesCounted, Next, mode # "LOCAL", mode' = "LOCAL"
               PROVE  misses = PeerFailureLimit
    BY DEF TypeOK
  <2>1. ASSUME NEW r \in Request, Check(r) \/ RequestStep(r)
        PROVE  FALSE
    BY <2>1 DEF Check, RequestStep, ReadCircuit, RedisAnswers, RedisFails,
       OnRedisSuccess, ClearPeerFailures, OnRedisFailure, RecheckCircuit,
       EnterPeer, ConsumeLocal, TransitionTo, nodeVars
  <2>2. ~ProbeStep
    BY DEF ProbeStep, ProbeStart, Ping, WarmUp, ResetCircuit, ReturnToRedis,
       TransitionTo, nodeVars
  <2>3. ~(RedisFlips \/ (\E p \in Peer : PeerFlips(p)) \/ Tick)
    BY DEF RedisFlips, PeerFlips, Tick, nodeVars
  <2>4. SyncStep
    BY <2>1, <2>2, <2>3 DEF Next
  <2>5. EnterLocal
    BY <2>4 DEF SyncStep, SyncStart, PeerMisses, PeerAnswers, CheckMissed,
       CheckAnswered, ReturnToPeer, TransitionTo, nodeVars
  <2>6. QED
    BY <2>5 DEF EnterLocal, MissesCounted
<1>2. QED
  BY <1>1, TypeCorrect, MissesInvariance, PTL DEF Spec, LocalAfterMisses

-----------------------------------------------------------------------------
(* The flush loops.                                                         *)

(***************************************************************************)
(* The inductive invariant.  Only the current channel can be open, and it  *)
(* is open exactly while the flusher runs; a loop waits on a channel no    *)
(* older than its own, so the loop of the current Start waits on the       *)
(* current channel and cannot leave while it is open.                      *)
(***************************************************************************)
ChannelsInv ==
    /\ \A s \in Channel : s < stopCh => s \in closed
    /\ \A s \in closed : s <= stopCh
    /\ started => stopCh # 0 /\ stopCh \notin closed
    /\ ~started => stopCh = 0 \/ stopCh \in closed

LoopsInv ==
    /\ \A l \in Channel : loop[l] = "none" <=> l > stopCh
    /\ \A l \in Channel : loop[l] = "select" => l <= watched[l] /\ watched[l] <= stopCh
    /\ started => loop[stopCh] \in {"enter", "select", "flush"}

FlusherInv == FlusherTypeOK /\ ChannelsInv /\ LoopsInv

-----------------------------------------------------------------------------

\* The loop of the running flusher never finds its channel closed.
LEMMA RunningLoopStays ==
    ASSUME FlusherInv, started, NEW l \in Channel, Exit(l)
    PROVE  l # stopCh
  BY FlusherAssumption DEF FlusherInv, FlusherTypeOK, Channel, ChannelsInv, LoopsInv, Exit

\* The three conjuncts hold initially.
LEMMA FlusherInitInv == FlusherInit => FlusherInv
<1> SUFFICES ASSUME FlusherInit PROVE FlusherInv
  OBVIOUS
<1> USE FlusherAssumption DEF FlusherInit, Channel
<1>1. FlusherTypeOK
  BY DEF FlusherTypeOK, LoopPc
<1>2. ChannelsInv
  BY DEF ChannelsInv
<1>3. LoopsInv
  BY DEF LoopsInv
<1>4. QED
  BY <1>1, <1>2, <1>3 DEF FlusherInv

\* Every step of Start, Stop and the loops keeps them.
LEMMA FlusherNextInv ==
    ASSUME FlusherInv, [FlusherNext]_flusherVars
    PROVE  FlusherInv'
<1> USE FlusherAssumption DEF FlusherInv, FlusherTypeOK, Channel, LoopPc
<1>1. CASE Start
  <2>1. FlusherTypeOK'
    BY <1>1 DEF Start
  <2>2. ChannelsInv'
    BY <1>1 DEF Start, ChannelsInv
  <2>3. LoopsInv'
    BY <1>1 DEF Start, ChannelsInv, LoopsInv
  <2>4. QED
    BY <2>1, <2>2, <2>3
<1>2. CASE Stop
  <2>1. FlusherTypeOK'
    BY <1>2 DEF Stop, ChannelsInv
  <2>2. ChannelsInv'
    BY <1>2 DEF Stop, ChannelsInv
  <2>3. LoopsInv'
    BY <1>2 DEF Stop, LoopsInv
  <2>4. QED
    BY <2>1, <2>2, <2>3
<1>3. ASSUME NEW l \in Channel, EnterSelect(l)
      PROVE  FlusherInv'
  <2>1. FlusherTypeOK'
    BY <1>3 DEF EnterSelect
  <2>2. ChannelsInv'
    BY <1>3 DEF EnterSelect, ChannelsInv
  <2>3. LoopsInv'
    BY <1>3 DEF EnterSelect, LoopsInv
  <2>4. QED
    BY <2>1, <2>2, <2>3
<1>4. ASSUME NEW l \in Channel, Flush(l) \/ Flushed(l)
      PROVE  FlusherInv'
  <2>1. FlusherTypeOK'
    BY <1>4 DEF Flush, Flushed
  <2>2. ChannelsInv'
    <3>1. UNCHANGED <<started, stopCh, closed>>
      BY <1>4 DEF Flush, Flushed
    <3>2. QED
      BY <3>1 DEF ChannelsInv
  <2>3. LoopsInv'
    BY <1>4 DEF Flush, Flushed, LoopsInv
  <2>4. QED
    BY <2>1, <2>2, <2>3
<1>5. ASSUME NEW l \in Channel, Exit(l)
      PROVE  FlusherInv'
  <2>1. FlusherTypeOK'
    BY <1>5 DEF Exit
  <2>2. ChannelsInv'
    BY <1>5 DEF Exit, ChannelsInv
  <2>3. LoopsInv'
    <3>1. stopCh' = stopCh /\ started' = started /\ watched' = watched
      BY <1>5 DEF Exit
    <3>2. \A k \in Channel : loop'[k] = IF k = l THEN "done" ELSE loop[k]
      BY <1>5 DEF Exit
    <3>3. loop[l] # "none"
      BY <1>5 DEF Exit
    <3>4. started => stopCh \in Channel /\ l # stopCh
      BY <1>5, RunningLoopStays DEF ChannelsInv
    <3>5. QED
      BY <3>1, <3>2, <3>3, <3>4 DEF LoopsInv
  <2>4. QED
    BY <2>1, <2>2, <2>3
<1>6. CASE UNCHANGED flusherVars
  BY <1>6 DEF flusherVars, ChannelsInv, LoopsInv
<1>7. QED
  BY <1>1, <1>2, <1>3, <1>4, <1>5, <1>6 DEF FlusherNext

LEMMA FlusherInvariance == FlusherSpec => []FlusherInv
  BY FlusherInitInv, FlusherNextInv, PTL DEF FlusherSpec

-----------------------------------------------------------------------------

(***************************************************************************)
(* Stop never closes the nil channel: every channel closed or watched was  *)
(* made by a Start.                                                        *)
(***************************************************************************)
THEOREM FlusherTypeCorrect == FlusherSpec => []FlusherTypeOK
<1>1. FlusherInv => FlusherTypeOK
  BY DEF FlusherInv
<1>2. QED
  BY <1>1, FlusherInvariance, PTL

(***************************************************************************)
(* However Starts and Stops fell while it was flushing, a loop in its      *)
(* select waits on a channel that is closed or that the next Stop closes.  *)
(***************************************************************************)
THEOREM NoOrphan == FlusherSpec => []NoOrphanLoop
<1>1. FlusherInv => NoOrphanLoop
  <2> SUFFICES ASSUME FlusherInv, NEW l \in Channel, loop[l] = "select",
                      watched[l] \notin closed
               PROVE  started /\ watched[l] = stopCh
    BY DEF NoOrphanLoop
  <2> USE FlusherAssumption DEF FlusherInv, FlusherTypeOK, Channel
  <2>1. watched[l] \in Channel /\ watched[l] <= stopCh
    BY DEF LoopsInv
  <2>2. watched[l] = stopCh
    BY <2>1 DEF ChannelsInv
  <2>3. started
    BY <2>1, <2>2 DEF ChannelsInv
  <2>4. QED
    BY <2>2, <2>3
<1>2. QED
  BY <1>1, FlusherInvariance, PTL

(***************************************************************************)
(* While the flusher runs its channel is open and its loop is alive.       *)
(***************************************************************************)
THEOREM RunningLoop == FlusherSpec => []RunningHasLoop
<1>1. FlusherInv => RunningHasLoop
  BY DEF FlusherInv, ChannelsInv, LoopsInv, RunningHasLoop, Live
<1>2. QED
  BY <1>1, FlusherInvariance, PTL

=============================================================================
