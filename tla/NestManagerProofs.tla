-------------------------- MODULE NestManagerProofs --------------------------
(***************************************************************************)
(* Proofs about NestManager, for any number of requests and of overlapping *)
(* probes: type correctness, and what ties the mode to the breaker.        *)
(***************************************************************************)
EXTENDS NestManager, TLAPS

\* A transition keeps the mode and the timer in range.
LEMMA TransitionTyping ==
    ASSUME TypeOK, NEW newMode \in ThrottleMode, TransitionTo(newMode)
    PROVE  mode' \in ThrottleMode /\ flushing' \in BOOLEAN
BY DEF TransitionTo, modeVars, TypeOK

\* The breaker's steps keep its fields in range.
LEMMA CircuitTyping ==
    ASSUME CBTypeOK,
           State \/ RecordFailure \/ CloseCircuit \/ ClockTick \/ UNCHANGED cbVars
    PROVE  CBTypeOK'
<1> USE CircuitAssumption DEF CBTypeOK, CircuitState
<1>1. CASE State
  BY <1>1 DEF State, Observed
<1>2. CASE RecordFailure
  BY <1>2 DEF RecordFailure, Saturate
<1>3. CASE CloseCircuit
  BY <1>3 DEF CloseCircuit
<1>4. CASE ClockTick
  BY <1>4 DEF ClockTick
<1>5. CASE UNCHANGED cbVars
  BY <1>5 DEF cbVars
<1>6. QED
  BY <1>1, <1>2, <1>3, <1>4, <1>5

\* Every step of a request keeps the state typed.
LEMMA RequestTyping ==
    ASSUME TypeOK, NEW r \in Request, Check(r) \/ RedisAnswers(r) \/ RedisFails(r)
    PROVE  TypeOK'
<1> USE DEF TypeOK
<1>1. CASE Check(r)
  <2>1. CBTypeOK'
    BY <1>1, CircuitTyping DEF Check
  <2>2. mode' \in ThrottleMode /\ flushing' \in BOOLEAN
    BY <1>1, TransitionTyping DEF Check, ThrottleMode, modeVars
  <2>3. QED
    BY <1>1, <2>1, <2>2 DEF Check, Await, probeVars, envVars
<1>2. CASE RedisAnswers(r)
  <2>1. CBTypeOK'
    BY <1>2, CircuitTyping DEF RedisAnswers
  <2>2. QED
    BY <1>2, <2>1 DEF RedisAnswers, Await, modeVars, probeVars, envVars
<1>3. CASE RedisFails(r)
  <2>1. CBTypeOK'
    BY <1>3, CircuitTyping DEF RedisFails, Fail
  <2>2. mode' \in ThrottleMode /\ flushing' \in BOOLEAN
    BY <1>3, TransitionTyping DEF RedisFails, Fail, ThrottleMode, modeVars
  <2>3. QED
    BY <1>3, <2>1, <2>2 DEF RedisFails, Await, probeVars, envVars
<1>4. QED
  BY <1>1, <1>2, <1>3

\* Every step of a probe keeps the state typed.
LEMMA ProbeTyping ==
    ASSUME TypeOK, NEW p \in Probe, ProbeStep(p)
    PROVE  TypeOK'
<1> USE DEF TypeOK
<1>1. CASE ProbeStart(p) \/ PingAnswers(p) \/ PingFails(p) \/ Seed(p)
  <2>1. CBTypeOK'
    BY <1>1, CircuitTyping DEF ProbeStart, PingAnswers, PingFails, Seed
  <2>2. probe' \in [Probe -> ProbePc]
    BY <1>1 DEF ProbeStart, PingAnswers, PingFails, Seed, Step, ProbePc
  <2>3. UNCHANGED <<modeVars, requestVars, envVars>>
    BY <1>1 DEF ProbeStart, PingAnswers, PingFails, Seed
  <2>4. QED
    BY <2>1, <2>2, <2>3 DEF modeVars, requestVars, envVars
<1>2. CASE Seeded(p)
  <2>1. CBTypeOK'
    BY <1>2, CircuitTyping DEF Seeded
  <2>2. mode' \in ThrottleMode /\ flushing' \in BOOLEAN
    BY <1>2, TransitionTyping DEF Seeded, ThrottleMode
  <2>3. QED
    BY <1>2, <2>1, <2>2 DEF Seeded, Step, ProbePc, requestVars, envVars
<1>3. QED
  BY <1>1, <1>2 DEF ProbeStep

(***************************************************************************)
(* Every reachable state of the service is typed.                          *)
(***************************************************************************)
THEOREM TypeCorrect == Spec => []TypeOK
<1>1. Init => TypeOK
  <2> SUFFICES ASSUME Init PROVE TypeOK
    OBVIOUS
  <2>1. CBTypeOK
    BY CircuitAssumption DEF Init, CBInit, CBTypeOK, CircuitState
  <2>2. misses \in 0 .. PeerFailureLimit
    BY NestAssumption DEF Init
  <2>3. QED
    BY <2>1, <2>2 DEF Init, TypeOK, ThrottleMode, ProbePc
<1>2. TypeOK /\ [Next]_vars => TypeOK'
  <2> SUFFICES ASSUME TypeOK, [Next]_vars PROVE TypeOK'
    OBVIOUS
  <2>1. CASE Sync
    <3>1. CBTypeOK'
      BY <2>1, CircuitTyping DEF Sync, TypeOK
    <3>2. misses' \in 0 .. PeerFailureLimit
      BY <2>1, NestAssumption DEF Sync, Saturate, TypeOK
    <3>3. QED
      BY <2>1, <3>1, <3>2 DEF Sync, TypeOK, modeVars, requestVars, probeVars
  <2>2. CASE RedisFlips \/ PeerFlips
    <3>1. CBTypeOK'
      BY <2>2, CircuitTyping DEF RedisFlips, PeerFlips, TypeOK
    <3>2. redisUp' \in BOOLEAN /\ peerUp' \in BOOLEAN
      BY <2>2, Zenon DEF RedisFlips, PeerFlips, TypeOK
    <3>3. QED
      BY <2>2, <3>1, <3>2 DEF RedisFlips, PeerFlips, TypeOK, modeVars,
         requestVars, probeVars
  <2>3. CASE Tick
    <3>1. CBTypeOK'
      BY <2>3, CircuitTyping DEF Tick, TypeOK
    <3>2. QED
      BY <2>3, <3>1 DEF Tick, TypeOK, modeVars, requestVars, probeVars, envVars
  <2>4. CASE UNCHANGED vars
    <3>1. CBTypeOK'
      BY <2>4, CircuitTyping DEF vars, TypeOK
    <3>2. QED
      BY <2>4, <3>1 DEF vars, TypeOK, modeVars, requestVars, probeVars, envVars
  <2>5. QED
    BY <2>1, <2>2, <2>3, <2>4, RequestTyping, ProbeTyping DEF Next
<1>3. QED
  BY <1>1, <1>2, PTL DEF Spec

(***************************************************************************)
(* Requests are sent to Redis through a CLOSED breaker only.  The          *)
(* invariant is inductive as it stands, because the failure that opens the *)
(* breaker and the change of mode are one step of the event loop.          *)
(***************************************************************************)
THEOREM RedisModeClosed == Spec => []RedisModeIsClosed
<1>1. Init => RedisModeIsClosed
  BY DEF Init, CBInit, RedisModeIsClosed
<1>2. RedisModeIsClosed /\ [Next]_vars => RedisModeIsClosed'
  <2> SUFFICES ASSUME RedisModeIsClosed, [Next]_vars
               PROVE  RedisModeIsClosed'
    OBVIOUS
  <2> USE DEF RedisModeIsClosed
  <2>1. ASSUME NEW r \in Request, Check(r)
        PROVE  RedisModeIsClosed'
    BY <2>1 DEF Check, State, Observed, modeVars
  <2>2. ASSUME NEW r \in Request, RedisAnswers(r)
        PROVE  RedisModeIsClosed'
    BY <2>2 DEF RedisAnswers, CloseCircuit
  <2>3. ASSUME NEW r \in Request, RedisFails(r)
        PROVE  RedisModeIsClosed'
    BY <2>3 DEF RedisFails, Fail, RecordFailure, TransitionTo, modeVars
  <2>4. ASSUME NEW p \in Probe, ProbeStep(p)
        PROVE  RedisModeIsClosed'
    BY <2>4 DEF ProbeStep, ProbeStart, PingAnswers, PingFails, Seed, Seeded,
       CloseCircuit, cbVars, modeVars
  <2>5. CASE Sync \/ RedisFlips \/ PeerFlips \/ Tick \/ UNCHANGED vars
    BY <2>5 DEF Sync, RedisFlips, PeerFlips, Tick, ClockTick, vars, cbVars, modeVars
  <2>6. QED
    BY <2>1, <2>2, <2>3, <2>4, <2>5 DEF Next
<1>3. QED
  BY <1>1, <1>2, PTL DEF Spec

=============================================================================
