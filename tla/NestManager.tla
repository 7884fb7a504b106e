----------------------------- MODULE NestManager -----------------------------
(***************************************************************************)
(* One node of the NestJS service: throttle-manager.service.ts with its    *)
(* breaker (circuit-breaker.service.ts), the flush timer of                *)
(* mysql-flush.service.ts and the sync loop of peer-sync.service.ts.       *)
(*                                                                         *)
(* The service runs on one event loop, so the code between two awaits is   *)
(* one step and needs no lock.  What interleaves is what awaits: requests  *)
(* waiting for Redis, and health probes, which setInterval starts whether  *)
(* or not an earlier one is still waiting.                                 *)
(*                                                                         *)
(* The breaker is the one of CircuitBreaker but for CloseCircuit; requests *)
(* answered from the local bucket do not wait and change nothing here.     *)
(***************************************************************************)
EXTENDS CircuitBreaker

CONSTANTS
    Request,            \* the requests that may wait for Redis at once
    Probe,              \* bound: the probes that may be under way at once
    PeerFailureLimit    \* the peer failures that end PEER mode, 5 in the code

ASSUME NestAssumption ==
    /\ PeerFailureLimit \in Nat \ {0}
    /\ ResetTimeout > 0

VARIABLES
    mode,       \* this.mode
    flushing,   \* MySQLFlushService has a timer
    pc,         \* what each request awaits
    probe,      \* what each probe awaits
    redisUp,    \* environment: Redis answers
    peerUp,     \* environment: the peer answers 200 within 50ms
    misses      \* history: syncs failed since the last answered one

requestVars == <<pc>>
probeVars == <<probe>>
modeVars == <<mode, flushing>>
envVars == <<redisUp, peerUp, misses>>
vars == <<cbVars, modeVars, requestVars, probeVars, envVars>>

ThrottleMode == {"REDIS", "PEER", "LOCAL"}

\* sleep: the jitter of warmUpRedis; seed: the pipeline is under way.
ProbePc == {"idle", "ping", "sleep", "seed"}

TypeOK ==
    /\ CBTypeOK
    /\ mode \in ThrottleMode
    /\ flushing \in BOOLEAN
    /\ pc \in [Request -> {"idle", "redis"}]
    /\ probe \in [Probe -> ProbePc]
    /\ redisUp \in BOOLEAN
    /\ peerUp \in BOOLEAN
    /\ misses \in 0 .. PeerFailureLimit

Init ==
    /\ CBInit
    /\ mode = "REDIS"
    /\ flushing = FALSE
    /\ pc = [r \in Request |-> "idle"]
    /\ probe = [p \in Probe |-> "idle"]
    /\ redisUp \in BOOLEAN
    /\ peerUp \in BOOLEAN
    /\ misses = 0

-----------------------------------------------------------------------------

\* Mutant: a success takes one failure back instead of all of them.
CloseCircuitMutant ==
    /\ cbState' = "CLOSED"
    /\ failureCount' = failureCount - 1
    /\ sinceFailure' = ResetTimeout

\* recordSuccess() and reset(): the stamp goes back to the epoch, further back
\* than any timeout.
CloseCircuit ==
    /\ cbState' = "CLOSED"
    /\ failureCount' = 0
    /\ sinceFailure' = ResetTimeout

\* startFlush() and stopFlush() return at once when there is nothing to do.
TransitionTo(newMode) ==
    IF mode = newMode
    THEN UNCHANGED modeVars
    ELSE mode' = newMode /\ flushing' = (newMode = "LOCAL")

Await(r, what) == pc' = [pc EXCEPT ![r] = what]

\* Mutant: the catch block leaves the mode to the next check().
FailStayMutant ==
    /\ RecordFailure
    /\ UNCHANGED modeVars

\* The catch block.  A failure just stamped is younger than any timeout, so
\* the getter answers what recordFailure() left.
Fail ==
    /\ RecordFailure
    /\ IF cbState' = "OPEN" THEN TransitionTo("PEER") ELSE UNCHANGED modeVars

-----------------------------------------------------------------------------
(* Requests.                                                                *)

\* check() in REDIS mode, up to its await: an OPEN breaker turns the node to
\* its peers and the request is answered from the local bucket.
Check(r) ==
    /\ pc[r] = "idle"
    /\ mode = "REDIS"
    /\ State
    /\ IF Observed = "OPEN"
       THEN TransitionTo("PEER") /\ UNCHANGED pc
       ELSE Await(r, "redis") /\ UNCHANGED modeVars
    /\ UNCHANGED <<probeVars, envVars>>

\* The await of consume() ends, whatever the mode is by now.
RedisAnswers(r) ==
    /\ pc[r] = "redis"
    /\ redisUp
    /\ CloseCircuit
    /\ Await(r, "idle")
    /\ UNCHANGED <<modeVars, probeVars, envVars>>

\* A Redis that answers may still answer with an error.
RedisFails(r) ==
    /\ pc[r] = "redis"
    /\ Fail
    /\ Await(r, "idle")
    /\ UNCHANGED <<probeVars, envVars>>

-----------------------------------------------------------------------------
(* probeRedisHealth().                                                      *)

Step(p, from, to) ==
    /\ probe[p] = from
    /\ probe' = [probe EXCEPT ![p] = to]

\* The 5s interval fires, while earlier probes may still be waiting.
ProbeStart(p) ==
    /\ mode # "REDIS"
    /\ Step(p, "idle", "ping")
    /\ UNCHANGED <<cbVars, modeVars, requestVars, envVars>>

\* The ping is answered; the snapshot is taken and the jitter begins.
PingAnswers(p) ==
    /\ redisUp
    /\ Step(p, "ping", "sleep")
    /\ UNCHANGED <<cbVars, modeVars, requestVars, envVars>>

PingFails(p) ==
    /\ ~redisUp
    /\ Step(p, "ping", "idle")
    /\ UNCHANGED <<cbVars, modeVars, requestVars, envVars>>

Seed(p) ==
    /\ Step(p, "sleep", "seed")
    /\ UNCHANGED <<cbVars, modeVars, requestVars, envVars>>

\* Mutant: the node returns to Redis and leaves the breaker as it was.
SeededMutant(p) ==
    /\ Step(p, "seed", "idle")
    /\ TransitionTo("REDIS")
    /\ UNCHANGED <<cbVars, requestVars, envVars>>

\* Mutant: the probe ends with the warm-up.
SeededIdleMutant(p) ==
    /\ Step(p, "seed", "idle")
    /\ UNCHANGED <<cbVars, modeVars, requestVars, envVars>>

\* exec() resolves with one result per command and rejects for none of them,
\* so the probe goes on even when the pipeline did not reach Redis.
Seeded(p) ==
    /\ Step(p, "seed", "idle")
    /\ CloseCircuit
    /\ TransitionTo("REDIS")
    /\ UNCHANGED <<requestVars, envVars>>

ProbeStep(p) ==
    \/ ProbeStart(p)
    \/ PingAnswers(p)
    \/ PingFails(p)
    \/ Seed(p)
    \/ Seeded(p)

-----------------------------------------------------------------------------

\* syncWithPeers(): a failed call is swallowed, an answer merged; neither
\* reaches recordPeerFailure or recordPeerSuccess.
Sync ==
    /\ misses' = IF peerUp THEN 0 ELSE Saturate(misses + 1, PeerFailureLimit)
    /\ UNCHANGED <<cbVars, modeVars, requestVars, probeVars, redisUp, peerUp>>

RedisFlips ==
    /\ redisUp' = ~redisUp
    /\ UNCHANGED <<cbVars, modeVars, requestVars, probeVars, peerUp, misses>>

PeerFlips ==
    /\ peerUp' = ~peerUp
    /\ UNCHANGED <<cbVars, modeVars, requestVars, probeVars, redisUp, misses>>

Tick ==
    /\ ClockTick
    /\ UNCHANGED <<modeVars, requestVars, probeVars, envVars>>

Next ==
    \/ \E r \in Request : Check(r) \/ RedisAnswers(r) \/ RedisFails(r)
    \/ \E p \in Probe : ProbeStep(p)
    \/ Sync
    \/ RedisFlips
    \/ PeerFlips
    \/ Tick

Spec == Init /\ [][Next]_vars

\* The intervals keep firing, timers expire and every awaited call settles.
\* Nothing makes a client send a request, or Redis or the peer come back.
Fairness ==
    /\ \A r \in Request : WF_vars(RedisAnswers(r) \/ RedisFails(r))
    /\ \A p \in Probe : WF_vars(ProbeStep(p))
    /\ WF_vars(Sync)
    /\ WF_vars(Tick)

FairSpec == Spec /\ Fairness

-----------------------------------------------------------------------------

(***************************************************************************)
(* Requests are sent to Redis through a CLOSED breaker only: the step that *)
(* opens it turns the node to its peers, and the one that returns to Redis *)
(* closes it, also when an answer or a second probe comes late.  HALF_OPEN *)
(* is therefore never entered by this service.                             *)
(***************************************************************************)
RedisModeIsClosed == mode = "REDIS" => cbState = "CLOSED"

(***************************************************************************)
(* Once Redis is back for good the node does not stay in PEER mode ("Any   *)
(* mode --(Redis ping ok)--> REDIS", throttle-manager.service.ts:16),      *)
(* whatever overlapping probes and late answers do to the breaker.         *)
(***************************************************************************)
RedisRecovers == <>[]redisUp => []<>(mode = "REDIS")

(***************************************************************************)
(* With Redis gone for good and requests still failing on it, the node     *)
(* ends up out of REDIS mode and stays out: the probes under way, which    *)
(* close the breaker and return to REDIS even when their pipeline failed,  *)
(* can postpone this only so often.                                        *)
(***************************************************************************)
OutageLeavesRedis ==
    <>[]~redisUp => (<>[](mode # "REDIS") \/ <>[](\A r \in Request : pc[r] = "idle"))

(***************************************************************************)
(* What throttle-manager.service.ts:14 draws, "PEER --(5 peer failures)--> *)
(* LOCAL": a node whose peers stay unreachable does not stay in PEER mode. *)
(***************************************************************************)
PeerLossEndsPeerMode ==
    <>[](misses = PeerFailureLimit) => []<>(mode # "PEER")

(***************************************************************************)
(* What throttle-manager.service.ts:141 says of the warm-up, "Seed Redis   *)
(* from local state on recovery": not on a node that has recovered already *)
(* and whose requests are charged to the buckets the seed overwrites.      *)
(***************************************************************************)
SeedsOnRecovery ==
    [][\A p \in Probe :
        probe[p] = "sleep" /\ probe'[p] = "seed" => mode # "REDIS"]_vars

=============================================================================
