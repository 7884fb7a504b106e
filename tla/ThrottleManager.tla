-------------------------- MODULE ThrottleManager --------------------------
(***************************************************************************)
(* One node of the Go service: the three-mode state machine of             *)
(* go-throttle/throttle/manager.go driven concurrently by                  *)
(*   - the request goroutines, each running Manager.Check;                 *)
(*   - the peer-sync goroutine (peer_sync.go), whose callbacks count peer  *)
(*     misses;                                                             *)
(*   - the health-probe goroutine, which brings the node back to Redis.    *)
(*                                                                         *)
(* A step of the model is the code between two accesses to state the       *)
(* goroutines share: one critical section of modeMu or of the breaker's    *)
(* mutex, one atomic operation on peerFailures, or one remote call.  What  *)
(* a goroutine read in one step it acts upon in a later one.               *)
(*                                                                         *)
(* The token buckets themselves are not here: RedisTokenBucket models the  *)
(* one in Redis, and of the local one only the limit it is charged with    *)
(* matters to the mode machine.                                            *)
(***************************************************************************)
EXTENDS CircuitBreaker

CONSTANTS
    Request,            \* the request goroutines
    Peer,               \* peerURLs of peer_sync.go
    PeerFailureLimit,   \* the misses that end PEER mode, 5 in the code
    GlobalLimit,        \* THROTTLE_GLOBAL_LIMIT
    NodeCount,          \* THROTTLE_NODE_COUNT
    MySQLConfigured     \* FALSE when NewManager is given a nil flusher

ASSUME ManagerAssumption ==
    /\ PeerFailureLimit \in Nat \ {0}
    /\ GlobalLimit \in Nat
    /\ NodeCount \in Nat \ {0}
    /\ MySQLConfigured \in BOOLEAN

VARIABLES
    mode,           \* m.mode
    peerFailures,   \* m.peerFailures, saturated at PeerFailureLimit
    running,        \* f.running of the MySQL flusher
    pc,             \* where each request goroutine stands
    limit,          \* the limit it will charge its local bucket with
    syncPc,         \* where the peer-sync goroutine stands
    todo,           \* the peers left to call in this syncOnce
    probePc,        \* where the probe goroutine stands
    redisUp,        \* environment: Redis answers in time
    peerUp,         \* environment: the peer answers 200 within 50ms
    misses,         \* history: peer calls failed since the last answered one
    carried         \* history: requests in flight when LOCAL was entered

nodeVars == <<mode, peerFailures, running>>
requestVars == <<pc, limit>>
syncVars == <<syncPc, todo, misses>>
envVars == <<redisUp, peerUp>>
vars == <<cbVars, nodeVars, requestVars, syncVars, probePc, envVars, carried>>

ThrottleMode == {"REDIS", "PEER", "LOCAL"}

\* perNodeLimit()
PerNodeLimit == GlobalLimit \div NodeCount

\* idle: no request; circuit: about to read the breaker before Redis; redis:
\* Consume in flight; success, clear: after a reply; failure, recheck: after
\* an error; toPeer: about to call transitionTo; consume: about to charge the
\* local bucket.
RequestPc == {"idle", "circuit", "redis", "success", "clear",
              "failure", "recheck", "toPeer", "consume"}

\* missed, answered: the callback is about to read the mode; toLocal, toPeer:
\* it is about to call transitionTo.
SyncPc == {"idle", "call", "missed", "toLocal", "answered", "toPeer"}

ProbePc == {"idle", "ping", "warmUp", "reset", "toRedis"}

TypeOK ==
    /\ CBTypeOK
    /\ mode \in ThrottleMode
    /\ peerFailures \in 0 .. PeerFailureLimit
    /\ running \in BOOLEAN
    /\ pc \in [Request -> RequestPc]
    /\ limit \in [Request -> {GlobalLimit, PerNodeLimit}]
    /\ syncPc \in SyncPc
    /\ todo \in SUBSET Peer
    /\ probePc \in ProbePc
    /\ redisUp \in BOOLEAN
    /\ peerUp \in [Peer -> BOOLEAN]
    /\ misses \in 0 .. PeerFailureLimit
    /\ carried \in SUBSET Request

\* A freshly started node; Redis and the peers may be up or down already.
Init ==
    /\ CBInit
    /\ mode = "REDIS"
    /\ peerFailures = 0
    /\ running = FALSE
    /\ pc = [r \in Request |-> "idle"]
    /\ limit = [r \in Request |-> GlobalLimit]
    /\ syncPc = "idle"
    /\ todo = {}
    /\ probePc = "idle"
    /\ redisUp \in BOOLEAN
    /\ peerUp \in [Peer -> BOOLEAN]
    /\ misses = 0
    /\ carried = {}

-----------------------------------------------------------------------------
(* transitionTo: modeMu is held throughout and the flusher is started or    *)
(* stopped inside it.                                                       *)

\* MySQLFlusher.Start and Stop return at once when there is nothing to do.
StartFlusher == running' = (running \/ MySQLConfigured)
StopFlusher == running' = FALSE

\* Mutant: only an explicit return to REDIS stops the flusher.
TransitionToMutant(newMode) ==
    IF mode = newMode
    THEN UNCHANGED <<mode, running, carried>>
    ELSE /\ mode' = newMode
         /\ CASE newMode = "LOCAL" -> StartFlusher
              [] newMode = "REDIS" -> StopFlusher
              [] OTHER -> UNCHANGED running
         /\ carried' = IF newMode = "LOCAL"
                       THEN {r \in Request : pc[r] # "idle"}
                       ELSE {}

TransitionTo(newMode) ==
    IF mode = newMode
    THEN UNCHANGED <<mode, running, carried>>
    ELSE /\ mode' = newMode
         /\ IF newMode = "LOCAL" THEN StartFlusher ELSE StopFlusher
         /\ carried' = IF newMode = "LOCAL"
                       THEN {r \in Request : pc[r] # "idle"}
                       ELSE {}

-----------------------------------------------------------------------------
(* The request goroutines: Check, checkRedis, checkLocal.                   *)

Goto(r, label) == pc' = [pc EXCEPT ![r] = label]

Return(r) ==
    /\ Goto(r, "idle")
    /\ limit' = [limit EXCEPT ![r] = GlobalLimit]
    /\ carried' = carried \ {r}

\* Mutant: Check hands every local request the global limit.
CheckMutant(r) ==
    /\ pc[r] = "idle"
    /\ Goto(r, IF mode = "REDIS" THEN "circuit" ELSE "consume")
    /\ limit' = [limit EXCEPT ![r] = GlobalLimit]
    /\ UNCHANGED <<cbVars, nodeVars, syncVars, probePc, envVars, carried>>

\* Mutant: a LOCAL request gets what is left for the other nodes.
CheckShareMutant(r) ==
    /\ pc[r] = "idle"
    /\ Goto(r, IF mode = "REDIS" THEN "circuit" ELSE "consume")
    /\ limit' = [limit EXCEPT ![r] =
                    IF mode = "LOCAL" THEN GlobalLimit - PerNodeLimit ELSE GlobalLimit]
    /\ UNCHANGED <<cbVars, nodeVars, syncVars, probePc, envVars, carried>>

\* The mode is read once, at the top of Check, and fixes the limit.
Check(r) ==
    /\ pc[r] = "idle"
    /\ Goto(r, IF mode = "REDIS" THEN "circuit" ELSE "consume")
    /\ limit' = [limit EXCEPT ![r] =
                    IF mode = "LOCAL" THEN PerNodeLimit ELSE GlobalLimit]
    /\ UNCHANGED <<cbVars, nodeVars, syncVars, probePc, envVars, carried>>

\* circuit.State() before the call to Redis.
ReadCircuit(r) ==
    /\ pc[r] = "circuit"
    /\ State
    /\ Goto(r, IF Observed = "OPEN" THEN "toPeer" ELSE "redis")
    /\ UNCHANGED <<nodeVars, limit, syncVars, probePc, envVars, carried>>

RedisAnswers(r) ==
    /\ pc[r] = "redis"
    /\ redisUp
    /\ Goto(r, "success")
    /\ UNCHANGED <<cbVars, nodeVars, limit, syncVars, probePc, envVars, carried>>

\* The call fails when Redis is down, and also when the client goes away:
\* Consume runs under r.Context(), so a healthy Redis may report an error.
RedisFails(r) ==
    /\ pc[r] = "redis"
    /\ Goto(r, "failure")
    /\ UNCHANGED <<cbVars, nodeVars, limit, syncVars, probePc, envVars, carried>>

OnRedisSuccess(r) ==
    /\ pc[r] = "success"
    /\ RecordSuccess
    /\ Goto(r, "clear")
    /\ UNCHANGED <<nodeVars, limit, syncVars, probePc, envVars, carried>>

ClearPeerFailures(r) ==
    /\ pc[r] = "clear"
    /\ peerFailures' = 0
    /\ Return(r)
    /\ UNCHANGED <<cbVars, mode, running, syncVars, probePc, envVars>>

OnRedisFailure(r) ==
    /\ pc[r] = "failure"
    /\ RecordFailure
    /\ Goto(r, "recheck")
    /\ UNCHANGED <<nodeVars, limit, syncVars, probePc, envVars, carried>>

\* circuit.State() after the failure was recorded.
RecheckCircuit(r) ==
    /\ pc[r] = "recheck"
    /\ State
    /\ Goto(r, IF Observed = "OPEN" THEN "toPeer" ELSE "consume")
    /\ UNCHANGED <<nodeVars, limit, syncVars, probePc, envVars, carried>>

EnterPeer(r) ==
    /\ pc[r] = "toPeer"
    /\ TransitionTo("PEER")
    /\ Goto(r, "consume")
    /\ UNCHANGED <<cbVars, peerFailures, limit, syncVars, probePc, envVars>>

\* checkLocal: local.Consume(entityID, cost, limit) and the reply.
ConsumeLocal(r) ==
    /\ pc[r] = "consume"
    /\ Return(r)
    /\ UNCHANGED <<cbVars, nodeVars, syncVars, probePc, envVars>>

\* The steps a request takes once it has been accepted.
RequestStep(r) ==
    \/ ReadCircuit(r)
    \/ RedisAnswers(r)
    \/ RedisFails(r)
    \/ OnRedisSuccess(r)
    \/ ClearPeerFailures(r)
    \/ OnRedisFailure(r)
    \/ RecheckCircuit(r)
    \/ EnterPeer(r)
    \/ ConsumeLocal(r)

-----------------------------------------------------------------------------
(* The peer-sync goroutine: syncOnce and the two callbacks.                 *)

\* The next peer of the loop, or the end of syncOnce.
NextCall(remaining) == IF remaining = {} THEN "idle" ELSE "call"

\* The 100ms ticker; without peers Start returns before its loop.
SyncStart ==
    /\ syncPc = "idle"
    /\ Peer # {}
    /\ syncPc' = "call"
    /\ todo' = Peer
    /\ UNCHANGED <<cbVars, nodeVars, requestVars, misses, probePc, envVars, carried>>

\* callPeer failed; recordPeerFailure adds one and keeps the sum it saw.
PeerMisses(p) ==
    /\ syncPc = "call"
    /\ p \in todo
    /\ ~peerUp[p]
    /\ peerFailures' = Saturate(peerFailures + 1, PeerFailureLimit)
    /\ misses' = Saturate(misses + 1, PeerFailureLimit)
    /\ todo' = todo \ {p}
    /\ syncPc' = IF peerFailures' >= PeerFailureLimit
                 THEN "missed"
                 ELSE NextCall(todo')
    /\ UNCHANGED <<cbVars, mode, running, requestVars, probePc, envVars, carried>>

CheckMissed ==
    /\ syncPc = "missed"
    /\ syncPc' = IF mode = "PEER" THEN "toLocal" ELSE NextCall(todo)
    /\ UNCHANGED <<cbVars, nodeVars, requestVars, todo, misses, probePc, envVars, carried>>

\* Mutant: the callback stops at the mode check.
EnterLocalMutant ==
    /\ syncPc = "toLocal"
    /\ syncPc' = NextCall(todo)
    /\ UNCHANGED <<cbVars, nodeVars, requestVars, todo, misses, probePc, envVars, carried>>

EnterLocal ==
    /\ syncPc = "toLocal"
    /\ TransitionTo("LOCAL")
    /\ syncPc' = NextCall(todo)
    /\ UNCHANGED <<cbVars, peerFailures, requestVars, todo, misses, probePc, envVars>>

\* Mutant: an answer does not clear the count.
PeerAnswersMutant(p) ==
    /\ syncPc = "call"
    /\ p \in todo
    /\ peerUp[p]
    /\ misses' = 0
    /\ todo' = todo \ {p}
    /\ syncPc' = "answered"
    /\ UNCHANGED <<cbVars, nodeVars, requestVars, probePc, envVars, carried>>

\* callPeer succeeded (MergePeer touches only the buckets), and
\* recordPeerSuccess clears the count.
PeerAnswers(p) ==
    /\ syncPc = "call"
    /\ p \in todo
    /\ peerUp[p]
    /\ peerFailures' = 0
    /\ misses' = 0
    /\ todo' = todo \ {p}
    /\ syncPc' = "answered"
    /\ UNCHANGED <<cbVars, mode, running, requestVars, probePc, envVars, carried>>

\* Mutant: recordPeerSuccess clears the count and leaves the mode alone.
CheckAnsweredMutant ==
    /\ syncPc = "answered"
    /\ syncPc' = NextCall(todo)
    /\ UNCHANGED <<cbVars, nodeVars, requestVars, todo, misses, probePc, envVars, carried>>

CheckAnswered ==
    /\ syncPc = "answered"
    /\ syncPc' = IF mode = "LOCAL" THEN "toPeer" ELSE NextCall(todo)
    /\ UNCHANGED <<cbVars, nodeVars, requestVars, todo, misses, probePc, envVars, carried>>

ReturnToPeer ==
    /\ syncPc = "toPeer"
    /\ TransitionTo("PEER")
    /\ syncPc' = NextCall(todo)
    /\ UNCHANGED <<cbVars, peerFailures, requestVars, todo, misses, probePc, envVars>>

SyncStep ==
    \/ SyncStart
    \/ \E p \in Peer : PeerMisses(p) \/ PeerAnswers(p)
    \/ CheckMissed
    \/ EnterLocal
    \/ CheckAnswered
    \/ ReturnToPeer

-----------------------------------------------------------------------------
(* The health probe: probeRedis.                                            *)

\* Mutant: the probe does not ask for the mode.
ProbeStartMutant ==
    /\ probePc = "idle"
    /\ probePc' = "ping"
    /\ UNCHANGED <<cbVars, nodeVars, requestVars, syncVars, envVars, carried>>

\* The 5s ticker; in REDIS mode the probe returns at once.
ProbeStart ==
    /\ probePc = "idle"
    /\ mode # "REDIS"
    /\ probePc' = "ping"
    /\ UNCHANGED <<cbVars, nodeVars, requestVars, syncVars, envVars, carried>>

Ping ==
    /\ probePc = "ping"
    /\ probePc' = IF redisUp THEN "warmUp" ELSE "idle"
    /\ UNCHANGED <<cbVars, nodeVars, requestVars, syncVars, envVars, carried>>

\* warmUpRedis: a snapshot, a sleep, a pipeline.  It fails when Redis has gone
\* again, except that an empty snapshot makes an empty pipeline, which sends
\* nothing and succeeds.
WarmUp ==
    /\ probePc = "warmUp"
    /\ probePc' \in IF redisUp THEN {"reset"} ELSE {"idle", "reset"}
    /\ UNCHANGED <<cbVars, nodeVars, requestVars, syncVars, envVars, carried>>

ResetCircuit ==
    /\ probePc = "reset"
    /\ Reset
    /\ probePc' = "toRedis"
    /\ UNCHANGED <<nodeVars, requestVars, syncVars, envVars, carried>>

\* Mutant: the probe resets the breaker and forgets the mode.
ReturnToRedisMutant ==
    /\ probePc = "toRedis"
    /\ probePc' = "idle"
    /\ UNCHANGED <<cbVars, nodeVars, requestVars, syncVars, envVars, carried>>

ReturnToRedis ==
    /\ probePc = "toRedis"
    /\ TransitionTo("REDIS")
    /\ probePc' = "idle"
    /\ UNCHANGED <<cbVars, peerFailures, requestVars, syncVars, envVars>>

ProbeStep == ProbeStart \/ Ping \/ WarmUp \/ ResetCircuit \/ ReturnToRedis

-----------------------------------------------------------------------------
(* The environment.                                                         *)

RedisFlips ==
    /\ redisUp' = ~redisUp
    /\ UNCHANGED <<cbVars, nodeVars, requestVars, syncVars, probePc, peerUp, carried>>

PeerFlips(p) ==
    /\ peerUp' = [peerUp EXCEPT ![p] = ~@]
    /\ UNCHANGED <<cbVars, nodeVars, requestVars, syncVars, probePc, redisUp, carried>>

Tick ==
    /\ ClockTick
    /\ UNCHANGED <<nodeVars, requestVars, syncVars, probePc, envVars, carried>>

Next ==
    \/ \E r \in Request : Check(r) \/ RequestStep(r)
    \/ SyncStep
    \/ ProbeStep
    \/ RedisFlips
    \/ \E p \in Peer : PeerFlips(p)
    \/ Tick

Spec == Init /\ [][Next]_vars

\* The tickers keep firing, every remote call ends within its timeout and the
\* goroutines keep being scheduled.  Nothing makes a client send a request,
\* and nothing makes Redis or a peer come back.
Fairness ==
    /\ \A r \in Request : WF_vars(RequestStep(r))
    /\ WF_vars(SyncStep)
    /\ WF_vars(ProbeStep)
    /\ WF_vars(Tick)

FairSpec == Spec /\ Fairness

-----------------------------------------------------------------------------
(* Properties.                                                              *)

(***************************************************************************)
(* The MySQL flusher runs exactly while the node is in LOCAL mode          *)
(* ("MySQL flush only active in LOCAL mode", manager.go:251), whichever    *)
(* goroutines raced to change the mode: Start and Stop are called inside   *)
(* modeMu, after the comparison of the old mode with the new.              *)
(***************************************************************************)
FlusherFollowsMode == running <=> (mode = "LOCAL" /\ MySQLConfigured)

(***************************************************************************)
(* In LOCAL mode only requests that were already in flight when the node   *)
(* entered LOCAL may still charge the undivided global limit: the limit a  *)
(* goroutine read before the switch goes stale, but every request accepted *)
(* after it is capped at the per-node share.                               *)
(***************************************************************************)
LocalChargesAreCapped ==
    mode = "LOCAL" =>
        \A r \in Request : pc[r] # "idle" /\ limit[r] > PerNodeLimit => r \in carried

(***************************************************************************)
(* While a probe is under way, from its ping through the warm-up to the    *)
(* transition, the node stays out of REDIS mode: the mode the probe read   *)
(* at its start is still valid when it seeds, so no request that reads     *)
(* the mode meanwhile is charged to the bucket the node overwrites.  Calls *)
(* to Redis that were already in flight may still be.                      *)
(***************************************************************************)
ProbesOutsideRedis == probePc # "idle" => mode # "REDIS"

(***************************************************************************)
(* The node enters LOCAL only after PeerFailureLimit calls to peers failed *)
(* with none answered in between ("transitions to LOCAL mode after 5       *)
(* misses", peer_sync.go:23), although the shared counter is also cleared  *)
(* by requests and although it keeps counting in REDIS mode.               *)
(***************************************************************************)
LocalAfterMisses ==
    [][mode # "LOCAL" /\ mode' = "LOCAL" => misses = PeerFailureLimit]_vars

(***************************************************************************)
(* A failure recorded while the breaker is HALF_OPEN opens it again        *)
(* ("Probe failure -> OPEN again", circuit_breaker.go:34), and restarts    *)
(* its timeout.                                                            *)
(***************************************************************************)
HalfOpenFailureReopens ==
    [][\A r \in Request :
        cbState = "HALF_OPEN" /\ pc[r] = "failure" /\ pc'[r] = "recheck"
            => cbState' = "OPEN" /\ sinceFailure' = 0]_vars

(***************************************************************************)
(* A node does not stay out of REDIS mode for good once Redis is back      *)
(* ("Any -(Redis ping ok)-> REDIS", manager.go:51), whatever the other     *)
(* goroutines do with the mode meanwhile.                                  *)
(***************************************************************************)
RedisRecovers == <>[]redisUp => []<>(mode = "REDIS")

Outage == ~redisUp /\ \A p \in Peer : ~peerUp[p]

(***************************************************************************)
(* With Redis and every peer gone for good, a node does not stay in PEER   *)
(* mode, where it would grant the whole global limit with nobody to share  *)
(* it with (PEER -(5 failures)-> LOCAL, manager.go:50).                    *)
(***************************************************************************)
OutageEndsPeerMode == <>[]Outage => []<>(mode # "PEER")

(***************************************************************************)
(* With every peer answering, a node does not stay in LOCAL mode           *)
(* (recordPeerSuccess).                                                    *)
(***************************************************************************)
PeersEndLocalMode ==
    <>[](\A p \in Peer : peerUp[p]) => []<>(mode # "LOCAL")

=============================================================================
