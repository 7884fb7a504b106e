-------------------------- MODULE RedisTokenBucket --------------------------
(***************************************************************************)
(* The token bucket of one entity in Redis, shared by every node: the Lua  *)
(* script, consume and seedFromSnapshot of token-bucket.strategy.ts, and   *)
(* their counterparts in token_bucket_redis.go, which run the same script. *)
(*                                                                         *)
(* Redis runs a script atomically, so an evaluation is one step.  What is  *)
(* not atomic is the call: `now` is read from the clock of the calling     *)
(* node when the call is made, the script may run later, after calls made  *)
(* later, or more than once when the client library resends it.  The same  *)
(* goes for the seed of a node that warms Redis up: whatever the bucket    *)
(* holds by then is overwritten.                                           *)
(*                                                                         *)
(* Tokens are counted in fractions, Unit of them to the token, so that a   *)
(* refill of a fraction of a token per clock tick stays an integer.        *)
(***************************************************************************)
EXTENDS Naturals, FiniteSets

CONSTANTS
    Client,         \* the concurrent callers of consume, on any node
    Limit,          \* THROTTLE_GLOBAL_LIMIT, in tokens
    Unit,           \* fractions to the token
    Rate,           \* THROTTLE_REFILL_RATE, in fractions per tick
    Cost,           \* the costs callers ask for
    Views,          \* what a local bucket may hold when it seeds, in fractions
    MaxSkew,        \* the most one node's clock runs ahead of another's
    Skew,           \* how far the clock of a client's node runs ahead
    Resends,        \* whether the client library resends a call
    MaxTime,        \* bound: ticks of real time
    MaxLosses,      \* bound: times the key disappears
    MaxEvaluations, \* bound: times the script runs
    MaxSeeds,       \* bound: seeds under way at once
    MaxSeeded       \* bound: fractions seeded, all in all

ASSUME BucketAssumption ==
    /\ Limit \in Nat
    /\ Unit \in Nat
    /\ Rate \in Nat
    /\ Cost \subseteq Nat
    /\ Views \subseteq 0 .. Limit * Unit
    /\ MaxSkew \in Nat
    /\ Skew \in [Client -> 0 .. MaxSkew]
    /\ Resends \in BOOLEAN
    /\ MaxTime \in Nat
    /\ MaxLosses \in Nat
    /\ MaxEvaluations \in Nat
    /\ MaxSeeds \in Nat
    /\ MaxSeeded \in Nat

VARIABLES
    time,           \* real time
    exists,         \* whether Redis holds the key
    tokens,         \* its field `tokens`
    lastRefill,     \* its field `last_refill`
    inFlight,       \* the clients whose call may still reach Redis
    sentAt,         \* the `now` argument of a client's call
    sentCost,       \* the `cost` argument of a client's call
    seeding,        \* the seeds under way, as <<timestamp, tokens>>
    seeded,         \* history: fractions written by all seeds
    granted,        \* history: fractions granted by all evaluations
    lastNow,        \* history: the `now` of the last evaluation
    advanced,       \* history: how far `now` moved forward, all in all
    losses,         \* history: times the key was lost
    evaluations     \* history: times the script ran

keyVars == <<exists, tokens, lastRefill>>
callVars == <<inFlight, sentAt, sentCost>>
historyVars == <<granted, lastNow, advanced, losses, evaluations>>
seedVars == <<seeding, seeded>>
vars == <<time, keyVars, callVars, seedVars, historyVars>>

Capacity == Limit * Unit

TypeOK ==
    /\ time \in Nat
    /\ exists \in BOOLEAN
    /\ tokens \in 0 .. Capacity
    /\ lastRefill \in Nat
    /\ inFlight \in SUBSET Client
    /\ sentAt \in [Client -> Nat]
    /\ sentCost \in [Client -> Cost \cup {0}]
    /\ seeding \in SUBSET (Nat \X (0 .. Capacity))
    /\ seeded \in Nat
    /\ granted \in Nat
    /\ lastNow \in Nat
    /\ advanced \in Nat
    /\ losses \in Nat
    /\ evaluations \in Nat

Init ==
    /\ time = 0
    /\ exists = FALSE
    /\ tokens = 0
    /\ lastRefill = 0
    /\ inFlight = {}
    /\ sentAt = [c \in Client |-> 0]
    /\ sentCost = [c \in Client |-> 0]
    /\ seeding = {}
    /\ seeded = 0
    /\ granted = 0
    /\ lastNow = 0
    /\ advanced = 0
    /\ losses = 0
    /\ evaluations = 0

-----------------------------------------------------------------------------
(* The script.                                                              *)

Smaller(a, b) == IF a < b THEN a ELSE b
Elapsed(from, to) == IF to > from THEN to - from ELSE 0

\* Mutant: the refill is not capped by the limit.
RefilledMutant(now) ==
    IF exists THEN tokens + Elapsed(lastRefill, now) * Rate ELSE Capacity

\* A missing key is a full bucket refilled just now.
Refilled(now) ==
    IF exists
    THEN Smaller(Capacity, tokens + Elapsed(lastRefill, now) * Rate)
    ELSE Capacity

\* Mutant: last_refill is written only when the key is created.
EvalStampMutant(now, cost) ==
    LET filled  == Refilled(now)
        allowed == filled >= cost * Unit
    IN  /\ evaluations < MaxEvaluations
        /\ evaluations' = evaluations + 1
        /\ exists' = TRUE
        /\ tokens' = IF allowed THEN filled - cost * Unit ELSE filled
        /\ lastRefill' = IF exists THEN lastRefill ELSE now
        /\ granted' = IF allowed THEN granted + cost * Unit ELSE granted
        /\ lastNow' = now
        /\ advanced' = advanced + Elapsed(lastNow, now)
        /\ UNCHANGED losses

\* tokens and last_refill are written whether or not the call is allowed, and
\* last_refill is set to `now` even when that moves it back.
Eval(now, cost) ==
    LET filled  == Refilled(now)
        allowed == filled >= cost * Unit
    IN  /\ evaluations < MaxEvaluations
        /\ evaluations' = evaluations + 1
        /\ exists' = TRUE
        /\ tokens' = IF allowed THEN filled - cost * Unit ELSE filled
        /\ lastRefill' = now
        /\ granted' = IF allowed THEN granted + cost * Unit ELSE granted
        /\ lastNow' = now
        /\ advanced' = advanced + Elapsed(lastNow, now)
        /\ UNCHANGED losses

-----------------------------------------------------------------------------
(* The calls.                                                               *)

\* The arguments of a call that is over mean nothing any more.
Forget(c) ==
    /\ inFlight' = inFlight \ {c}
    /\ sentAt' = [sentAt EXCEPT ![c] = 0]
    /\ sentCost' = [sentCost EXCEPT ![c] = 0]

\* Consume reads the clock of its node and sends the script.
Send(c, cost) ==
    /\ c \notin inFlight
    /\ inFlight' = inFlight \cup {c}
    /\ sentAt' = [sentAt EXCEPT ![c] = time + Skew[c]]
    /\ sentCost' = [sentCost EXCEPT ![c] = cost]
    /\ UNCHANGED <<time, keyVars, seedVars, historyVars>>

\* The script runs and its reply reaches the client.
Evaluate(c) ==
    /\ c \in inFlight
    /\ Eval(sentAt[c], sentCost[c])
    /\ Forget(c)
    /\ UNCHANGED <<time, seedVars>>

\* The script runs, its reply is lost, and the client library resends it.
EvaluateAndResend(c) ==
    /\ Resends
    /\ c \in inFlight
    /\ Eval(sentAt[c], sentCost[c])
    /\ UNCHANGED <<time, callVars, seedVars>>

\* The call ends in an error; the caller falls back to its local bucket.
Fail(c) ==
    /\ c \in inFlight
    /\ Forget(c)
    /\ UNCHANGED <<time, keyVars, seedVars, historyVars>>

-----------------------------------------------------------------------------
(* The warm-up.                                                             *)

\* seedFromSnapshot on the node of a client reads its clock and sends the
\* pipeline with what the local bucket held some time ago.
SendSeed(c, view) ==
    /\ Cardinality(seeding) < MaxSeeds
    /\ seeding' = seeding \cup {<<time + Skew[c], view>>}
    /\ UNCHANGED <<time, keyVars, callVars, seeded, historyVars>>

\* Mutant: the seed fills the bucket, whatever the local bucket held.
SeedMutant(now, view) ==
    /\ seeded + view <= MaxSeeded
    /\ seeded' = seeded + view
    /\ exists' = TRUE
    /\ tokens' = Capacity
    /\ lastRefill' = now
    /\ lastNow' = now
    /\ advanced' = advanced + Elapsed(lastNow, now)
    /\ UNCHANGED <<time, callVars, granted, losses, evaluations>>

\* HMSET of the pipeline, which asks nothing of the key it overwrites.
Seed(now, view) ==
    /\ seeded + view <= MaxSeeded
    /\ seeded' = seeded + view
    /\ exists' = TRUE
    /\ tokens' = view
    /\ lastRefill' = now
    /\ lastNow' = now
    /\ advanced' = advanced + Elapsed(lastNow, now)
    /\ UNCHANGED <<time, callVars, granted, losses, evaluations>>

Apply(seed) ==
    /\ Seed(seed[1], seed[2])
    /\ seeding' = seeding \ {seed}

\* The pipeline runs, its reply is lost, and the client library resends it.
ApplyAndResend(seed) ==
    /\ Resends
    /\ Seed(seed[1], seed[2])
    /\ UNCHANGED seeding

\* The pipeline does not reach Redis.
Drop(seed) ==
    /\ seeding' = seeding \ {seed}
    /\ UNCHANGED <<time, keyVars, callVars, seeded, historyVars>>

SeedStep(seed) == Apply(seed) \/ ApplyAndResend(seed) \/ Drop(seed)

-----------------------------------------------------------------------------

\* The key goes: its hour of EXPIRE is over, Redis evicts it (allkeys-lru) or
\* restarts without it.
Lose ==
    /\ exists
    /\ losses < MaxLosses
    /\ exists' = FALSE
    /\ tokens' = 0
    /\ lastRefill' = 0
    /\ losses' = losses + 1
    /\ UNCHANGED <<time, callVars, seedVars, granted, lastNow, advanced, evaluations>>

Tick ==
    /\ time < MaxTime
    /\ time' = time + 1
    /\ UNCHANGED <<keyVars, callVars, seedVars, historyVars>>

Next ==
    \/ \E c \in Client :
        \/ \E cost \in Cost : Send(c, cost)
        \/ Evaluate(c)
        \/ EvaluateAndResend(c)
        \/ Fail(c)
        \/ \E view \in Views : SendSeed(c, view)
    \/ \E seed \in seeding : SeedStep(seed)
    \/ Lose
    \/ Tick

Spec == Init /\ [][Next]_vars

-----------------------------------------------------------------------------

\* What the bucket could grant at once, were it asked now.
Held == IF exists THEN tokens ELSE Capacity

(***************************************************************************)
(* On any network and with any clocks, what was granted and what is still  *)
(* held never exceed a full bucket per life of the key, what seeds wrote,  *)
(* and the refill for the time the evaluations saw pass: no token is       *)
(* granted twice, whichever calls the script denies, repeats or runs late, *)
(* and two nodes that warm Redis up forgive no more than they write.       *)
(***************************************************************************)
GrantsAreCovered ==
    granted + Held <= Capacity * (1 + losses) + seeded + Rate * advanced

\* `now` has never moved back: moving forward, it has come as far as it is.
InOrder == advanced = lastNow

(***************************************************************************)
(* The quota an operator configures: up to a time, all nodes together are  *)
(* granted one full bucket (one more for each loss of the key, and what    *)
(* seeds wrote) and the refill for the real time that has passed, give or  *)
(* take the skew of the clocks once.                                       *)
(***************************************************************************)
QuotaEnforced ==
    granted <= Capacity * (1 + losses) + seeded + Rate * (time + MaxSkew)

(***************************************************************************)
(* The quota holds as long as no call is evaluated after one with a later  *)
(* timestamp, however calls are delayed, resent, denied or lost.           *)
(***************************************************************************)
QuotaInOrder == InOrder => QuotaEnforced

=============================================================================
