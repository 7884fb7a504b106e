----------------------------- MODULE LocalBucket -----------------------------
(***************************************************************************)
(* The in-memory token buckets of both services: consume, getSnapshot and  *)
(* mergePeerSnapshot of fallback/local-bucket.fallback.ts, which run to    *)
(* their end on one event loop, and their Go counterparts in               *)
(* local_bucket.go, which hold lb.mu throughout: each is one step.         *)
(*                                                                         *)
(* A Node owns one bucket.  Entities do not touch each other's entries, so *)
(* either one entity is followed on several servers, or several entities   *)
(* on one server.                                                          *)
(*                                                                         *)
(* Tokens are counted in fractions, Unit of them to the token, so that a   *)
(* refill of a fraction of a token per clock tick stays an integer.  The   *)
(* clock does not step back; it is the same for every node, because a node *)
(* only ever subtracts its own readings from each other.                   *)
(***************************************************************************)
EXTENDS Naturals

CONSTANTS
    Node,           \* the owners of the buckets
    GlobalLimit,    \* THROTTLE_GLOBAL_LIMIT, in tokens
    Limits,         \* the limits callers pass: global, or divided by the nodes
    Unit,           \* fractions to the token
    Rate,           \* THROTTLE_REFILL_RATE, in fractions per tick
    StaleAge,       \* the age at which an untouched entry is stale, 1h, in ticks
    MaxTime         \* bound: ticks of real time

ASSUME LocalBucketAssumption ==
    /\ GlobalLimit \in Nat
    /\ Limits \subseteq 0 .. GlobalLimit
    /\ Unit \in Nat \ {0}
    /\ Rate \in Nat
    /\ StaleAge \in Nat
    /\ MaxTime \in Nat

VARIABLES
    time,           \* the clock
    known,          \* the nodes whose map has an entry for the entity
    tokens,         \* e.tokens
    lastRefill,     \* e.lastRefill
    granted,        \* history: fractions granted by each node
    forgiven        \* history: fractions given back, with entries that were lost
                    \* or by whoever overwrote the bucket

bucketVars == <<known, tokens, lastRefill>>
ledgerVars == <<granted, forgiven>>

Capacity == GlobalLimit * Unit

BucketTypeOK ==
    /\ time \in Nat
    /\ known \in SUBSET Node
    /\ tokens \in [Node -> 0 .. Capacity]
    /\ lastRefill \in [Node -> Nat]
    /\ granted \in [Node -> Nat]
    /\ forgiven \in [Node -> Nat]

BucketInit ==
    /\ time = 0
    /\ known = {}
    /\ tokens = [n \in Node |-> 0]
    /\ lastRefill = [n \in Node |-> 0]
    /\ granted = [n \in Node |-> 0]
    /\ forgiven = [n \in Node |-> 0]

-----------------------------------------------------------------------------

Least(a, b) == IF a < b THEN a ELSE b

\* What Consume finds in the bucket: a new entry is full and refilled now.
Filled(n, limit) ==
    IF n \in known
    THEN Least(limit * Unit, tokens[n] + (time - lastRefill[n]) * Rate)
    ELSE limit * Unit

\* Mutant: the refill is credited and its time is not written back.
ConsumeMutant(n, cost, limit) ==
    LET allowed == Filled(n, limit) >= cost * Unit
    IN  /\ known' = known \cup {n}
        /\ tokens' = [tokens EXCEPT ![n] =
                        IF allowed THEN Filled(n, limit) - cost * Unit ELSE Filled(n, limit)]
        /\ lastRefill' = [lastRefill EXCEPT ![n] = IF n \in known THEN @ ELSE time]
        /\ granted' = [granted EXCEPT ![n] = IF allowed THEN @ + cost * Unit ELSE @]
        /\ UNCHANGED <<time, forgiven>>

\* Mutant: a denied request is charged too.
ConsumeDebitMutant(n, cost, limit) ==
    LET allowed == Filled(n, limit) >= cost * Unit
    IN  /\ known' = known \cup {n}
        /\ tokens' = [tokens EXCEPT ![n] = Filled(n, limit) - cost * Unit]
        /\ lastRefill' = [lastRefill EXCEPT ![n] = time]
        /\ granted' = [granted EXCEPT ![n] = IF allowed THEN @ + cost * Unit ELSE @]
        /\ UNCHANGED <<time, forgiven>>

\* A denied call, and one that costs nothing, refills the bucket too.
Consume(n, cost, limit) ==
    LET allowed == Filled(n, limit) >= cost * Unit
    IN  /\ known' = known \cup {n}
        /\ tokens' = [tokens EXCEPT ![n] =
                        IF allowed THEN Filled(n, limit) - cost * Unit ELSE Filled(n, limit)]
        /\ lastRefill' = [lastRefill EXCEPT ![n] = time]
        /\ granted' = [granted EXCEPT ![n] = IF allowed THEN @ + cost * Unit ELSE @]
        /\ UNCHANGED <<time, forgiven>>

\* Mutant: the age of the service, not of the entry.
StaleMutant(n) == n \in known /\ time >= StaleAge

\* An entry untouched for an hour is evicted by the next Snapshot.
Stale(n) == n \in known /\ time - lastRefill[n] >= StaleAge

\* What Snapshot reports of the entry: its tokens as they are, not refilled.
\* An entity without an entry is left out; it merges like a full bucket.
View(n) == IF n \in known /\ ~Stale(n) THEN tokens[n] ELSE Capacity

\* What is missing from node n's bucket, which a loss of its entry gives back.
Missing(n) == Capacity - Filled(n, GlobalLimit)

\* Snapshot() on node n; the caller keeps View(n).
Snapshot(n) ==
    /\ known' = IF Stale(n) THEN known \ {n} ELSE known
    /\ forgiven' = [forgiven EXCEPT ![n] = IF Stale(n) THEN @ + Missing(n) ELSE @]
    /\ UNCHANGED <<time, tokens, lastRefill, granted>>

\* Mutant: the peer's view replaces the node's own.
MergePeerMutant(n, view) ==
    /\ tokens' = IF n \in known THEN [tokens EXCEPT ![n] = view] ELSE tokens
    /\ UNCHANGED <<time, known, lastRefill, ledgerVars>>

\* MergePeer: minimum wins, no entry is created and lastRefill stays.
MergePeer(n, view) ==
    /\ tokens' = IF n \in known
                 THEN [tokens EXCEPT ![n] = Least(@, view)]
                 ELSE tokens
    /\ UNCHANGED <<time, known, lastRefill, ledgerVars>>

\* What is put into node n's bucket when it is overwritten.
Surplus(n, view) ==
    IF view > Filled(n, GlobalLimit) THEN view - Filled(n, GlobalLimit) ELSE 0

\* The bucket is overwritten with tokens counted elsewhere, as from now: what
\* was in it does not matter, and what this gives back is written down.
Seed(n, view) ==
    /\ known' = known \cup {n}
    /\ tokens' = [tokens EXCEPT ![n] = view]
    /\ lastRefill' = [lastRefill EXCEPT ![n] = time]
    /\ forgiven' = [forgiven EXCEPT ![n] = @ + Surplus(n, view)]
    /\ UNCHANGED <<time, granted>>

Tick ==
    /\ time < MaxTime
    /\ time' = time + 1
    /\ UNCHANGED <<bucketVars, ledgerVars>>

-----------------------------------------------------------------------------

(***************************************************************************)
(* What a node has granted and could grant now is covered by one full      *)
(* bucket, the refill until now and what was given back with entries that  *)
(* were lost: nothing a peer sends, however late or stale, puts tokens     *)
(* into a bucket, and no cost, peek or change of the limit does.           *)
(***************************************************************************)
NodeGrantsCovered ==
    \A n \in Node :
        granted[n] + Filled(n, GlobalLimit) <= Capacity + forgiven[n] + Rate * time

(***************************************************************************)
(* The promise of a token bucket ("Tokens refill at REFILL_RATE per second *)
(* up to the cap", token-bucket.strategy.ts:15): refilled on demand from   *)
(* the time of the last call, with entries made and evicted and lowered by *)
(* peers, a bucket grants only what one refilled with every tick could.    *)
(***************************************************************************)
Credit == [n \in Node |-> Filled(n, GlobalLimit)]

Quota == INSTANCE TokenQuota WITH credit <- Credit

ImplementsQuota == Quota!Spec

(***************************************************************************)
(* The eviction of an idle entry, which comes back full, gives no token    *)
(* away when the bucket refills within the hour an entry stays: nothing is *)
(* missing from an entry that may be evicted.                              *)
(***************************************************************************)
EvictionIsFree ==
    Rate * StaleAge >= Capacity => \A n \in Node : Stale(n) => Missing(n) = 0

=============================================================================
