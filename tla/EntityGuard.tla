----------------------------- MODULE EntityGuard -----------------------------
(***************************************************************************)
(* What clients see of the NestJS service: guards/entity-throttle.guard.ts *)
(* with the facade it calls (throttle.service.ts), the peek of             *)
(* demo.controller.ts, and the load of k6/throttle-load-test.js.           *)
(*                                                                         *)
(* Each entity has one bucket in Redis and one in the memory of each       *)
(* server, all with the arithmetic of LocalBucket.  Which server a request *)
(* reaches is the load balancer's choice; which of the server's buckets it *)
(* is charged to, and with which limit, is its manager's (NestManager),    *)
(* and either may change from one request to the next.  Requests are not   *)
(* all that writes to these buckets: servers merge what their peers show   *)
(* them, a server that finds Redis back seeds it with what its own buckets *)
(* show, and Redis may charge a call whose answer was lost.                *)
(* The loss of a key before its hour, RedisTokenBucket's, leaves what a    *)
(* seed of a full bucket leaves.                                           *)
(*                                                                         *)
(* Calls reach Redis in order; RedisTokenBucket says what happens when     *)
(* they do not.  The guard awaits the check and reads the clock again      *)
(* afterwards, to turn the time of the reset into the seconds of           *)
(* Retry-After.                                                            *)
(***************************************************************************)
EXTENDS LocalBucket, Integers

CONSTANTS
    Client,         \* who sends requests
    Header,         \* x-entity-id of a client's requests, or None
    User,           \* the entity of the client's JWT, or None
    Query,          \* ?entity_id= of a client's requests, or None
    None,           \* stands for a field that is missing
    Server,         \* the servers that follow clients here
    Views,          \* what the bucket of a server may show, in fractions
    Pace,           \* ticks a client leaves between its requests, at least
    Share,          \* perNodeLimit, in tokens
    Second,         \* ticks to the second
    MaxWrites       \* bound: writes to a bucket by others than checks

Anonymous == "anonymous"
Place == {"redis"} \cup Server

\* Entity ID resolution: header > JWT > query param.
EntityId(c) ==
    CASE Header[c] # None -> Header[c]
      [] Header[c] = None /\ User[c] # None -> User[c]
      [] Header[c] = None /\ User[c] = None /\ Query[c] # None -> Query[c]
      [] OTHER -> Anonymous

Entity == {EntityId(c) : c \in Client}

\* A share of no token admits nothing, ever, and no Retry-After would do.
ASSUME GuardAssumption ==
    /\ "redis" \notin Server
    /\ Node = Place \X Entity
    /\ {Share, GlobalLimit} \subseteq Limits
    /\ Share \in Nat \ {0}
    /\ Views \subseteq 0 .. Capacity
    /\ Rate \in Nat \ {0}
    /\ Pace \in [Client -> Nat]
    /\ Second \in Nat \ {0}
    /\ MaxWrites \in Nat

VARIABLES
    phase,          \* of a client: idle; denied, the guard not yet resumed;
                    \* told: 429 and Retry-After are sent
    answer,         \* to a client that was denied: by which bucket, and until
                    \* when; resetAt first, the end of Retry-After once told
    pause,          \* ticks a client still leaves before its next request
    taken,          \* history: the places where others took tokens from the
                    \* client's entity since its last request
    writes          \* writes to a bucket by others than checks

guardVars == <<phase, answer, pause>>
vars == <<time, bucketVars, ledgerVars, guardVars, taken, writes>>

\* Redis; the server's own bucket in PEER mode or because Redis failed; its
\* own bucket in LOCAL mode.
Route ==
    {<<"redis", GlobalLimit>>}
        \cup {<<server, GlobalLimit>> : server \in Server}
        \cup {<<server, Share>> : server \in Server}

Phase == {"idle", "denied", "told"}
Answer == [place : Place, until : Nat]
NoAnswer == [until |-> 0]

GuardTypeOK ==
    /\ BucketTypeOK
    /\ phase \in [Client -> Phase]
    /\ answer \in [Client -> Answer \cup {NoAnswer}]
    /\ pause \in [Client -> Nat]
    /\ taken \in [Client -> SUBSET Place]
    /\ writes \in 0 .. MaxWrites
    /\ \A c \in Client : phase[c] = "idle" <=> answer[c] = NoAnswer

Init ==
    /\ BucketInit
    /\ phase = [c \in Client |-> "idle"]
    /\ answer = [c \in Client |-> NoAnswer]
    /\ pause = [c \in Client |-> 0]
    /\ taken = [c \in Client |-> {}]
    /\ writes = 0

\* The others of the bucket's entity see what was taken from it.
Seen(bucket) ==
    [c \in Client |-> IF EntityId(c) = bucket[2] THEN taken[c] \cup {bucket[1]} ELSE taken[c]]

-----------------------------------------------------------------------------

\* Math.ceil(x / y).
Ceil(x, y) == -((-x) \div y)

\* How many seconds it takes to refill fractions.
SecondsFor(fractions) == Ceil(fractions, Rate * Second)

\* resetAt of a check that is denied: a server's bucket says when one token is
\* there, Redis when the bucket is full, counted in whole tokens.
ResetAt(bucket, limit) ==
    time + Second *
        IF bucket[1] = "redis"
        THEN SecondsFor((limit - Filled(bucket, limit) \div Unit) * Unit)
        ELSE SecondsFor(Unit - Filled(bucket, limit))

\* canActivate up to the end of its await: check(entityId) at a cost of one.
\* A request that is allowed goes on to its handler.
Check(c, route) ==
    LET bucket == <<route[1], EntityId(c)>>
        limit == route[2]
        allowed == Filled(bucket, limit) >= Unit
        seen == IF allowed THEN Seen(bucket) ELSE taken
    IN  /\ phase[c] # "denied"
        /\ pause[c] = 0
        /\ Consume(bucket, 1, limit)
        /\ pause' = [pause EXCEPT ![c] = Pace[c]]
        /\ phase' = [phase EXCEPT ![c] = IF allowed THEN "idle" ELSE "denied"]
        /\ answer' = [answer EXCEPT ![c] =
                IF allowed THEN NoAnswer
                ELSE [place |-> route[1], until |-> ResetAt(bucket, limit)]]
        /\ taken' = [seen EXCEPT ![c] = {}]
        /\ UNCHANGED writes

\* Mutant: Math.floor, where the guard computes Retry-After.
RetryAfterMutant(resetAt) == (resetAt - time) \div Second

\* Zero or less when the guard resumes only after the reset.
RetryAfter(resetAt) == Ceil(resetAt - time, Second)

\* The rest of canActivate on a denial: 429 with Retry-After.
Respond(c) ==
    /\ phase[c] = "denied"
    /\ phase' = [phase EXCEPT ![c] = "told"]
    /\ answer' = [answer EXCEPT ![c].until = time + RetryAfter(@) * Second]
    /\ UNCHANGED <<time, bucketVars, ledgerVars, pause, taken, writes>>

\* One more write that is not the check of a request.
Meddle ==
    /\ writes < MaxWrites
    /\ writes' = writes + 1

\* Mutant: the peek has the default cost of a check.
PeekMutant(entity, route) ==
    /\ Meddle
    /\ Consume(<<route[1], entity>>, 1, route[2])
    /\ UNCHANGED <<guardVars, taken>>

\* GET /demo/check: a check that costs nothing, of any entity, by anyone.
Peek(entity, route) ==
    /\ Meddle
    /\ Consume(<<route[1], entity>>, 0, route[2])
    /\ UNCHANGED <<guardVars, taken>>

\* An entry is gone when it has not been used for an hour, in either place.
Expire(bucket) ==
    /\ Stale(bucket)
    /\ Snapshot(bucket)
    /\ UNCHANGED <<guardVars, taken, writes>>

\* A server is shown a peer's bucket, by its own call or by the peer's.
Merge(bucket, view) ==
    /\ bucket[1] \in Server
    /\ Meddle
    /\ MergePeer(bucket, view)
    /\ taken' = IF bucket \in known /\ view < tokens[bucket] THEN Seen(bucket) ELSE taken
    /\ UNCHANGED guardVars

\* A server that found Redis back overwrites the entity's bucket with what its
\* own showed, up to three seconds ago.
WarmUp(entity, view) ==
    LET bucket == <<"redis", entity>>
    IN  /\ Meddle
        /\ Seed(bucket, view)
        /\ taken' = IF view < Filled(bucket, GlobalLimit) THEN Seen(bucket) ELSE taken
        /\ UNCHANGED guardVars

\* The script runs for a call that was answered before, or never is: the client
\* library resent it, or the request it came from went to a local bucket.
Resend(entity) ==
    LET bucket == <<"redis", entity>>
    IN  /\ Meddle
        /\ Consume(bucket, 1, GlobalLimit)
        /\ taken' = IF Filled(bucket, GlobalLimit) >= Unit THEN Seen(bucket) ELSE taken
        /\ UNCHANGED guardVars

TimePasses ==
    /\ Tick
    /\ pause' = [c \in Client |-> IF pause[c] = 0 THEN 0 ELSE pause[c] - 1]
    /\ UNCHANGED <<phase, answer, taken, writes>>

Next ==
    \/ \E c \in Client, route \in Route : Check(c, route)
    \/ \E c \in Client : Respond(c)
    \/ \E entity \in Entity, route \in Route : Peek(entity, route)
    \/ \E bucket \in Node : Expire(bucket)
    \/ \E bucket \in Node, view \in Views : Merge(bucket, view)
    \/ \E entity \in Entity, view \in Views : WarmUp(entity, view)
    \/ \E entity \in Entity : Resend(entity)
    \/ TimePasses

Spec == Init /\ [][Next]_vars

-----------------------------------------------------------------------------

(***************************************************************************)
(* A client that was denied and waits for its Retry-After finds a token in *)
(* the bucket that denied it, with either limit, unless tokens were taken  *)
(* from that bucket meanwhile: granted to another client, charged by a     *)
(* resent call, or lowered by a peer's view or a seed.  However late the   *)
(* guard resumes, whoever peeks or is denied in between, and whatever was  *)
(* rounded on the way ("Returns 429 with Retry-After header on throttle",  *)
(* entity-throttle.guard.ts:23).  Of another bucket it says nothing: the   *)
(* client may be sent to one that is empty.                                *)
(***************************************************************************)
RetryAfterSuffices ==
    \A c \in Client, route \in Route :
        /\ phase[c] = "told"
        /\ time >= answer[c].until
        /\ route[1] = answer[c].place
        /\ route[1] \notin taken[c]
        => Filled(<<route[1], EntityId(c)>>, route[2]) >= Unit

(***************************************************************************)
(* "entity_A throttled # entity_B affected" (entity-throttle.guard.ts:24): *)
(* a client that asks no faster than a token is refilled is denied only by *)
(* a bucket that tokens were taken from, for its own entity and since its  *)
(* last request.  What others do to their entities does not matter, nor    *)
(* what they peek, what is evicted, and where and with which limit the     *)
(* client was charged before.  k6 says more, "entity_003_blocked_MUST_BE_  *)
(* ZERO", which a seed, a peer's view or a resent call may disappoint.     *)
(***************************************************************************)
DeniedOnlyWhenTaken ==
    [][\A c \in Client :
            /\ Rate * Pace[c] >= Unit
            /\ phase[c] # "denied"
            /\ phase'[c] = "denied"
            => answer'[c].place \in taken[c]]_vars

=============================================================================
