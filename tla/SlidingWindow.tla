--------------------------- MODULE SlidingWindow ---------------------------
(***************************************************************************)
(* The sliding window of one entity in Redis: the Lua script and consume   *)
(* of strategies/sliding-window.strategy.ts.  A sorted set holds a member  *)
(* per granted request, with the request's timestamp as its score.         *)
(*                                                                         *)
(* Redis runs a script atomically, so an evaluation is one step.  The call *)
(* is not: its timestamp is read from the clock of the calling node, and   *)
(* it is evaluated any time later, after younger calls, or twice when the  *)
(* client library resends it.  Time is counted in seconds.                 *)
(*                                                                         *)
(* The script trusts these timestamps: it trims the set at `now`, and the  *)
(* key expires a second after the window, by the clock of Redis.  What it  *)
(* promises depends on them, so history variables keep how far they were   *)
(* off and whether the calls were evaluated in their order.                *)
(***************************************************************************)
EXTENDS Naturals, FiniteSets

CONSTANTS
    Request,    \* the calls, each with a request id of its own
    Limit,      \* THROTTLE_GLOBAL_LIMIT
    Window,     \* THROTTLE_WINDOW_MS
    Margin,     \* what the EXPIRE of the key adds to the window
    Skew,       \* how far the clock of a call's node runs ahead
    MaxSkew,    \* the most it does
    Resends,    \* whether the client library resends a call
    MaxTime     \* bound: seconds of real time

ASSUME WindowAssumption ==
    /\ Limit \in Nat
    /\ Window \in Nat
    /\ Margin \in Nat
    /\ MaxSkew \in Nat
    /\ Skew \in [Request -> 0 .. MaxSkew]
    /\ Resends \in BOOLEAN
    /\ MaxTime \in Nat

VARIABLES
    time,       \* real time
    entries,    \* the sorted set: <<score, member>>
    expiresAt,  \* when the key expires
    call,       \* where each call stands
    sentAt,     \* when it was made
    granted,    \* history: the grants since the key was last lost
    newest,     \* history: the newest timestamp evaluated since then
    ordered,    \* history: whether each was the newest when it was evaluated
    ahead,      \* history: the most a timestamp was ahead of its evaluation
    behind      \* history: the most one was behind it

keyVars == <<entries, expiresAt>>
callVars == <<call, sentAt>>
historyVars == <<granted, newest, ordered, ahead, behind>>
vars == <<time, keyVars, callVars, historyVars>>

Stamp == Nat \X Request

TypeOK ==
    /\ time \in 0 .. MaxTime
    /\ entries \in SUBSET Stamp
    /\ expiresAt \in Nat
    /\ call \in [Request -> {"new", "sent", "granted", "denied", "failed"}]
    /\ sentAt \in [Request -> 0 .. MaxTime]
    /\ granted \in SUBSET Stamp
    /\ newest \in Nat
    /\ ordered \in BOOLEAN
    /\ ahead \in Nat
    /\ behind \in Nat

Init ==
    /\ time = 0
    /\ entries = {}
    /\ expiresAt = 0
    /\ call = [r \in Request |-> "new"]
    /\ sentAt = [r \in Request |-> 0]
    /\ granted = {}
    /\ newest = 0
    /\ ordered = TRUE
    /\ ahead = 0
    /\ behind = 0

-----------------------------------------------------------------------------
(* The script.                                                              *)

Later(a, b) == IF a > b THEN a ELSE b

\* How far a exceeds b.
Excess(a, b) == IF a > b THEN a - b ELSE 0

\* An expired key is as good as an empty one.
Stored == IF time < expiresAt THEN entries ELSE {}

\* Mutant: a grant as old as the window still counts.
TrimmedMutant(now) == {e \in Stored : e[1] + Window >= now}

\* ZREMRANGEBYSCORE key -inf (now - windowMs)
Trimmed(now) == {e \in Stored : e[1] + Window > now}

\* The `now` argument of a call.
Now(r) == sentAt[r] + Skew[r]

\* Mutant: the request is counted before it is compared with the limit.
HasRoomMutant(r) == Cardinality(Trimmed(Now(r))) <= Limit

HasRoom(r) == Cardinality(Trimmed(Now(r))) < Limit

\* Mutant: score and member are swapped.
AddSwapMutant(r) ==
    /\ entries' = Trimmed(Now(r)) \cup {<<r, Now(r)>>}
    /\ expiresAt' = time + Window + Margin

\* Mutant: the key lives as long as the window and no longer.
AddMutant(r) ==
    /\ entries' = Trimmed(Now(r)) \cup {<<Now(r), r>>}
    /\ expiresAt' = time + Window

\* ZADD and EXPIRE.
Add(r) ==
    /\ entries' = Trimmed(Now(r)) \cup {<<Now(r), r>>}
    /\ expiresAt' = time + Window + Margin

\* A denied call trims the set too, but does not renew the EXPIRE.
Eval(r) ==
    /\ \/ /\ HasRoom(r)
          /\ Add(r)
          /\ granted' = granted \cup {<<Now(r), r>>}
       \/ /\ ~HasRoom(r)
          /\ entries' = Trimmed(Now(r))
          /\ UNCHANGED <<expiresAt, granted>>
    /\ newest' = Later(newest, Now(r))
    /\ ordered' = (ordered /\ Now(r) >= newest)
    /\ ahead' = Later(ahead, Excess(Now(r), time))
    /\ behind' = Later(behind, Excess(time, Now(r)))

-----------------------------------------------------------------------------
(* The calls.                                                               *)

Send(r) ==
    /\ call[r] = "new"
    /\ call' = [call EXCEPT ![r] = "sent"]
    /\ sentAt' = [sentAt EXCEPT ![r] = time]
    /\ UNCHANGED <<time, keyVars, historyVars>>

\* The timestamp of a call that is over means nothing any more.
Settle(r, how) ==
    /\ call' = [call EXCEPT ![r] = how]
    /\ sentAt' = [sentAt EXCEPT ![r] = 0]

\* The script runs and its reply reaches the node.
Evaluate(r) ==
    /\ call[r] = "sent"
    /\ Eval(r)
    /\ Settle(r, IF HasRoom(r) THEN "granted" ELSE "denied")
    /\ UNCHANGED time

\* The script runs, its reply is lost, and ioredis resends the call.
EvaluateAndResend(r) ==
    /\ Resends
    /\ call[r] = "sent"
    /\ Eval(r)
    /\ UNCHANGED <<time, callVars>>

\* The call ends in an error, evaluated or not.
Fail(r) ==
    /\ call[r] = "sent"
    /\ Settle(r, "failed")
    /\ UNCHANGED <<time, keyVars, historyVars>>

\* Redis evicts the key or restarts without it: history begins anew.
Lose ==
    /\ entries # {}
    /\ entries' = {}
    /\ granted' = {}
    /\ newest' = 0
    /\ ordered' = TRUE
    /\ ahead' = 0
    /\ behind' = 0
    /\ UNCHANGED <<time, expiresAt, callVars>>

Tick ==
    /\ time < MaxTime
    /\ time' = time + 1
    /\ UNCHANGED <<keyVars, callVars, historyVars>>

Next ==
    \/ \E r \in Request :
        \/ Send(r)
        \/ Evaluate(r)
        \/ EvaluateAndResend(r)
        \/ Fail(r)
    \/ Lose
    \/ Tick

Spec == Init /\ [][Next]_vars

-----------------------------------------------------------------------------

\* The timestamps strayed from real time by less than the EXPIRE allows for.
Punctual == ahead + behind <= Margin

\* And the calls were evaluated in the order of their timestamps.
Trusted == ordered /\ Punctual

(***************************************************************************)
(* No window holds more grants than the limit ("exact sliding window       *)
(* semantics", sliding-window.strategy.ts:9), whatever is resent, denied,  *)
(* trimmed or expires, as long as the calls were evaluated in the order of *)
(* their timestamps and these were off by no more than the second the      *)
(* EXPIRE adds.  Without either it is not so: clocks that disagree by a    *)
(* second put three grants into a window of two.                           *)
(***************************************************************************)
WindowQuota ==
    Trusted =>
        \A last \in granted :
            Cardinality({g \in granted : g[1] <= last[1] /\ last[1] < g[1] + Window}) <= Limit

(***************************************************************************)
(* In whatever order the calls are evaluated, no window that ends at the   *)
(* newest timestamp holds more grants than the limit: what an older call   *)
(* leaves in the set, adds to it or renews never makes room for a newer    *)
(* one.                                                                    *)
(***************************************************************************)
NewestWindowQuota ==
    Punctual => Cardinality({g \in granted : g[1] + Window > newest}) <= Limit

\* What a call was told.
Answer == [r \in Request |-> IF call[r] \in {"granted", "denied"} THEN call[r] ELSE "none"]

Limiter == INSTANCE WindowLimiter WITH
    Time <- 0 .. MaxTime + MaxSkew, granted <- granted, newest <- newest,
    trusted <- Trusted, answer <- Answer

(***************************************************************************)
(* As long as it can trust the timestamps, the script decides every        *)
(* request as if it remembered all grants for ever: neither what it trims  *)
(* at a call's own timestamp, nor the EXPIRE that only granted calls       *)
(* renew, ever lets one request too many through or turns one away that    *)
(* had room.                                                               *)
(***************************************************************************)
ImplementsLimiter == Limiter!Spec

=============================================================================
