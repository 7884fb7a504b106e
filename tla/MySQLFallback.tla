---------------------------- MODULE MySQLFallback ----------------------------
(***************************************************************************)
(* fallback/mysql-flush.service.ts and mysql_flush.go: the row of one      *)
(* entity in the table throttle_fallback, written by every server in LOCAL *)
(* mode and read by a server that restarts, over the buckets of            *)
(* LocalBucket.                                                            *)
(*                                                                         *)
(* A flush snapshots the bucket, reads the minute and sends an upsert it   *)
(* waits for.  In the Go service requests are served between the snapshot  *)
(* and the minute; in the NestJS service the one follows the other at      *)
(* once.  The interval of the NestJS service does not wait for the upsert: *)
(* upserts overlap, land late or in another order, or fail.  The key of a  *)
(* row is the entity and the minute of the flush, not the server: both     *)
(* servers write the same row.                                             *)
(*                                                                         *)
(* A server that restarts has lost its entry and seeds it from the row of  *)
(* the current minute.  Nothing calls seedFromMySQL in the NestJS service, *)
(* and the query may fail, so it may also start unseeded.  A row of the    *)
(* current minute has always been updated within the last two: that filter *)
(* of the query excludes nothing and is left out.                          *)
(***************************************************************************)
EXTENDS LocalBucket, FiniteSets

CONSTANTS
    Share,          \* what LOCAL mode leaves a server: the limit by the servers
    Minute,         \* ticks to the minute
    MaxUpserts,     \* bound: flushes and upserts under way
    MaxRestarts     \* bound: restarts, of all servers

ASSUME FallbackAssumption ==
    /\ Share \in 0 .. GlobalLimit
    /\ {Share, GlobalLimit} \subseteq Limits
    /\ Minute \in Nat \ {0}
    /\ MaxUpserts \in Nat
    /\ MaxRestarts \in Nat

VARIABLES
    flushing,       \* the servers whose timer is set: those in LOCAL mode
    row,            \* what the row of the current minute holds, if any
    taken,          \* the snapshots of flushes that have not read the minute
    upserts,        \* the upserts under way
    restarts,       \* how often servers restarted
    before          \* history: fractions each granted before the current minute

rowVars == <<row, taken, upserts>>
vars == <<time, bucketVars, ledgerVars, flushing, rowVars, restarts, before>>

\* What a flush took from a bucket: usedTokens, and, as history, of which
\* server and what its bucket had granted by then.
Taken == [usedTokens : 0 .. Share, by : Node, granted : Nat]

\* An upsert, and the row it leaves: a snapshot with its windowStart, and, as
\* history, what the bucket had granted when the minute was read.
Upsert == [snapshot : Taken, windowStart : Nat, stamped : Nat]
NoRow == [windowStart |-> 0]

FallbackTypeOK ==
    /\ BucketTypeOK
    /\ flushing \in SUBSET Node
    /\ row \in Upsert \cup {NoRow}
    /\ taken \in SUBSET Taken
    /\ upserts \in SUBSET Upsert
    /\ restarts \in Nat
    /\ before \in [Node -> Nat]

Init ==
    /\ BucketInit
    /\ flushing = {}
    /\ row = NoRow
    /\ taken = {}
    /\ upserts = {}
    /\ restarts = 0
    /\ before = [n \in Node |-> 0]

-----------------------------------------------------------------------------

\* getWindowStart: the minute, cut off.
WindowStart == time \div Minute

\* checkViaLocal, with the share of the server in LOCAL mode.
Check(n) ==
    /\ Consume(n, 1, IF n \in flushing THEN Share ELSE GlobalLimit)
    /\ UNCHANGED <<flushing, rowVars, restarts, before>>

StartFlush(n) ==
    /\ n \notin flushing
    /\ flushing' = flushing \cup {n}
    /\ UNCHANGED <<time, bucketVars, ledgerVars, rowVars, restarts, before>>

\* An upsert under way is not called back.
StopFlush(n) ==
    /\ n \in flushing
    /\ flushing' = flushing \ {n}
    /\ UNCHANGED <<time, bucketVars, ledgerVars, rowVars, restarts, before>>

\* Mutant: globalLimit instead of nodeLimit.
UsedTokensMutant(n) ==
    IF tokens[n] \div Unit < GlobalLimit THEN GlobalLimit - tokens[n] \div Unit ELSE 0

\* A fraction of a token counts as used, and a bucket above the share as full.
UsedTokens(n) ==
    IF tokens[n] \div Unit < Share THEN Share - tokens[n] \div Unit ELSE 0

\* flush() takes its snapshot.  A stale entry is evicted and not written.
Flush(n) ==
    /\ n \in flushing
    /\ Snapshot(n)
    /\ IF n \in known /\ ~Stale(n)
       THEN /\ Cardinality(taken) + Cardinality(upserts) < MaxUpserts
            /\ taken' = taken \cup {[usedTokens |-> UsedTokens(n), by |-> n,
                                     granted |-> granted[n]]}
       ELSE UNCHANGED taken
    /\ UNCHANGED <<flushing, row, upserts, restarts, before>>

\* It reads the minute and sends the upsert.
Send(t) ==
    /\ taken' = taken \ {t}
    /\ upserts' = upserts \cup {[snapshot |-> t, windowStart |-> WindowStart,
                                 stamped |-> granted[t.by]]}
    /\ UNCHANGED <<time, bucketVars, ledgerVars, flushing, row, restarts, before>>

\* Mutant: an upsert lands in the row of the minute it lands in.
LandMutant(u) ==
    /\ upserts' = upserts \ {u}
    /\ row' = u
    /\ UNCHANGED <<time, bucketVars, ledgerVars, flushing, taken, restarts, before>>

\* MySQL carries out an upsert.  The rows of other minutes are not read again.
Land(u) ==
    /\ upserts' = upserts \ {u}
    /\ row' = IF u.windowStart = WindowStart THEN u ELSE row
    /\ UNCHANGED <<time, bucketVars, ledgerVars, flushing, taken, restarts, before>>

\* An upsert fails; the error is logged and nothing tried again.
Fail(u) ==
    /\ upserts' = upserts \ {u}
    /\ UNCHANGED <<time, bucketVars, ledgerVars, flushing, row, taken, restarts, before>>

-----------------------------------------------------------------------------
(* Restarts.                                                                *)

\* A flush that has not sent its upsert is lost; one that has goes on.
Restart(n) ==
    /\ restarts < MaxRestarts
    /\ restarts' = restarts + 1
    /\ flushing' = flushing \ {n}
    /\ taken' = {t \in taken : t.by # n}
    /\ UNCHANGED <<time, granted, row, upserts, before>>

\* Without a row, or without asking for it, the bucket starts anew.
StartUnseeded(n) ==
    /\ Restart(n)
    /\ known' = known \ {n}
    /\ forgiven' = [forgiven EXCEPT ![n] = @ + Missing(n)]
    /\ UNCHANGED <<tokens, lastRefill>>

\* Never below zero: no more than the share is ever used.
Remaining(t) == Share - t.usedTokens

\* What a seed gives back: the grants since the snapshot of a row of its own;
\* all that is left in a row of the other server.
Forgives(n, t) ==
    IF t.by = n THEN granted[n] - t.granted ELSE Remaining(t) * Unit

\* Mutant: the bucket is seeded with the whole share.
StartSeededMutant(n) ==
    /\ Restart(n)
    /\ row # NoRow
    /\ known' = known \cup {n}
    /\ tokens' = [tokens EXCEPT ![n] = Share * Unit]
    /\ lastRefill' = [lastRefill EXCEPT ![n] = time]
    /\ forgiven' = [forgiven EXCEPT ![n] = @ + Forgives(n, row.snapshot)]

\* seedFromMySQL(): a call that costs nothing creates the entry, with what the
\* row leaves for its limit.
StartSeeded(n) ==
    /\ Restart(n)
    /\ row # NoRow
    /\ known' = known \cup {n}
    /\ tokens' = [tokens EXCEPT ![n] = Remaining(row.snapshot) * Unit]
    /\ lastRefill' = [lastRefill EXCEPT ![n] = time]
    /\ forgiven' = [forgiven EXCEPT ![n] = @ + Forgives(n, row.snapshot)]

-----------------------------------------------------------------------------

\* A new minute has no row yet.
TimePasses ==
    /\ Tick
    /\ IF WindowStart' = WindowStart
       THEN UNCHANGED <<row, before>>
       ELSE row' = NoRow /\ before' = granted
    /\ UNCHANGED <<flushing, taken, upserts, restarts>>

Next ==
    \/ \E n \in Node :
        \/ Check(n)
        \/ StartFlush(n)
        \/ StopFlush(n)
        \/ Flush(n)
        \/ StartUnseeded(n)
        \/ StartSeeded(n)
    \/ \E t \in taken : Send(t)
    \/ \E u \in upserts : Land(u) \/ Fail(u)
    \/ TimePasses

Spec == Init /\ [][Next]_vars

-----------------------------------------------------------------------------

(***************************************************************************)
(* A restart forgets no more than the row does ("prevents quota reset on   *)
(* server bounce", mysql-flush.service.ts:14): with a seed a server is     *)
(* given back its grants since the snapshot of the row, or what the other  *)
(* server left in it, and nothing beyond; a bucket anew only without a     *)
(* seed.  Failed, late and overtaking upserts and both servers' writing    *)
(* one row do not change this.                                             *)
(***************************************************************************)
RestartsAreCovered == NodeGrantsCovered

(***************************************************************************)
(* What a seed forgets of earlier minutes was granted while the flush that *)
(* wrote its row was between its snapshot and the minute: however late an  *)
(* upsert lands and whichever it overwrites, the row of a minute is of a   *)
(* flush that read the clock in that minute ("WHERE window_start = ?",     *)
(* mysql_flush.go:106).  In the NestJS service nothing is granted between  *)
(* the two, and a seed forgets nothing of earlier minutes.                 *)
(***************************************************************************)
SeedsRememberPastMinutes ==
    row # NoRow => before[row.snapshot.by] <= row.stamped

=============================================================================
