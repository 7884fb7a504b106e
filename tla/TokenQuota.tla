----------------------------- MODULE TokenQuota -----------------------------
(***************************************************************************)
(* What a token bucket promises ("Bucket starts full", "Tokens refill at   *)
(* REFILL_RATE per second up to the cap", token-bucket.strategy.ts:13-15), *)
(* with nothing of how it is kept: every tick puts the refill into every   *)
(* node's bucket at once, there are no entries that come and go, no        *)
(* timestamps and no messages.                                             *)
(*                                                                         *)
(* It says at most how much is granted: a bucket may lose tokens, and only *)
(* what is written down as forgiven is put back into one.                  *)
(***************************************************************************)
EXTENDS Naturals

CONSTANTS
    Node,       \* the owners of the buckets
    Capacity,   \* of one bucket, in fractions
    Rate        \* fractions that every tick refills

VARIABLES
    time,       \* the clock
    credit,     \* what each node could grant now
    granted,    \* fractions granted by each node
    forgiven    \* fractions put back into its bucket

quotaVars == <<time, credit, granted, forgiven>>

Init ==
    /\ time = 0
    /\ credit = [n \in Node |-> Capacity]
    /\ granted = [n \in Node |-> 0]
    /\ forgiven = [n \in Node |-> 0]

\* The refill; what is beyond the capacity is lost.
Earn ==
    /\ time' = time + 1
    /\ credit' = [n \in Node |->
                    IF credit[n] + Rate < Capacity THEN credit[n] + Rate ELSE Capacity]
    /\ UNCHANGED <<granted, forgiven>>

\* What is granted, and maybe more, leaves the bucket.
Spend(n) ==
    \E cost \in 0 .. credit[n] :
        /\ granted' = [granted EXCEPT ![n] = @ + cost]
        /\ \E left \in 0 .. credit[n] - cost : credit' = [credit EXCEPT ![n] = left]
        /\ UNCHANGED <<time, forgiven>>

Forgive(n) ==
    \E amount \in 0 .. Capacity - credit[n] :
        /\ credit' = [credit EXCEPT ![n] = @ + amount]
        /\ forgiven' = [forgiven EXCEPT ![n] = @ + amount]
        /\ UNCHANGED <<time, granted>>

Next ==
    \/ Earn
    \/ \E n \in Node : Spend(n) \/ Forgive(n)

Spec == Init /\ [][Next]_quotaVars

-----------------------------------------------------------------------------

QuotaTypeOK ==
    /\ time \in Nat
    /\ credit \in [Node -> 0 .. Capacity]
    /\ granted \in [Node -> Nat]
    /\ forgiven \in [Node -> Nat]

=============================================================================
