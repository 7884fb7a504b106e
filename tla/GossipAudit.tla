----------------------------- MODULE GossipAudit -----------------------------
(***************************************************************************)
(* PeerGossip with a ledger kept beside it, to state what the repository   *)
(* promises of the gossip.  Observe constrains no step of the nodes: it    *)
(* only writes down what the step did.                                     *)
(***************************************************************************)
EXTENDS PeerGossip, Functions

VARIABLES
    begun,      \* granted by all nodes when a node's syncOnce began, 0 when a
                \* node had no entry yet for it to merge into
    settled,    \* granted by all before the last complete syncOnce began
    largest     \* the most granted from the begin of one complete syncOnce
                \* to the end of the next

auditVars == <<begun, settled, largest>>

Total == FoldFunction(+, 0, granted)

Greater(x, y) == IF x > y THEN x ELSE y

AuditInit ==
    /\ Init
    /\ begun = [n \in Node |-> 0]
    /\ settled = 0
    /\ largest = 0

\* A syncOnce begins with its snapshot; it is complete when the answer of its
\* last peer is merged, with no call of it given up on the way.  Windows run
\* from the begin of one to the end of the next and so overlap: what is granted
\* between two merges lies within one of them.
Begins(n) == todo[n] = {} /\ todo'[n] # {}
Completes(n) == phase[n] = "answered" /\ phase'[n] = "idle" /\ linkUp /\ todo'[n] = {}

Observe ==
    /\ begun' = [n \in Node |->
            IF ~Begins(n) THEN begun[n] ELSE IF known = Node THEN Total ELSE 0]
    /\ IF \E n \in Node : Completes(n)
       THEN \E n \in Node :
                /\ Completes(n)
                /\ settled' = Greater(settled, begun[n])
                /\ largest' = Greater(largest, Total - settled)
       ELSE UNCHANGED <<settled, largest>>

AuditSpec == AuditInit /\ [][Next /\ Observe]_<<vars, auditVars>>

-----------------------------------------------------------------------------

(***************************************************************************)
(* What peer_sync.go:21 says, "Overshoot window: at most 100ms worth of    *)
(* requests": all nodes together never exceed the global limit and the     *)
(* refill by more than was granted from the begin of one complete sync to  *)
(* the end of the next, the time before the first and since the last       *)
(* included.                                                               *)
(***************************************************************************)
OvershootWindow ==
    Total <= Capacity + Rate * time + Greater(largest, Total - settled)

=============================================================================
