----------------------------- MODULE PeerGossip -----------------------------
(***************************************************************************)
(* The gossip of fallback/peer-sync.service.ts and peer_sync.go between    *)
(* the local buckets of LocalBucket: every 100ms a node snapshots its      *)
(* bucket and calls its peers one after the other with it; the peer's      *)
(* handler merges the snapshot, answers with its own, and the answer is    *)
(* merged.  Requests are served from the buckets meanwhile.                *)
(*                                                                         *)
(* A call is given up after 50ms.  Its request may then be lost, or be     *)
(* served later: `late` holds the views that may still be merged.  In the  *)
(* NestJS service the 50ms end with the head of the response: its body may *)
(* come later, when the next sync has begun, and is late in the same way.  *)
(* One peer, as in docker-compose.yml, leaves an overtaken sync nothing    *)
(* else to do.                                                             *)
(***************************************************************************)
EXTENDS LocalBucket, FiniteSets

CONSTANTS
    Overtakes,  \* whether the next sync overtakes a slow one (NestJS)
    MaxLate     \* bound: views still under way from calls given up

ASSUME GossipAssumption ==
    /\ Overtakes \in BOOLEAN
    /\ MaxLate \in Nat

VARIABLES
    phase,      \* where each node's sync goroutine stands
    todo,       \* the peers left in its sync, the one it is calling included
    callee,     \* the peer it is calling, itself when it calls none
    body,       \* the view it took at the start of its sync
    answer,     \* the view its callee answered with
    late,       \* <<node, view>> of calls given up but still under way
    linkUp,     \* environment: calls are answered within 50ms
    traffic     \* environment: clients still send requests

callVars == <<phase, todo, callee, body, answer>>
envVars == <<linkUp, traffic>>
vars == <<time, bucketVars, ledgerVars, callVars, late, envVars>>

\* call: the request is under way; merged: the handler has merged it;
\* answered: the answer is under way.
Phase == {"idle", "call", "merged", "answered"}

TypeOK ==
    /\ BucketTypeOK
    /\ phase \in [Node -> Phase]
    /\ todo \in [Node -> SUBSET Node]
    /\ callee \in [Node -> Node]
    /\ body \in [Node -> 0 .. Capacity]
    /\ answer \in [Node -> 0 .. Capacity]
    /\ late \in SUBSET (Node \X (0 .. Capacity))
    /\ linkUp \in BOOLEAN
    /\ traffic \in BOOLEAN

Init ==
    /\ BucketInit
    /\ phase = [n \in Node |-> "idle"]
    /\ todo = [n \in Node |-> {}]
    /\ callee = [n \in Node |-> n]
    /\ body = [n \in Node |-> Capacity]
    /\ answer = [n \in Node |-> Capacity]
    /\ late = {}
    /\ linkUp \in BOOLEAN
    /\ traffic = TRUE

-----------------------------------------------------------------------------
(* Requests, in PEER mode with the global limit, in LOCAL mode with the     *)
(* node's share of it.                                                      *)

Request(n, limit) ==
    /\ traffic
    /\ Consume(n, 1, limit)
    /\ UNCHANGED <<callVars, late, envVars>>

-----------------------------------------------------------------------------
(* syncWithPeers, and the handler it calls.                                 *)

\* The 100ms ticker: one snapshot for all peers of this turn.
SyncStart(n) ==
    /\ phase[n] = "idle"
    /\ todo[n] = {}
    /\ todo' = [todo EXCEPT ![n] = Node \ {n}]
    /\ body' = [body EXCEPT ![n] = View(n)]
    /\ Snapshot(n)
    /\ UNCHANGED <<phase, callee, answer, late, envVars>>

Call(n, p) ==
    /\ phase[n] = "idle"
    /\ p \in todo[n]
    /\ phase' = [phase EXCEPT ![n] = "call"]
    /\ callee' = [callee EXCEPT ![n] = p]
    /\ UNCHANGED <<time, bucketVars, ledgerVars, todo, body, answer, late, envVars>>

\* The snapshot means nothing any more once its last peer has it.
BodyAfter(n) ==
    IF todo[n] = {callee[n]} THEN [body EXCEPT ![n] = Capacity] ELSE body

\* The handler on the callee: first the merge ...
Deliver(n) ==
    /\ phase[n] = "call"
    /\ MergePeer(callee[n], body[n])
    /\ phase' = [phase EXCEPT ![n] = "merged"]
    /\ body' = BodyAfter(n)
    /\ UNCHANGED <<todo, callee, answer, late, envVars>>

\* ... then the snapshot, in a critical section of its own; in the NestJS
\* service nothing comes between the two.
Answer(n) ==
    /\ phase[n] = "merged"
    /\ answer' = [answer EXCEPT ![n] = View(callee[n])]
    /\ Snapshot(callee[n])
    /\ phase' = [phase EXCEPT ![n] = "answered"]
    /\ UNCHANGED <<todo, callee, body, late, envVars>>

\* The call is over: what it carried means nothing any more.
Hangup(n) ==
    /\ phase' = [phase EXCEPT ![n] = "idle"]
    /\ todo' = [todo EXCEPT ![n] = @ \ {callee[n]}]
    /\ callee' = [callee EXCEPT ![n] = n]
    /\ answer' = [answer EXCEPT ![n] = Capacity]
    /\ body' = BodyAfter(n)

MergeAnswer(n) ==
    /\ phase[n] = "answered"
    /\ MergePeer(n, answer[n])
    /\ Hangup(n)
    /\ UNCHANGED <<late, envVars>>

\* What a call given up may still bring about: the handler merges its request,
\* or the node the body of its answer.
Outstanding(n) ==
    \/ phase[n] = "call" /\ late' = late \cup {<<callee[n], body[n]>>}
    \/ phase[n] = "answered" /\ Overtakes /\ late' = late \cup {<<n, answer[n]>>}

\* The 50ms are over.  What is under way is lost or comes late.
GiveUp(n) ==
    /\ phase[n] # "idle"
    /\ ~linkUp
    /\ Hangup(n)
    /\ \/ UNCHANGED late
       \/ Cardinality(late) < MaxLate /\ Outstanding(n)
    /\ UNCHANGED <<time, bucketVars, ledgerVars, envVars>>

SyncStep(n) ==
    \/ SyncStart(n)
    \/ \E p \in Node : Call(n, p)
    \/ Deliver(n)
    \/ Answer(n)
    \/ MergeAnswer(n)
    \/ GiveUp(n)

-----------------------------------------------------------------------------

\* What was outstanding of a call that was given up is merged.
DeliverLate(call) ==
    /\ call \in late
    /\ MergePeer(call[1], call[2])
    /\ late' = late \ {call}
    /\ UNCHANGED <<callVars, envVars>>

LinkFlips ==
    /\ linkUp' = ~linkUp
    /\ UNCHANGED <<time, bucketVars, ledgerVars, callVars, late, traffic>>

TrafficEnds ==
    /\ traffic
    /\ traffic' = FALSE
    /\ UNCHANGED <<time, bucketVars, ledgerVars, callVars, late, linkUp>>

TimePasses ==
    /\ Tick
    /\ UNCHANGED <<callVars, late, envVars>>

Next ==
    \/ \E n \in Node : (\E limit \in Limits : Request(n, limit)) \/ SyncStep(n)
    \/ \E call \in late : DeliverLate(call)
    \/ LinkFlips
    \/ TrafficEnds
    \/ TimePasses

Spec == Init /\ [][Next]_vars

\* The ticker keeps firing, and a call ends, one way or the other.  Nothing
\* makes the link come up or a late request arrive.
Fairness == \A n \in Node : WF_vars(SyncStep(n))

FairSpec == Spec /\ Fairness

-----------------------------------------------------------------------------

(***************************************************************************)
(* Once clients are quiet and calls succeed, the nodes that hold a bucket  *)
(* for the entity come to agree on it and stay so ("Convergence time:      *)
(* 100ms (1 cycle)", peer_sync.go:20), whatever stale views are still      *)
(* under way from calls given up.                                          *)
(***************************************************************************)
BucketsConverge ==
    <>[](linkUp /\ ~traffic) => <>[](\A m, n \in known : tokens[m] = tokens[n])

=============================================================================
