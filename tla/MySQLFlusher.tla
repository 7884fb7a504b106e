---------------------------- MODULE MySQLFlusher ----------------------------
(***************************************************************************)
(* The life of the flush loops of go-throttle/throttle/mysql_flush.go.     *)
(* Start and Stop hold f.mu; they are called under the manager's modeMu,   *)
(* one at a time, each time the node enters or leaves LOCAL mode.  A loop  *)
(* runs without f.mu: each turn evaluates f.stopCh once, when it enters    *)
(* its select, and a channel replaced meanwhile is a channel it never saw. *)
(*                                                                         *)
(* Channels and loops are numbered by the Start that makes them; 0 is nil. *)
(* MaxStarts bounds the Starts of a behaviour.                             *)
(***************************************************************************)
EXTENDS Naturals

CONSTANT MaxStarts

ASSUME FlusherAssumption == MaxStarts \in Nat \ {0}

VARIABLES
    started,    \* f.running
    stopCh,     \* f.stopCh
    closed,     \* the channels Stop has closed
    loop,       \* where each loop goroutine stands
    watched     \* the channel a loop evaluated when it entered its select

flusherVars == <<started, stopCh, closed, loop, watched>>

Channel == 1 .. MaxStarts

\* none: not spawned; enter: about to evaluate f.stopCh; select: blocked;
\* flush: writing the snapshot; done: returned.
LoopPc == {"none", "enter", "select", "flush", "done"}

FlusherTypeOK ==
    /\ started \in BOOLEAN
    /\ stopCh \in Channel \cup {0}
    /\ closed \in SUBSET Channel
    /\ loop \in [Channel -> LoopPc]
    /\ watched \in [Channel -> Channel \cup {0}]

FlusherInit ==
    /\ started = FALSE
    /\ stopCh = 0
    /\ closed = {}
    /\ loop = [l \in Channel |-> "none"]
    /\ watched = [l \in Channel |-> 0]

-----------------------------------------------------------------------------

\* Mutant: a restart keeps the channel of the last run, already closed.
StartMutant ==
    /\ ~started
    /\ stopCh < MaxStarts
    /\ started' = TRUE
    /\ stopCh' = IF stopCh = 0 THEN 1 ELSE stopCh
    /\ loop' = [loop EXCEPT ![stopCh + 1] = "enter"]
    /\ UNCHANGED <<closed, watched>>

\* A Start while running returns at once and changes nothing.
Start ==
    /\ ~started
    /\ stopCh < MaxStarts
    /\ started' = TRUE
    /\ stopCh' = stopCh + 1
    /\ loop' = [loop EXCEPT ![stopCh + 1] = "enter"]
    /\ UNCHANGED <<closed, watched>>

\* Mutant: the flag is cleared, the channel left open.
StopMutant ==
    /\ started
    /\ started' = FALSE
    /\ UNCHANGED <<stopCh, closed, loop, watched>>

\* Mutant: Stop closes the channel without asking whether a loop runs.
StopUncheckedMutant ==
    /\ closed' = closed \cup {stopCh}
    /\ started' = FALSE
    /\ UNCHANGED <<stopCh, loop, watched>>

\* A Stop while not running returns at once and changes nothing.
Stop ==
    /\ started
    /\ closed' = closed \cup {stopCh}
    /\ started' = FALSE
    /\ UNCHANGED <<stopCh, loop, watched>>

\* The select statement evaluates its channels, without f.mu.
EnterSelect(l) ==
    /\ loop[l] = "enter"
    /\ loop' = [loop EXCEPT ![l] = "select"]
    /\ watched' = [watched EXCEPT ![l] = stopCh]
    /\ UNCHANGED <<started, stopCh, closed>>

\* ticker.C is received: also when the stop channel is closed as well, since
\* select picks at random among the cases that are ready.
Flush(l) ==
    /\ loop[l] = "select"
    /\ loop' = [loop EXCEPT ![l] = "flush"]
    /\ UNCHANGED <<started, stopCh, closed, watched>>

\* flush() returns; its SQL errors are logged and dropped.
Flushed(l) ==
    /\ loop[l] = "flush"
    /\ loop' = [loop EXCEPT ![l] = "enter"]
    /\ UNCHANGED <<started, stopCh, closed, watched>>

Exit(l) ==
    /\ loop[l] = "select"
    /\ watched[l] \in closed
    /\ loop' = [loop EXCEPT ![l] = "done"]
    /\ UNCHANGED <<started, stopCh, closed, watched>>

FlusherNext ==
    \/ Start
    \/ Stop
    \/ \E l \in Channel : EnterSelect(l) \/ Flush(l) \/ Flushed(l) \/ Exit(l)

FlusherSpec == FlusherInit /\ [][FlusherNext]_flusherVars

\* A goroutine that can run is run, every SQL statement ends, and a closed
\* channel that is ready at every select is picked in the end: select chooses
\* among the ready cases at random.  Nothing makes the manager change mode.
FlusherFairness ==
    \A l \in Channel :
        /\ WF_flusherVars(EnterSelect(l))
        /\ WF_flusherVars(Flushed(l))
        /\ SF_flusherVars(Exit(l))

FlusherFairSpec == FlusherSpec /\ FlusherFairness

-----------------------------------------------------------------------------

Live(l) == loop[l] \in {"enter", "select", "flush"}

(***************************************************************************)
(* No loop is ever beyond the reach of Stop: a loop in its select waits on *)
(* a channel that is closed already or on the one the next Stop closes,    *)
(* however Starts and Stops fell while it was flushing.                    *)
(***************************************************************************)
NoOrphanLoop ==
    \A l \in Channel :
        loop[l] = "select" =>
            watched[l] \in closed \/ (started /\ watched[l] = stopCh)

(***************************************************************************)
(* While the flusher runs, the channel of the next Stop is still open, and *)
(* the loop of the last Start is alive: state is being persisted.          *)
(***************************************************************************)
RunningHasLoop == started => stopCh \notin closed /\ Live(stopCh)

(***************************************************************************)
(* Once the node has left LOCAL mode for good, every flush loop ends, the  *)
(* ones that missed their own stop channel included.                       *)
(***************************************************************************)
LoopsEnd == <>[]~started => <>[](\A l \in Channel : ~Live(l))

=============================================================================
