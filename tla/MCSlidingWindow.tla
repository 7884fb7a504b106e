-------------------------- MODULE MCSlidingWindow --------------------------
(***************************************************************************)
(* Instances of SlidingWindow: requests on one node, and two on another    *)
(* whose clock runs MaxSkew ahead.                                         *)
(***************************************************************************)
EXTENDS SlidingWindow, TLC

CONSTANTS Behind, Ahead     \* the requests on either node

MCRequest == Behind \cup Ahead
MCSkew == [r \in MCRequest |-> IF r \in Ahead THEN MaxSkew ELSE 0]

\* Requests of one node differ in nothing but their id.
SameNode == {p \in Permutations(MCRequest) : \A r \in MCRequest : p[r] \in Ahead <=> r \in Ahead}

=============================================================================
