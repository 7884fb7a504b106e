-------------------------- MODULE MCRedisTokenBucket ------------------------
(***************************************************************************)
(* Instances of RedisTokenBucket: clients on one node, and on another      *)
(* whose clock runs ahead.                                                 *)
(***************************************************************************)
EXTENDS RedisTokenBucket, TLC

CONSTANTS Behind, Ahead     \* the clients on either node

MCClient == Behind \cup Ahead
MCSkew == [c \in MCClient |-> IF c \in Ahead THEN MaxSkew ELSE 0]

\* Clients of the same node differ in nothing but their name.
SameNode == {p \in Permutations(MCClient) : \A c \in MCClient : p[c] \in Ahead <=> c \in Ahead}

=============================================================================
