---------------------------- MODULE MCEntityGuard ----------------------------
(***************************************************************************)
(* Instances of EntityGuard: two clients of one entity, which one names in *)
(* the header, with another as a query parameter that is not to count, and *)
(* the other as the query parameter.  One leaves its entity the time to    *)
(* refill a token, the other asks whenever it may.  A server's bucket      *)
(* shows half a token, which is less than is needed and more than nothing, *)
(* or is full.                                                             *)
(***************************************************************************)
EXTENDS EntityGuard

CONSTANTS paced, hasty

MCClient == {paced, hasty}
MCHeader == [c \in MCClient |-> IF c = paced THEN "entity_003" ELSE None]
MCUser == [c \in MCClient |-> None]
MCQuery == [c \in MCClient |-> IF c = paced THEN "entity_002" ELSE "entity_003"]
MCServer == {"server1"}
MCNode == Place \X Entity
MCViews == {1, Capacity}
MCPace == [c \in MCClient |-> IF c = paced THEN 2 ELSE 0]

=============================================================================
