--------------------------- MODULE MCGossipAudit ---------------------------
(***************************************************************************)
(* Instances of GossipAudit.  The nodes differ in nothing but their name.  *)
(***************************************************************************)
EXTENDS GossipAudit, TLC

Symmetry == Permutations(Node)

=============================================================================
