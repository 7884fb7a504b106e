--------------------------- MODULE MCMySQLFallback ---------------------------
(***************************************************************************)
(* Instances of MySQLFallback: servers that differ in nothing but their    *)
(* name.                                                                   *)
(***************************************************************************)
EXTENDS MySQLFallback, TLC

Symmetry == Permutations(Node)

=============================================================================
