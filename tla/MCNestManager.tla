--------------------------- MODULE MCNestManager ---------------------------
(***************************************************************************)
(* Instances of NestManager.  Requests and probes differ in nothing but    *)
(* their name; the run with liveness properties takes no symmetry.         *)
(***************************************************************************)
EXTENDS NestManager, TLC

Symmetry == Permutations(Request) \cup Permutations(Probe)

=============================================================================
