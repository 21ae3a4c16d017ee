--------------------------- MODULE MCSubProcesses ---------------------------
(* Instances of SubProcesses for TLC. *)
EXTENDS SubProcesses, TLC

CONSTANTS a, b
MCReplicas == {a, b}
Symmetry == Permutations(MCReplicas)
=============================================================================
