---------------------------- MODULE MCCompanions ----------------------------
(* Instances of Companions for TLC. *)
EXTENDS Companions
CONSTANTS a, b
MCReplicas == {a, b}
=============================================================================
