-------------------------- MODULE MCDiffusionRun --------------------------
(* Instances of DiffusionRun for TLC. *)
EXTENDS DiffusionRun
=============================================================================
