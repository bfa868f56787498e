---------------------------- MODULE MCOrchestration ----------------------------
(* Model values and symmetry for the runs of Orchestration.                *)
EXTENDS Orchestration, TLC

Symetrie == Permutations(Documents)

================================================================================
