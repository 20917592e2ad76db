------------------------------- MODULE MCRig -------------------------------
(* Rig on one run, one staging command and one mod: the theorems of        *)
(* Rig_proofs are about any number of them.                                *)
EXTENDS Rig
=============================================================================
