-------------------------- MODULE MCCaseOperations --------------------------
(* CaseOperations on small sets of workspace states, evaluators and runs.  *)
EXTENDS CaseOperations
=============================================================================
