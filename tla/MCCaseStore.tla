---------------------------- MODULE MCCaseStore ----------------------------
(* CaseStore on small sets of processes, cases and contents.               *)
EXTENDS CaseStore
=============================================================================
