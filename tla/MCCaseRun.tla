----------------------------- MODULE MCCaseRun -----------------------------
(* CaseRun on one run, one staging command and one mod.                    *)
EXTENDS CaseRun
=============================================================================
