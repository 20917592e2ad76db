----------------------------- MODULE MCRevision -----------------------------
(* Revision on small sets of contents and run ids.                         *)
EXTENDS Revision
=============================================================================
