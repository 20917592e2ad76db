---------------------------- MODULE MCPortfolio ----------------------------
(* Portfolio on small sets of coordinators, cases and attempt folders.     *)
EXTENDS Portfolio, TLC
Perms == Permutations(Coordinators) \union Permutations(Attempts)
=============================================================================
