---------------------------- MODULE MCManagedFiles ----------------------------
(* Small instances of ManagedFiles. *)
EXTENDS ManagedFiles, TLC

CONSTANTS p1, p2, t1, t2

Identities == Permutations(Processes) \cup Permutations(Texts)
=============================================================================
