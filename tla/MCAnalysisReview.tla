--------------------------- MODULE MCAnalysisReview ---------------------------
(* Small instances of AnalysisReview. *)
EXTENDS AnalysisReview, TLC

CONSTANTS c1, c2, r1, r2, m1, m2

Identities == Permutations(Clients) \cup Permutations(Runs) \cup Permutations(Contents)
=============================================================================
