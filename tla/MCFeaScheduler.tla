--------------------------- MODULE MCFeaScheduler ---------------------------
(* Small workspaces for FeaScheduler. *)
EXTENDS FeaScheduler, TLC

CONSTANTS a1, a2, k1, k2, k3, r0, r1, r2, r3, w1, w2, w3, c1, c2

MCAnalysisOf == [k \in Keys |-> IF k = k3 THEN a2 ELSE a1]
MCKeyOf == [r \in Runs |-> CASE r = r2 -> k2 [] r = r3 -> k3 [] OTHER -> k1]

Identities == Permutations(Workers) \cup Permutations(Clients)
=============================================================================
