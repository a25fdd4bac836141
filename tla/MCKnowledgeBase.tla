--------------------------- MODULE MCKnowledgeBase ---------------------------
(* Small instances of KnowledgeBase. *)
EXTENDS KnowledgeBase, TLC

CONSTANTS f1, f2, n1, n2, x, y, l1, l2, b1, b2, c1, c2

Identities ==
  Permutations(Families) \cup Permutations(Names) \cup Permutations(Analyses)
  \cup Permutations(Lessons) \cup Permutations(Onboardings) \cup Permutations(Clients)
=============================================================================
