-------------------------- MODULE MCLessonWorkflow --------------------------
(* A small design session for LessonWorkflow. *)
EXTENDS LessonWorkflow, Integers, TLC

CONSTANTS m1, m2, l1, l2, s1, s2, t1, t2, c1, c2

Identities ==
  Permutations(Clients) \cup Permutations(Models) \cup Permutations(Selections)

(* What users do besides confirming and deciding; Few bounds the combinations. *)

SecondModel ==
  \E m \in {session.sha} \cup {client[c].model : c \in Clients} \cup {x.model : x \in cards} :
    m \notin {file, None}
SecondSelection ==
  Cardinality(({x.picks : x \in cards} \cup {client[c].picks : c \in Clients}) \ {None}) > 1
Retired == \E x \in cards : stored[x].changed
Revising == {c \in Clients : client[c].revises}
Corrected == Revising # {} \/ \E x \in cards : x.revises # None

Few ==
  /\ SecondModel => ~SecondSelection /\ ~Retired /\ ~Corrected
  /\ Corrected => ~SecondSelection /\ ~Retired /\ Cardinality(Revising) <= 1
=============================================================================
