------------------------------ MODULE MCPlatform ------------------------------
(* A small instance of Platform. *)
EXTENDS Platform, TLC

CONSTANTS u1, u2, a1, a2, g1, p1, p2, i1, i2, g, h, f1, f2, k1, e1, e2, l1, l2, b1, b2,
          bench

Identities == Permutations(Users)
ThreePaths == <<p1, p1, p2>>

\* The catalog is configured in a workspace of one identity, and its directories move
\* once there is one.
Configuring ==
  wSources \notin {None, W!Template} \/ \E u \in Users : wUser[u].read # None \/ wUser[u].place # None
\* Two onboardings, or lessons with an onboarding of one analysis; of the two catalog
\* directories that users may ask for, one stays what it is; one call at a time
\* discovers, since that leaves nothing to other calls.
Few ==
  /\ part = "knowledge" =>
       \/ kLesson[l1] = None /\ kLesson[l2] = None
       \/ /\ kOnboarding[b2] = None
          /\ kOnboarding[b1] # None => kOnboarding[b1].analysis \in {None, i1}
  /\ part = "workspace" =>
       /\ wLeads[bench] = bench
       /\ Configuring => wManifest.actor = a1 /\ wManifest.group = None
       /\ ~W!Initialized => \A place \in Roots : wLeads[place] = place
  /\ part = "freecad" =>
       Cardinality({u \in Users : fThread[u].task = "discover" \/ fThread[u].found # << >>}) <= 1

-----------------------------------------------------------------------------
(* What the source database of a migration may hold.                       *)

NoRows ==
  [scopes |-> {g}, families |-> {}, profiles |-> {}, assertions |-> {}, documents |-> {},
   events |-> {}]
FamilyRow(id, scope, terms) == [id |-> id, scope |-> scope, terms |-> terms]
AssertionRow(id, approved, family, supersedes) ==
  [id |-> id, approved |-> approved, scope |-> g, family |-> family, supersedes |-> supersedes]
EventRow(id, revision, approved, family, supersedes) ==
  [id |-> id, key |-> k1, revision |-> revision, approved |-> approved, scope |-> g,
   family |-> family, supersedes |-> supersedes, terms |-> {revision}]
OneOfEach ==
  [NoRows EXCEPT !.families = {FamilyRow(f1, g, {1})},
               !.assertions = {AssertionRow(a1, TRUE, f1, None)},
               !.documents = {[assertion |-> a1, family |-> f1, terms |-> {3}]},
               !.events = {EventRow(e1, 1, TRUE, f1, None)}]
\* The assertion that is superseded is approved no more, families share a
\* term or are of another scope, a lesson is revised, supersedes itself or
\* has a revision that is not approved yet.
SmallSources ==
  {OneOfEach,
   [OneOfEach EXCEPT !.assertions = {AssertionRow(a1, FALSE, f1, None), AssertionRow(a2, TRUE, f1, a1)}],
   [OneOfEach EXCEPT !.assertions = {AssertionRow(a1, TRUE, f1, None), AssertionRow(a2, TRUE, None, a1)}],
   [OneOfEach EXCEPT !.families = {FamilyRow(f1, g, {1}), FamilyRow(f2, g, {1})}],
   [OneOfEach EXCEPT !.scopes = {g, h}, !.families = {FamilyRow(f1, g, {1}), FamilyRow(f2, h, {1})}],
   [OneOfEach EXCEPT !.families = {FamilyRow(f1, h, {1})}],
   [OneOfEach EXCEPT !.events = {EventRow(e1, 1, TRUE, f1, None), EventRow(e2, 2, TRUE, None, None)}],
   [OneOfEach EXCEPT !.events = {EventRow(e1, 1, TRUE, f1, None), EventRow(e2, 2, TRUE, f1, e1)}],
   [OneOfEach EXCEPT !.events = {EventRow(e1, 1, TRUE, f1, None), EventRow(e2, 2, FALSE, f1, k1)}]}
=============================================================================
