----------------------------- MODULE KnowledgeBase -----------------------------
(***************************************************************************)
(* The knowledge database and what feeds on it: knowledge_repository,      *)
(* knowledge_service, product_family_knowledge, design_knowledge,          *)
(* projection and database_bootstrap.                                      *)
(*                                                                         *)
(* PostgreSQL keeps product families with their assertions and design      *)
(* lessons.  A transaction is one action; what a process reads in several  *)
(* statements it reads in several actions, since the default isolation     *)
(* gives every statement a snapshot of its own.  Neo4j is rewritten in one *)
(* transaction by an explicit rebuild.  The onboarding of a family is a    *)
(* file under a lock that is held across the database transaction.         *)
(*                                                                         *)
(* Definitions marked "Wrong" are slips, not the model.                    *)
(***************************************************************************)
EXTENDS Naturals, FiniteSets

CONSTANTS
  Families,     \* product family ids
  Names,        \* what a request calls a family: its name and aliases
  Analyses,     \* what an analysis can say: profile, terms and assertions
  Lessons,      \* design lesson ids
  Onboardings,  \* onboarding ids
  Clients,      \* processes that bootstrap, rebuild or retrieve
  None

ASSUME KnowledgeAssumption ==
  None \notin Families \cup Names \cup Analyses \cup Lessons \cup Onboardings

VARIABLES
  schema,      \* the tables of the database: "none", "foreign" or "ready"
  family,      \* product_families with knowledge_assertions
  lesson,      \* design_lessons
  onboarding,  \* knowledge/product-families/onboarding/<id>.json
  graph,       \* the nodes in Neo4j that this package owns
  client,      \* what every client holds between two steps
  knowledge    \* the status of a design session's knowledge record

database == <<schema, family, lesson>>
vars == <<database, onboarding, graph, client, knowledge>>

-----------------------------------------------------------------------------
(* Vocabulary *)

\* A published family row and its assertions, inserted together.
Family == [name : Names, knowledge : Analyses]
\* of: product_family_id; by: supersedes_id, the replacement.
Lesson == [status : {"active", "superseded", "revoked"}, of : Families \cup {None},
           by : Lessons \cup {None}]
Onboarding ==
  [family : Families, name : Names, analysis : Analyses \cup {None},
   review : {"APPROVE", "REJECT", None},
   status : {"started", "analyzed", "approved", "rejected", "published"}]
Verdict(s) ==
  CASE s \in {"started", "analyzed"} -> None
    [] s \in {"approved", "published"} -> "APPROVE"
    [] s = "rejected" -> "REJECT"
Stored(rows) == {id \in DOMAIN rows : rows[id] # None}
Active == {l \in Stored(lesson) : lesson[l].status = "active"}

\* What a rebuild copies: the ids of families and assertions, the lessons
\* with their status.
Nothing == [families |-> {}, assertions |-> {}, lessons |-> {}]
LessonNodes == {[id |-> l, status |-> lesson[l].status] : l \in Stored(lesson)}
Everything == [families |-> Stored(family), assertions |-> Stored(family), lessons |-> LessonNodes]

Idle == [step |-> "idle", read |-> Nothing, family |-> None, found |-> FALSE]
Is(c, step) == client[c].step = step
Goes(c, state) == client' = [client EXCEPT ![c] = state]
Step(c, step) == Goes(c, [client[c] EXCEPT !.step = step])

-----------------------------------------------------------------------------
(* bootstrap_knowledge_database *)

\* _reject_incompatible_database and the lookup of the applied version.
Bootstrap(c) ==
  /\ Is(c, "idle") /\ schema = "none"
  /\ Step(c, "migrating")
  /\ UNCHANGED <<database, onboarding, graph, knowledge>>
\* (Wrong: tables that are there by now are created anew.)
CreatableAny == schema # "foreign"
Creatable == schema = "none"
\* The tables and the ledger row are created and committed together; of two
\* bootstraps the second fails on a table that exists and is rolled back.
Migrate(c) ==
  /\ Is(c, "migrating")
  /\ Step(c, "idle")
  /\ IF Creatable
     THEN /\ schema' = "ready"
          /\ family' = [f \in Families |-> None]
          /\ lesson' = [l \in Lessons |-> None]
     ELSE UNCHANGED database
  /\ UNCHANGED <<onboarding, graph, knowledge>>

-----------------------------------------------------------------------------
(* Product family onboarding, every operation under .onboarding.lock. *)

\* start: a repeated request resumes, another one for the id is refused.
Start(o) ==
  /\ onboarding[o] = None
  /\ \E f \in Families, n \in Names :
       onboarding' = [onboarding EXCEPT ![o] =
         [family |-> f, name |-> n, analysis |-> None, review |-> None,
          status |-> "started"]]
  /\ UNCHANGED <<database, graph, client, knowledge>>
\* (Wrong: a new analysis keeps the review of the one before.)
AnalyzedKept(o, a) == [onboarding[o] EXCEPT !.analysis = a, !.status = "analyzed"]
\* analyze: the review was about another analysis and is cleared.
Analyzed(o, a) == [onboarding[o] EXCEPT !.analysis = a, !.review = None, !.status = "analyzed"]
Analyze(o) ==
  /\ onboarding[o] # None /\ onboarding[o].status # "published"
  /\ \E a \in Analyses : onboarding' = [onboarding EXCEPT ![o] = Analyzed(o, a)]
  /\ UNCHANGED <<database, graph, client, knowledge>>
\* review: whatever the status is, published included.
Review(o) ==
  /\ onboarding[o] # None /\ onboarding[o].analysis # None
  /\ \E d \in {"APPROVE", "REJECT"} :
       onboarding' = [onboarding EXCEPT ![o].review = d,
                        ![o].status = IF d = "APPROVE" THEN "approved" ELSE "rejected"]
  /\ UNCHANGED <<database, graph, client, knowledge>>

Row(o) == [name |-> onboarding[o].name, knowledge |-> onboarding[o].analysis]
\* (Wrong: a family that exists is taken for the one published.)
AcceptsExisting(o) == TRUE
\* (Wrong: rows that are there already refuse the publication.)
AcceptsNew(o) == family[onboarding[o].family] = None
\* publish_product_family: a new family, or the same rows again.
Accepts(o) == family[onboarding[o].family] \in {None, Row(o)}
\* publish: the repository first, the file last; n = 0 if it died in between.
Publish(o, n) ==
  /\ schema = "ready"
  /\ onboarding[o] # None /\ onboarding[o].status = "approved"
  /\ Accepts(o)
  /\ family' = [family EXCEPT ![onboarding[o].family] = IF @ = None THEN Row(o) ELSE @]
  /\ IF n = 1
     THEN onboarding' = [onboarding EXCEPT ![o].status = "published"]
     ELSE UNCHANGED onboarding
  /\ UNCHANGED <<schema, lesson, graph, client, knowledge>>

-----------------------------------------------------------------------------
(* Design lessons. *)

\* A review card publishes lessons of a family that is stored, or general ones.
PublishLesson(l) ==
  /\ schema = "ready" /\ lesson[l] = None
  /\ \E of \in Stored(family) \cup {None} :
       lesson' = [lesson EXCEPT ![l] = [status |-> "active", of |-> of, by |-> None]]
  /\ UNCHANGED <<schema, family, onboarding, graph, client, knowledge>>
\* (Wrong: a lesson that was revoked can be superseded.)
RetirableAny(l) == schema = "ready" /\ l \in Stored(lesson)
\* set_design_lesson_status: one UPDATE of a row that is still active.
Retirable(l) == schema = "ready" /\ l \in Active
\* design_lesson_supersede names the replacement, another row of the table of
\* whatever status; design_lesson_revoke names none.
SetStatus(l) ==
  /\ Retirable(l)
  /\ \E by \in {None} \cup (Stored(lesson) \ {l}) :
       lesson' = [lesson EXCEPT ![l].status = IF by = None THEN "revoked" ELSE "superseded",
                                ![l].by = by]
  /\ UNCHANGED <<schema, family, onboarding, graph, client, knowledge>>

-----------------------------------------------------------------------------
(* Neo4jProjection.rebuild: three reads, then one graph transaction. *)

ReadFamilies(c) ==
  /\ Is(c, "idle") /\ schema = "ready"
  /\ Goes(c, [Idle EXCEPT !.step = "assertions", !.read.families = Stored(family)])
  /\ UNCHANGED <<database, onboarding, graph, knowledge>>
ReadAssertions(c) ==
  /\ Is(c, "assertions")
  /\ Goes(c, [client[c] EXCEPT !.step = "lessons", !.read.assertions = Stored(family)])
  /\ UNCHANGED <<database, onboarding, graph, knowledge>>
\* (Wrong: lessons that are no longer active are not copied.)
ReadableActive == {[id |-> l, status |-> "active"] : l \in Active}
Readable == LessonNodes
ReadLessons(c) ==
  /\ Is(c, "lessons")
  /\ Goes(c, [client[c] EXCEPT !.step = "rebuilding", !.read.lessons = Readable])
  /\ UNCHANGED <<database, onboarding, graph, knowledge>>
\* The nodes owned are deleted and written anew.
Rebuild(c) ==
  /\ Is(c, "rebuilding")
  /\ graph' = client[c].read
  /\ Goes(c, Idle)
  /\ UNCHANGED <<database, onboarding, knowledge>>
\* Neo4j is not reachable: the graph stays.
RebuildFails(c) ==
  /\ Is(c, "rebuilding")
  /\ Goes(c, Idle)
  /\ UNCHANGED <<database, onboarding, graph, knowledge>>

-----------------------------------------------------------------------------
(* DesignKnowledgeService.retrieve for a query that fits some families. *)

\* match_product_family: the one family that fits, or none; several are an
\* error, which the retrieval records as an unavailable backend.
Match(c) ==
  /\ Is(c, "idle") /\ schema = "ready"
  /\ \E fits \in SUBSET Stored(family) :
       IF Cardinality(fits) > 1
       THEN /\ knowledge' = "unavailable"
            /\ UNCHANGED client
       ELSE /\ Goes(c, [Idle EXCEPT !.step = "matched",
                          !.family = IF fits = {} THEN None ELSE CHOOSE f \in fits : TRUE])
            /\ UNCHANGED knowledge
  /\ UNCHANGED <<database, onboarding, graph>>
\* search, of active rows: those of the family and the general ones, or of
\* every family when none fits; applicability_matches leaves some out.
Relevant(c) ==
  {l \in Active : client[c].family # None => lesson[l].of \in {client[c].family, None}}
Search(c) ==
  /\ Is(c, "matched")
  /\ \E some \in SUBSET Relevant(c) : Goes(c, [client[c] EXCEPT !.step = "found", !.found = some # {}])
  /\ UNCHANGED <<database, onboarding, graph, knowledge>>
\* The session records whether anything was found (the ids used are of it).
Record(c) ==
  /\ Is(c, "found")
  /\ knowledge' = IF ~client[c].found /\ client[c].family = None
                  THEN "completed_no_match" ELSE "completed_matches"
  /\ Goes(c, Idle)
  /\ UNCHANGED <<database, onboarding, graph>>

-----------------------------------------------------------------------------
Init ==
  /\ schema \in {"none", "foreign"}
  /\ family = [f \in Families |-> None]
  /\ lesson = [l \in Lessons |-> None]
  /\ onboarding = [o \in Onboardings |-> None]
  /\ graph = Nothing
  /\ client = [c \in Clients |-> Idle]
  /\ knowledge = "not_executed"

Onboard(o) == Start(o) \/ Analyze(o) \/ Review(o) \/ \E n \in 0..1 : Publish(o, n)
Learn(l) == PublishLesson(l) \/ SetStatus(l)
Project(c) ==
  ReadFamilies(c) \/ ReadAssertions(c) \/ ReadLessons(c) \/ Rebuild(c) \/ RebuildFails(c)
Retrieve(c) == Match(c) \/ Search(c) \/ Record(c)
Next ==
  \/ \E o \in Onboardings : Onboard(o)
  \/ \E l \in Lessons : Learn(l)
  \/ \E c \in Clients : Bootstrap(c) \/ Migrate(c) \/ Project(c) \/ Retrieve(c)
Spec == Init /\ [][Next]_vars

\* Somebody goes on rebuilding the graph, and it is not unreachable for ever;
\* somebody publishes an approved family again.
Fairness ==
  /\ \A c \in Clients :
       /\ SF_vars(ReadFamilies(c)) /\ SF_vars(Rebuild(c))
       /\ WF_vars(ReadAssertions(c)) /\ WF_vars(ReadLessons(c)) /\ WF_vars(Search(c) \/ Record(c))
  /\ \A o \in Onboardings : SF_vars(Publish(o, 1))
FairSpec == Spec /\ Fairness

-----------------------------------------------------------------------------
(* Properties *)

Reading ==
  {"idle", "migrating", "assertions", "lessons", "rebuilding", "matched", "found"}
TypeOK ==
  /\ schema \in {"none", "foreign", "ready"}
  /\ family \in [Families -> Family \cup {None}]
  /\ lesson \in [Lessons -> Lesson \cup {None}]
  /\ onboarding \in [Onboardings -> Onboarding \cup {None}]
  /\ \A o \in Onboardings :
       onboarding[o] # None => onboarding[o].review = Verdict(onboarding[o].status)
  /\ \A c \in Clients : Is(c, "idle") \/ client[c].step \in Reading
  /\ knowledge \in {"not_executed", "unavailable", "completed_no_match", "completed_matches"}

\* What an onboarding calls published is stored as it was analyzed and
\* approved there, although other onboardings may name the same family, a
\* publication may die after its transaction, and another bootstrap may run.
PublishedIsStored ==
  \A o \in Onboardings : onboarding[o] # None =>
    (onboarding[o].status = "published" =>
       schema = "ready" /\ family[onboarding[o].family] = Row(o))

\* Nothing reaches the database that was not approved as it is: a family row
\* appears in the words of an onboarding approved at that moment, and no row
\* changes or goes away, though another bootstrap creates the tables by then; a
\* lesson that was retired stays retired, with the replacement it was given.
RowsStep ==
  /\ \A f \in Families :
       IF family[f] = None
       THEN family'[f] # None =>
              \E o \in Onboardings : /\ onboarding[o] # None /\ onboarding[o].family = f
                                     /\ onboarding[o].review = "APPROVE" /\ family'[f] = Row(o)
       ELSE family'[f] = family[f]
  /\ \A l \in Stored(lesson) :
       /\ lesson'[l] # None /\ lesson'[l].of = lesson[l].of
       /\ l \notin Active => lesson'[l] = lesson[l]
RowsAreFinal == [][RowsStep]_vars

\* The graph is never ahead of the database: what it shows was stored, and a
\* lesson it shows retired is retired, with rebuilds that overlap in any way.
GraphWithin ==
  /\ graph.families \cup graph.assertions \subseteq Stored(family)
  /\ \A node \in graph.lessons :
       /\ node.id \in Stored(lesson)
       /\ node.status # "active" => lesson[node.id].status = node.status

\* With rebuilds that go on, the graph ends as the database does, whichever
\* older rebuild wrote last on the way.
GraphCatchesUp == <>[](schema = "ready" => graph = Everything)

\* An approved family that is published again and again gets published, is
\* reviewed or analyzed anew, or its id belongs to other knowledge.
Publishable(o) ==
  IF onboarding[o] = None THEN FALSE
  ELSE onboarding[o].status = "approved" /\ schema = "ready"
       /\ family[onboarding[o].family] \in {None, Row(o)}
PublicationEnds == \A o \in Onboardings : Publishable(o) ~> ~Publishable(o)
=============================================================================
