------------------------------- MODULE Platform -------------------------------
(***************************************************************************)
(* The parts a project is set up with, which share no state: a workspace   *)
(* and its catalog binding, the FreeCAD executable of a server, the start  *)
(* of a design, the catalog of parts, the knowledge database and the       *)
(* migration of what it holds.  A behaviour is a behaviour of one of them, *)
(* the initial state says of which; the variables of the others keep the   *)
(* value None.                                                             *)
(***************************************************************************)
EXTENDS Naturals, Sequences, FiniteSets

CONSTANTS
  None, Blank,
  Users,        \* processes and people
  MaxEdits, MaxDeaths, MaxBuilds,
  Actors, Groups, Roots, Protected,                                \* Workspace
  Executables, Paths,                                              \* FreeCADTrust
  Intents,                                                         \* DesignStart
  Provenances,                                                     \* PartCatalog
  Families, Names, Analyses, Lessons, Onboardings, Clients,        \* KnowledgeBase
  Targets, Sources                                                 \* LongTermMigration

VARIABLES part,
  wDirs, wSources, wManifest, wLock, wLeads, wUser, wDeaths,
  fFile, fBuilds, fServer, fLock, fService, fThread,
  dSource, dDesign, dLock, dStages, dUser, dDeaths,
  cSource, cCatalog, cManifest, cCopies, cUser, cEdits, cDeaths,
  mSource, mAnalysis, mBackup, mTarget, mOutcome, mEnv, mOperator,
  kSchema, kFamily, kLesson, kOnboarding, kGraph, kClient, kKnowledge

wvars == <<wDirs, wSources, wManifest, wLock, wLeads, wUser, wDeaths>>
fvars == <<fFile, fBuilds, fServer, fLock, fService, fThread>>
dvars == <<dSource, dDesign, dLock, dStages, dUser, dDeaths>>
cvars == <<cSource, cCatalog, cManifest, cCopies, cUser, cEdits, cDeaths>>
mvars == <<mSource, mAnalysis, mBackup, mTarget, mOutcome, mEnv, mOperator>>
kvars == <<kSchema, kFamily, kLesson, kOnboarding, kGraph, kClient, kKnowledge>>
vars == <<part, wvars, fvars, dvars, cvars, mvars, kvars>>

W == INSTANCE Workspace WITH
  Places <- Roots,
  dirs <- wDirs, sources <- wSources, manifest <- wManifest, lock <- wLock, leads <- wLeads,
  user <- wUser, deaths <- wDeaths
F == INSTANCE FreeCADTrust WITH
  Threads <- Users, Places <- Executables,
  file <- fFile, builds <- fBuilds, server <- fServer, lock <- fLock, service <- fService,
  thread <- fThread
D == INSTANCE DesignStart WITH
  source <- dSource, design <- dDesign, lock <- dLock, stages <- dStages, user <- dUser,
  deaths <- dDeaths
C == INSTANCE PartCatalog WITH
  source <- cSource, catalog <- cCatalog, manifest <- cManifest, copies <- cCopies,
  user <- cUser, edits <- cEdits, deaths <- cDeaths
K == INSTANCE KnowledgeBase WITH
  schema <- kSchema, family <- kFamily, lesson <- kLesson, onboarding <- kOnboarding,
  graph <- kGraph, client <- kClient, knowledge <- kKnowledge
M == INSTANCE LongTermMigration WITH
  Operators <- Users,
  source <- mSource, analysis <- mAnalysis, backup <- mBackup, target <- mTarget,
  outcome <- mOutcome, env <- mEnv, operator <- mOperator

-----------------------------------------------------------------------------
(* What the parts assume of their constants.                               *)

\* None is none of the words that stand where it may stand, and no process.
Words ==
  {"registered", "started", "resumed", "design", "result", "selected", "status", "discover",
   "initialized", "refused", "settings", "configured"}
ASSUME BoundsAssumption ==
  /\ {MaxEdits, MaxDeaths} \subseteq Nat /\ MaxBuilds \in Nat \ {0}
  /\ None \notin Nat \cup Words \cup Users

\* None is not what it may stand for: JSON null is no object, SQL NULL no row.
ASSUME WorkspaceAssumption ==
  None \notin Roots \cup Protected \cup Actors \cup W!Manifest
    \cup [schema : {"v1", "legacy"}, enabled : BOOLEAN, root : Roots \cup {None}]
ASSUME CatalogAssumption == None \notin Provenances
ASSUME DesignAssumption == "abandoned" \notin Users /\ None \notin D!Design
ASSUME RowsAssumption == None \notin Analyses \cup K!Family \cup K!Lesson \cup K!Onboarding

\* There is somewhere to look for an executable.
ASSUME FreeCADAssumption == None \notin F!File /\ Paths \in Seq(Executables) /\ Paths # << >>

\* The keys of a source: the id of a family names one row, and of every lesson
\* with an approved revision one is the latest.
ASSUME SourceAssumption == \A s \in Sources :
  /\ \A f, other \in s.families : f.id = other.id => f = other
  /\ \A e \in s.events : e.revision \in Nat
  /\ \A key \in M!Keys(s) : M!Latest({e \in M!Approved(s.events) : e.key = key}) # {}
  /\ M!Exportable(s) => None \notin {M!Export(s), M!Payload(M!Export(s))}
ASSUME TargetAssumption == None # M!Empty

-----------------------------------------------------------------------------
NoWorkspace ==
  /\ wDirs = None /\ wSources = None /\ wManifest = None /\ wLock = None /\ wLeads = None
  /\ wUser = None /\ wDeaths = None
NoFreeCAD ==
  /\ fFile = None /\ fBuilds = None /\ fServer = None /\ fLock = None /\ fService = None
  /\ fThread = None
NoDesign ==
  /\ dSource = None /\ dDesign = None /\ dLock = None /\ dStages = None /\ dUser = None
  /\ dDeaths = None
NoCatalog ==
  /\ cSource = None /\ cCatalog = None /\ cManifest = None /\ cCopies = None /\ cUser = None
  /\ cEdits = None /\ cDeaths = None
NoMigration ==
  /\ mSource = None /\ mAnalysis = None /\ mBackup = None /\ mTarget = None /\ mOutcome = None
  /\ mEnv = None /\ mOperator = None

NoKnowledge ==
  /\ kSchema = None /\ kFamily = None /\ kLesson = None /\ kOnboarding = None /\ kGraph = None
  /\ kClient = None /\ kKnowledge = None

Init ==
  /\ part \in {"workspace", "freecad", "design", "catalog", "migration", "knowledge"}
  /\ IF part = "workspace" THEN W!Init ELSE NoWorkspace
  /\ IF part = "freecad" THEN F!Init ELSE NoFreeCAD
  /\ IF part = "design" THEN D!Init ELSE NoDesign
  /\ IF part = "catalog" THEN C!Init ELSE NoCatalog
  /\ IF part = "migration" THEN M!Init ELSE NoMigration
  /\ IF part = "knowledge" THEN K!Init ELSE NoKnowledge

Next ==
  \/ part = "workspace" /\ W!Next /\ UNCHANGED <<part, fvars, dvars, cvars, mvars, kvars>>
  \/ part = "freecad" /\ F!Next /\ UNCHANGED <<part, wvars, dvars, cvars, mvars, kvars>>
  \/ part = "design" /\ D!Next /\ UNCHANGED <<part, wvars, fvars, cvars, mvars, kvars>>
  \/ part = "catalog" /\ C!Next /\ UNCHANGED <<part, wvars, fvars, dvars, mvars, kvars>>
  \/ part = "migration" /\ M!Next /\ UNCHANGED <<part, wvars, fvars, dvars, cvars, kvars>>
  \/ part = "knowledge" /\ K!Next /\ UNCHANGED <<part, wvars, fvars, dvars, cvars, mvars>>
Spec == Init /\ [][Next]_vars

-----------------------------------------------------------------------------
(* The properties of the parts, each for the behaviours of its part.       *)

\* Every record has its shape, and refers to what is there.
TypeOK ==
  /\ part = "workspace" => W!TypeOK
  /\ part = "freecad" => F!TypeOK
  /\ part = "design" => D!TypeOK
  /\ part = "catalog" => C!TypeOK
  /\ part = "migration" => M!TypeOK
  /\ part = "knowledge" => K!TypeOK

\* The files are what the records say of them: a manifest names a workspace that
\* is complete, what FreeCAD ran is what was reviewed, a design is made of one
\* state of the CAD file, a copy of a part is of one state of its file.
FilesAgree ==
  /\ part = "workspace" => W!InitializedComplete
  /\ part = "freecad" => F!RunsReviewed
  /\ part = "design" => D!MadeOfOneSource
  /\ part = "catalog" => C!CopiesHoldDigest

\* Knowledge is where it is said to be: what an onboarding calls published is in
\* the database, the graph shows nothing else, what is exported is closed and
\* approved, and what is cut over to serves it.
KnowledgeAgrees ==
  /\ part = "knowledge" => K!PublishedIsStored /\ K!GraphWithin
  /\ part = "migration" => M!ExportsSound /\ M!CutoverServes

\* Nothing that was found or published is exchanged behind a user: a manifest, a
\* catalog binding, a FreeCAD service, a design, the description of a part, the
\* rows of a family and what became of a lesson.
NothingExchanged ==
  [][/\ part = "workspace" => W!IdentityStep /\ W!CatalogStep
     /\ part = "freecad" => F!ServiceStep
     /\ part = "design" => D!KeptStep
     /\ part = "catalog" => C!DescribedStep
     /\ part = "knowledge" => K!RowsStep]_vars
=============================================================================
