--------------------------- MODULE LongTermMigration ---------------------------
(***************************************************************************)
(* Moving the knowledge of a prior database to a new one: knowledge-migrate *)
(* of cli.py with long_term_knowledge_database, long_term_knowledge_migration *)
(* and long_term_knowledge_target.                                         *)
(*                                                                         *)
(* --analyze-only exports the approved rows of the source, keeps a backup  *)
(* and writes a report.  --execute reads the source again, compares it with *)
(* the report, creates the target database, imports the payload in one     *)
(* transaction, validates it, asks the target every retrieval probe, writes *)
(* a report and, with --cutover-env, points the environment file at the    *)
(* target.  Every step is a database session or a file of its own; a       *)
(* command may fail or be killed between any two.                          *)
(*                                                                         *)
(* A source database is a record of sets of rows; a row keeps its id, its  *)
(* scope (organization and design group), its references, its search terms *)
(* and whether it is approved.  Texts, evidence and authorization are      *)
(* carried along unchanged by the code and left out.                       *)
(***************************************************************************)
EXTENDS Naturals, FiniteSets, FiniteSetsExt

CONSTANTS
  Operators,   \* processes running knowledge-migrate
  Targets,     \* names of target databases
  Sources,     \* what the source database may hold
  None         \* SQL NULL, JSON null

VARIABLES
  source,     \* the source database
  analysis,   \* the analysis report: the export it was made from, or None
  backup,     \* source-export.json: an export, or None
  target,     \* the target databases: their rows, "empty" without, or None
  outcome,    \* the execution report, or None
  env,        \* the database the environment file names: "source" or a target
  operator    \* what every running command holds between two steps

vars == <<source, analysis, backup, target, outcome, env, operator>>

-----------------------------------------------------------------------------
(* build_long_term_export: the approved rows of a source.                  *)

Ids(rows) == {row.id : row \in rows}
Approved(rows) == {row \in rows : row.approved}

\* The approved row of the highest revision.
Latest(rows) == {row \in rows : \A other \in rows : other.revision <= row.revision}
Keys(s) == {e.key : e \in Approved(s.events)}
\* (Wrong: the first approved revision of a lesson is exported.)
ChosenFirst(s, key) ==
  LET events == {e \in Approved(s.events) : e.key = key}
  IN CHOOSE e \in events : \A other \in events : e.revision <= other.revision
Chosen(s, key) == CHOOSE e \in Latest({e \in Approved(s.events) : e.key = key}) : TRUE

\* A lesson supersedes another by its key or by the id of its exported event.
Superseded(s, e) ==
  IF e.supersedes \in Keys(s)
  THEN e.supersedes
  ELSE CHOOSE key \in Keys(s) : Chosen(s, key).id = e.supersedes
Resolves(s, e) ==
  \/ e.supersedes \in {None} \cup Keys(s)
  \/ \E key \in Keys(s) : Chosen(s, key).id = e.supersedes

Documents(s, id) == {d \in s.documents : d.assertion = id}
TermsOf(s, id) == UNION {d.terms : d \in Documents(s, id)}

ExportedFamilies(s) ==
  {[id |-> f.id, scope |-> f.scope, names |-> f.terms,
    retrieval |-> UNION {d.terms : d \in {d \in s.documents : d.family = f.id}},
    profile |-> Latest({p \in Approved(s.profiles) : p.family = f.id})] : f \in s.families}
ExportedAssertions(s) ==
  {[id |-> a.id, scope |-> a.scope, family |-> a.family, supersedes |-> a.supersedes,
    terms |-> TermsOf(s, a.id)] : a \in Approved(s.assertions)}
ExportedLessons(s) ==
  {LET e == Chosen(s, key)
   IN [id |-> key, scope |-> e.scope, family |-> e.family, terms |-> e.terms,
       supersedes |-> IF e.supersedes = None THEN None ELSE Superseded(s, e)] : key \in Keys(s)}

Export(s) ==
  [families |-> ExportedFamilies(s), assertions |-> ExportedAssertions(s),
   lessons |-> ExportedLessons(s)]

\* What the export raises no error about.
Exportable(s) ==
  LET known == Ids(s.families) \cup {None}
  IN /\ \A p \in Approved(s.profiles) : p.family \in Ids(s.families)
     /\ \A d \in s.documents : d.family \in known /\ Cardinality(Documents(s, d.assertion)) = 1
     /\ \A a \in Approved(s.assertions) : a.family \in known
     /\ \A key \in Keys(s) : Chosen(s, key).family \in known /\ Resolves(s, Chosen(s, key))
     /\ \A row \in Approved(s.assertions) \cup s.families
                     \cup {Chosen(s, key) : key \in Keys(s)} : row.scope \in s.scopes

-----------------------------------------------------------------------------
(* The target: build_simplified_payload, import and probes.                *)

\* Every row is active; a family is looked up by its names and by the terms of
\* its documents, and keeps the profile; the review of a lesson becomes its
\* provenance.
ActiveRow(row) ==
  [id |-> row.id, scope |-> row.scope, family |-> row.family, terms |-> row.terms,
   supersedes |-> row.supersedes, status |-> "active"]
Payload(e) ==
  [families |-> {[id |-> f.id, scope |-> f.scope, terms |-> f.names \cup f.retrieval,
                  profile |-> f.profile, status |-> "active"] : f \in e.families},
   assertions |-> {ActiveRow(row) : row \in e.assertions},
   lessons |-> {ActiveRow(row) : row \in e.lessons}]
Empty == [families |-> {}, assertions |-> {}, lessons |-> {}]

\* The foreign keys and checks of 001_knowledge.sql: references stay within
\* one organization and design group, and nothing supersedes itself.
References(row, id, rows) ==
  id = None \/ \E other \in rows : other.id = id /\ other.scope = row.scope
Importable(p) ==
  /\ \A row \in p.assertions \cup p.lessons : References(row, row.family, p.families)
  /\ \A row \in p.assertions : row.supersedes # row.id /\ References(row, row.supersedes, p.assertions)
  /\ \A row \in p.lessons : row.supersedes # row.id /\ References(row, row.supersedes, p.lessons)

\* build_parity_probes: one question per exported row and search term.
ProbesOf(kind, row, family, terms) ==
  {[kind |-> kind, id |-> row.id, scope |-> row.scope, family |-> family, term |-> term]
    : term \in terms}
Probes(e) ==
  UNION ({ProbesOf("families", f, None, f.names \cup f.retrieval) : f \in e.families}
         \cup {ProbesOf("assertions", row, row.family, row.terms) : row \in e.assertions}
         \cup {ProbesOf("lessons", row, row.family, row.terms) : row \in e.lessons})
\* match_product_family without an explicit id.
Matches(p, scope, term) ==
  {f \in p.families : f.scope = scope /\ f.status = "active" /\ term \in f.terms}
\* search: active rows of the scope, of the family or of none.
Found(rows, q) ==
  {r \in rows : /\ r.scope = q.scope /\ r.status = "active" /\ q.term \in r.terms
                /\ q.family # None => r.family \in {q.family, None}}
\* (Wrong: several families may fit a probe.)
AnsweredBySome(p, q) ==
  IF q.kind = "families"
  THEN q.id \in Ids(Matches(p, q.scope, q.term))
  ELSE q.id \in Ids(Found(p[q.kind], q))
\* _run_target_parity: the family that is found is the only one; an ambiguous
\* match raises an error.
Answered(p, q) ==
  IF q.kind = "families"
  THEN Ids(Matches(p, q.scope, q.term)) = {q.id}
  ELSE q.id \in Ids(Found(p[q.kind], q))
Parity(p, e) == \A q \in Probes(e) : Answered(p, q)

-----------------------------------------------------------------------------
(* The commands.                                                           *)

Idle == [step |-> "idle", export |-> None, target |-> None, cutover |-> FALSE]
Is(o, step) == operator[o].step = step
Goes(o, state) == operator' = [operator EXCEPT ![o] = state]
Step(o, step) == Goes(o, [operator[o] EXCEPT !.step = step])

\* Somebody goes on using the source database.
Change ==
  /\ source' \in Sources
  /\ UNCHANGED <<analysis, backup, target, outcome, env, operator>>

\* _analyze_knowledge_migration: one repeatable-read snapshot.  After the
\* cutover the file no longer names a database with these tables.
Analyze(o) ==
  /\ Is(o, "idle") /\ env = "source"
  /\ Exportable(source)
  /\ Goes(o, [Idle EXCEPT !.step = "exported", !.export = Export(source)])
  /\ UNCHANGED <<source, analysis, backup, target, outcome, env>>
\* publish_source_backup: created once, or it holds the same export.
Backup(o) ==
  /\ Is(o, "exported")
  /\ backup \in {None, operator[o].export}
  /\ backup' = operator[o].export
  /\ Step(o, "backed up")
  /\ UNCHANGED <<source, analysis, target, outcome, env>>
WriteAnalysis(o) ==
  /\ Is(o, "backed up")
  /\ analysis' = operator[o].export
  /\ Goes(o, Idle)
  /\ UNCHANGED <<source, backup, target, outcome, env>>

\* (Wrong: the source is not compared with the analysis.)
StillAnalyzedAny == analysis # None /\ Exportable(source)
\* _execute_knowledge_migration: the source still is what was analyzed.
StillAnalyzed == analysis # None /\ Exportable(source) /\ Export(source) = analysis
Execute(o, t, cutover) ==
  /\ Is(o, "idle") /\ env = "source"
  /\ StillAnalyzed
  /\ Goes(o, [step |-> "checked", export |-> Export(source), target |-> t, cutover |-> cutover])
  /\ UNCHANGED <<source, analysis, backup, target, outcome, env>>
\* create_target_database, in autocommit: a database of that name is refused.
MayCreate(t) == target[t] = None
Create(o) ==
  /\ Is(o, "checked")
  /\ MayCreate(operator[o].target)
  /\ target' = [target EXCEPT ![operator[o].target] = Empty]
  /\ Step(o, "created")
  /\ UNCHANGED <<source, analysis, backup, outcome, env>>
\* import_simplified_payload: one transaction inserts and reads back.
Import(o) ==
  LET p == Payload(operator[o].export)
  IN /\ Is(o, "created")
     /\ Importable(p)
     /\ target' = [target EXCEPT ![operator[o].target] = p]
     /\ Step(o, "imported")
     /\ UNCHANGED <<source, analysis, backup, outcome, env>>
\* validate_simplified_target: the content is the payload.
Verify(o) ==
  /\ Is(o, "imported")
  /\ target[operator[o].target] = Payload(operator[o].export)
  /\ Step(o, "verified")
  /\ UNCHANGED <<source, analysis, backup, target, outcome, env>>
\* The report of the probes is written whatever they say, and says that the
\* cutover takes place before it does.
WriteOutcome(o) ==
  LET passed == Parity(target[operator[o].target], operator[o].export)
  IN /\ Is(o, "verified")
     /\ outcome' = [target |-> operator[o].target, cutover |-> passed /\ operator[o].cutover,
                    passed |-> passed]
     /\ IF passed /\ operator[o].cutover THEN Step(o, "reported") ELSE Goes(o, Idle)
     /\ UNCHANGED <<source, analysis, backup, target, env>>
\* _update_environment_database_url.
CutOver(o) ==
  /\ Is(o, "reported")
  /\ env' = operator[o].target
  /\ Goes(o, Idle)
  /\ UNCHANGED <<source, analysis, backup, target, outcome>>
\* The command is killed, or a check it makes here raises an error.
Stop(o) ==
  /\ ~Is(o, "idle")
  /\ Goes(o, Idle)
  /\ UNCHANGED <<source, analysis, backup, target, outcome, env>>

-----------------------------------------------------------------------------
Init ==
  /\ source \in Sources
  /\ analysis = None /\ backup = None /\ outcome = None
  /\ target = [t \in Targets |-> None]
  /\ env = "source"
  /\ operator = [o \in Operators |-> Idle]

Command(o) ==
  \/ Analyze(o) \/ Backup(o) \/ WriteAnalysis(o)
  \/ \E t \in Targets, cutover \in BOOLEAN : Execute(o, t, cutover)
  \/ Create(o) \/ Import(o) \/ Verify(o) \/ WriteOutcome(o) \/ CutOver(o)
  \/ Stop(o)
Next == Change \/ \E o \in Operators : Command(o)
Spec == Init /\ [][Next]_vars

-----------------------------------------------------------------------------
(* Properties *)

Steps ==
  {"idle", "exported", "backed up", "checked", "created", "imported", "verified", "reported"}
TypeOK ==
  /\ source \in Sources
  /\ env \in {"source"} \cup Targets
  /\ outcome # None => outcome.target \in Targets /\ target[outcome.target] # None
  /\ \A o \in Operators : operator[o].step \in Steps /\ operator[o].target \in Targets \cup {None}
  /\ \A t \in Targets : target[t] # None => DOMAIN target[t] = DOMAIN Empty

\* What an export holds is closed and approved: every family it refers to and
\* every scope is in it, every approved assertion is, and of every lesson the
\* latest approved revision and no other, whatever the source held.
ExportSound(e) ==
  /\ \A row \in e.assertions \cup e.lessons : row.family \in Ids(e.families) \cup {None}
  /\ \A row \in e.lessons : row.supersedes \in Ids(e.lessons) \cup {None}
  /\ \A row, other \in e.lessons : row.id = other.id => row = other
ExportsSound ==
  /\ Exportable(source) =>
       /\ ExportSound(Export(source))
       /\ \A e \in Approved(source.events) :
            \E row \in Export(source).lessons :
              /\ row.id = e.key
              /\ \E latest \in Approved(source.events) :
                   /\ latest.key = e.key /\ latest.revision >= e.revision
                   /\ row.terms = latest.terms /\ row.family = latest.family
  /\ analysis # None => ExportSound(analysis)

\* The environment is only ever pointed at a database that holds the whole of
\* an analyzed export, keeps the constraints of the schema and answers every
\* question about its rows, whatever was killed, analyzed again or executed
\* beside it.
CutoverServes ==
  env # "source" =>
    /\ backup # None /\ target[env] = Payload(backup)
    /\ Importable(target[env])
    /\ \A f, g \in target[env].families : f # g /\ f.scope = g.scope => f.terms \cap g.terms = {}
=============================================================================
