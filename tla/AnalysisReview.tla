---------------------------- MODULE AnalysisReview ----------------------------
(***************************************************************************)
(* One analysis of a design, from its first draft to the acceptance of a   *)
(* delivered report: analysis_store, analysis_session, analysis_revision,  *)
(* analysis_gui_service, analysis_delivery and analysis_delivery_service,  *)
(* with as much of the coordinator as creates, repairs and ends runs.      *)
(*                                                                         *)
(* Several client processes serve requests about the analysis while CAD    *)
(* work goes on in the design.  The long parts of a request (geometry,     *)
(* preview, report construction) hold no lock: a client keeps what it read *)
(* and compares the state revision when it takes the locks again.  The     *)
(* revision number is not kept: "stale" says of a client that analysis.json*)
(* was replaced since the revision its request quotes.                     *)
(*                                                                         *)
(* A locked section replaces several files.  The parameter n of such an    *)
(* action says how many of them, in the order of the code, reached the     *)
(* disk before the process died or a write failed.                         *)
(*                                                                         *)
(* Definitions marked "Wrong" are not part of the model: each is what a    *)
(* slip in the code would make of the definition after it.                 *)
(***************************************************************************)
EXTENDS Naturals, Sequences, FiniteSets

CONSTANTS
  Clients,       \* processes serving requests
  Runs,          \* run identities; each has an idempotency key of its own
  Contents,      \* what an FCStd file can hold
  None,          \* JSON null
  MaxRevisions,  \* bound on published review revisions (model checking only)
  MaxVersions,   \* deliveries that may be revised (model checking only)
  MaxDeaths      \* bound on deaths and failed writes (model checking only)

VARIABLES
  origin,     \* the source file requests name
  model,      \* design/model.FCStd
  analysis,   \* analysis.json, or None before it exists
  revisions,  \* revisions/: immutable review records, in order of publication
  run,        \* run.json and request.json of every run
  figures,    \* gui/: the registered native reconstructions of every run
  versions,   \* deliveries/: immutable directories, in order of publication
  indexed,    \* deliveries/by-manifest: the versions it names
  head,       \* delivery-head.json of every run
  receipts,   \* acceptances/: the versions acceptance records name
  client,     \* what every client holds between two locked sections
  deaths      \* deaths and failed writes so far

files == <<origin, model>>
delivery == <<versions, indexed, head>>
vars == <<files, analysis, revisions, run, figures, delivery, receipts, client, deaths>>

-----------------------------------------------------------------------------
(* Vocabulary *)

Terminal == {"completed", "failed", "cancelled", "interrupted"}
RunStatus == {"absent", "queued", "awaiting_visual_review"} \cup Terminal
\* What analysis.json says of a run in this state (synchronize_analysis).
Summary(st) ==
  CASE st \in {"completed", "cancelled"} -> st
    [] st \in {"failed", "interrupted"} -> "needs_attention"
    [] OTHER -> st

Source == [origin : Contents, model : Contents]
\* A reference names something published by its number, or nothing.
Reference == Nat \cup {None}
Analysis ==
  [source : Source, spec : Nat, status :
     {"draft", "needs_input", "ready_for_review", "approved", "needs_attention"} \cup RunStatus,
   ref : Reference, approval : Reference,
   active : Runs \cup {None}, latest : Runs \cup {None},
   delivered : Reference, accepted : Reference]
\* of: the review an approved record freezes (reviewed_spec_sha256).
Revision ==
  [spec : Nat, source : Source, of : Reference,
   status : {"needs_input", "ready_for_review", "approved"}]
\* queued: the scheduler queue has an entry for it.
Run == [status : RunStatus, queued : BOOLEAN, ref : Reference, completion : Reference]
\* number: delivery_version; gui: which of the run's figures it shows.
Version == [run : Runs, number : Nat, gui : Nat]
\* gui: the figures revise_delivery names, 0 when finalize_visual publishes.
Client ==
  [pc : {"idle", "creating", "drafting", "drafted", "approving", "approved", "submitting",
         "recovering", "building", "staged", "confirming"},
   stale : BOOLEAN, source : Source \cup {None}, ref : Reference, ready : BOOLEAN,
   run : Runs \cup {None}, gui : Nat, version : Reference]

ASSUME ReviewAssumption ==
  /\ None \notin Runs \cup Contents \cup Nat \cup Analysis
  /\ {MaxRevisions, MaxVersions, MaxDeaths} \subseteq Nat

Idle == [pc |-> "idle", stale |-> FALSE, source |-> None, ref |-> None,
         ready |-> FALSE, run |-> None, gui |-> 0, version |-> None]
NoRun == [status |-> "absent", queued |-> FALSE, ref |-> None, completion |-> None]

Exists == analysis # None
Present == [origin |-> origin, model |-> model]
\* currentness: both files still hold what the capture names, and agree.
Current(source) == source = Present /\ origin = model
\* rebind_source, publish_revision: no queued or active run.
Free ==
  /\ analysis.active = None
  /\ analysis.status # "queued"
  /\ \A r \in Runs : ~run[r].queued

\* The client's next step; a write of analysis.json makes the others stale.
Moves(c, step) == client' = [client EXCEPT ![c] = step]
Noticed ==
  [d \in Clients |->
     IF client[d].pc = "idle" THEN Idle ELSE [client[d] EXCEPT !.stale = TRUE]]
Wrote(c, step) == client' = [Noticed EXCEPT ![c] = step]
Dies(done) == IF done THEN UNCHANGED deaths
              ELSE deaths < MaxDeaths /\ deaths' = deaths + 1
Rejected(c) == Moves(c, Idle)

-----------------------------------------------------------------------------
(* CAD work: the source file and the design model are replaced. *)

EditOrigin == \E m \in Contents \ {origin} : origin' = m
EditModel == \E m \in Contents \ {model} : model' = m
CadWork ==
  /\ \/ EditOrigin /\ UNCHANGED model
     \/ EditModel /\ UNCHANGED origin
  /\ UNCHANGED <<analysis, revisions, run, figures, delivery, receipts, client, deaths>>

-----------------------------------------------------------------------------
(* prepare: capture or rebind the source, draft without locks, publish. *)

DraftStatus == IF origin = model THEN "draft" ELSE "needs_input"

\* prepare finds no analysis; another client may create it before it does.
PrepareNew(c) ==
  /\ client[c].pc = "idle" /\ ~Exists
  /\ Moves(c, [Idle EXCEPT !.pc = "creating"])
  /\ UNCHANGED <<files, analysis, revisions, run, figures, delivery, receipts, deaths>>

\* prepare_source: a complete directory appears, or the existing one is for
\* the same source and has no specification yet.
PrepareSource(c) ==
  /\ client[c].pc = "creating"
  /\ IF Exists
     THEN /\ IF analysis.source = Present /\ analysis.spec = 0
             THEN Moves(c, [Idle EXCEPT !.pc = "drafting"])
             ELSE Rejected(c)
          /\ UNCHANGED analysis
     ELSE /\ analysis' = [source |-> Present, spec |-> 0, status |-> DraftStatus,
                          ref |-> None, approval |-> None, active |-> None,
                          latest |-> None, delivered |-> None, accepted |-> None]
          /\ Wrote(c, [Idle EXCEPT !.pc = "drafting"])
  /\ UNCHANGED <<files, revisions, run, figures, delivery, receipts, deaths>>

\* (Wrong: the reviewed revision and its approval are kept.)
ReboundKept == [analysis EXCEPT !.source = Present, !.status = DraftStatus]
\* rebind_source: a new source clears the current revision and its approval.
Rebound == [analysis EXCEPT !.source = Present, !.status = DraftStatus,
                            !.ref = None, !.approval = None]

\* The analysis exists: rebind it to the source as it is now.
PrepareRebind(c) ==
  /\ client[c].pc = "idle" /\ Exists /\ Free
  /\ IF analysis.source = Present
     THEN Moves(c, [Idle EXCEPT !.pc = "drafting"]) /\ UNCHANGED analysis
     ELSE analysis' = Rebound /\ Wrote(c, [Idle EXCEPT !.pc = "drafting"])
  /\ UNCHANGED <<files, revisions, run, figures, delivery, receipts, deaths>>

\* _prepare: the captured source is the current one of analysis.json; a source
\* that is not current is an issue, and so is anything else that is missing.
\* Knowledge of another scope or an unreadable artifact fails the request.
Draft(c) ==
  /\ client[c].pc = "drafting"
  /\ \/ /\ Len(revisions) < MaxRevisions
        /\ \E ready \in BOOLEAN :
             /\ ready => Current(analysis.source)
             /\ Moves(c, [client[c] EXCEPT !.pc = "drafted", !.source = analysis.source,
                                           !.ready = ready])
     \/ Rejected(c)
  /\ UNCHANGED <<files, analysis, revisions, run, figures, delivery, receipts, deaths>>

\* (Wrong: the pointer is computed before the directory is there.)
PublishedBefore(record) ==
  LET ref == Len(revisions)
  IN [analysis EXCEPT !.spec = record.spec, !.status = record.status, !.ref = ref,
                      !.approval = IF record.status = "approved" THEN ref ELSE None]
\* publish_revision: the directory, then the pointer in analysis.json.
Published(record) ==
  LET ref == Len(revisions) + 1
  IN [analysis EXCEPT !.spec = record.spec, !.status = record.status, !.ref = ref,
                      !.approval = IF record.status = "approved" THEN ref ELSE None]
MayPublish(c, source) == Free /\ ~client[c].stale /\ analysis.source = source
Publish(c, n, record) ==
  /\ revisions' = Append(revisions, record)
  /\ Dies(n = 1)
  /\ IF n = 1 THEN analysis' = Published(record) /\ Wrote(c, Idle)
              ELSE UNCHANGED analysis /\ Rejected(c)
  /\ UNCHANGED <<files, run, figures, delivery, receipts>>

PublishDraft(c, n) ==
  /\ client[c].pc = "drafted"
  /\ MayPublish(c, client[c].source)
  /\ Publish(c, n, [spec |-> analysis.spec + 1, source |-> client[c].source, of |-> None,
                    status |-> IF client[c].ready THEN "ready_for_review" ELSE "needs_input"])

-----------------------------------------------------------------------------
(* approve: freeze a copy of the reviewed revision.                        *)

\* The exact reviewed specification, ready, and bound to the source in force.
Approve(c) ==
  /\ client[c].pc = "idle" /\ Exists /\ Len(revisions) < MaxRevisions
  /\ analysis.ref # None
  /\ revisions[analysis.ref].source = analysis.source
  /\ revisions[analysis.ref].status = "ready_for_review"
  /\ Moves(c, [Idle EXCEPT !.pc = "approving", !.ref = analysis.ref])
  /\ UNCHANGED <<files, analysis, revisions, run, figures, delivery, receipts, deaths>>

\* Currentness under the design and analysis locks, which are then released.
ApproveCurrent(c) ==
  /\ client[c].pc = "approving"
  /\ IF Current(revisions[client[c].ref].source)
     THEN Moves(c, [client[c] EXCEPT !.pc = "approved"])
     ELSE Rejected(c)
  /\ UNCHANGED <<files, analysis, revisions, run, figures, delivery, receipts, deaths>>

\* The approved record freezes the review it was read from.
PublishApproval(c, n) ==
  LET record == revisions[client[c].ref]
  IN /\ client[c].pc = "approved"
     /\ MayPublish(c, record.source)
     /\ Publish(c, n, [record EXCEPT !.status = "approved", !.of = client[c].ref])

\* A conflict, a busy analysis or a changed source: the staging is removed.
PublishRejected(c) ==
  /\ \/ client[c].pc = "drafted" /\ ~MayPublish(c, client[c].source)
     \/ client[c].pc = "approved" /\ ~MayPublish(c, revisions[client[c].ref].source)
  /\ Rejected(c)
  /\ UNCHANGED <<files, analysis, revisions, run, figures, delivery, receipts, deaths>>

-----------------------------------------------------------------------------
(* Runs: what the coordinator and the supervisor make of the analysis.     *)

CanSync(r) == analysis.active \in {None, r}
Synced(r, st) ==
  [analysis EXCEPT !.active = IF st \in Terminal THEN None ELSE r,
                   !.latest = r, !.status = Summary(st)]
Sync(r, st) ==
  IF CanSync(r) /\ Synced(r, st) # analysis
  THEN analysis' = Synced(r, st) /\ client' = Noticed
  ELSE UNCHANGED <<analysis, client>>

\* submit: approved, exact and current when it is read.
Submit(c, r) ==
  /\ client[c].pc = "idle" /\ Exists /\ run[r].status = "absent"
  /\ analysis.approval # None
  /\ revisions[analysis.ref].status = "approved"
  /\ Current(revisions[analysis.ref].source)
  /\ Moves(c, [Idle EXCEPT !.pc = "submitting", !.run = r, !.ref = analysis.ref])
  /\ UNCHANGED <<files, analysis, revisions, run, figures, delivery, receipts, deaths>>

\* Under queue.lock: the run's directory, its queue entry, analysis.json.
MayCommit(c, r) == ~client[c].stale /\ Free /\ run[r].status = "absent"
CommitSubmit(c, n) ==
  LET r == client[c].run
  IN /\ client[c].pc = "submitting"
     /\ MayCommit(c, r)
     /\ run' = [run EXCEPT ![r] = [NoRun EXCEPT !.status = "queued", !.ref = client[c].ref,
                                                !.queued = n > 0]]
     /\ Dies(n = 2)
     /\ IF n = 2 THEN analysis' = Synced(r, "queued") /\ Wrote(c, Idle)
                 ELSE UNCHANGED analysis /\ Rejected(c)
     /\ UNCHANGED <<files, revisions, figures, delivery, receipts>>
SubmitRejected(c) ==
  /\ client[c].pc = "submitting"
  /\ ~MayCommit(c, client[c].run)
  /\ Rejected(c)
  /\ UNCHANGED <<files, analysis, revisions, run, figures, delivery, receipts, deaths>>

\* submit repeated with the key of a run that exists: _lookup closes a request
\* that never reached the queue, and lets analysis.json follow the run.
Resubmit(r) ==
  LET st == IF run[r].status = "queued" /\ ~run[r].queued THEN "interrupted" ELSE run[r].status
  IN /\ Exists /\ run[r].status \in {"queued", "awaiting_visual_review"}
     /\ run' = [run EXCEPT ![r].status = st]
     /\ Sync(r, st)
     /\ UNCHANGED <<files, revisions, figures, delivery, receipts, deaths>>

\* The supervisor takes the run up and ends it: sealed numerical and native
\* GUI evidence that pauses for inspection, or a failure.
Execute(r) ==
  /\ run[r].queued /\ run[r].status = "queued" /\ CanSync(r)
  /\ \E st \in {"awaiting_visual_review", "failed"} :
       /\ run' = [run EXCEPT ![r].status = st, ![r].queued = FALSE]
       /\ figures' = [figures EXCEPT ![r] = IF st = "failed" THEN @ ELSE <<"sealed">>]
       /\ Sync(r, st)
  /\ UNCHANGED <<files, revisions, delivery, receipts, deaths>>

\* cancel of a run nobody executes.
Cancel(r) ==
  /\ Exists /\ analysis.active = r
  /\ run[r].status \in {"queued", "awaiting_visual_review"}
  /\ run' = [run EXCEPT ![r].status = "cancelled", ![r].queued = FALSE]
  /\ Sync(r, "cancelled")
  /\ UNCHANGED <<files, revisions, figures, delivery, receipts, deaths>>

-----------------------------------------------------------------------------
(* Deliveries.                                                             *)

Of(r) == {v \in DOMAIN versions : versions[v].run = r}

\* _selected: the head, or the run's own completion while there is one version.
Selectable(r) ==
  /\ run[r].status = "completed"
  /\ head[r] = None => Cardinality(Of(r)) <= 1
Selected(r) == IF head[r] = None THEN run[r].completion ELSE head[r]

\* rebuild_figures: a registered request, then its sealed evidence.
\* Bound: at most two reconstructions of a run.
IssueFigures(r) ==
  /\ Exists /\ run[r].status = "completed"
  /\ Len(figures[r]) < 2
  /\ figures' = [figures EXCEPT ![r] = Append(@, "prepared")]
  /\ UNCHANGED <<files, analysis, revisions, run, delivery, receipts, client, deaths>>
SealFigures(r) ==
  /\ \E g \in DOMAIN figures[r] :
       /\ figures[r][g] = "prepared"
       /\ figures' = [figures EXCEPT ![r][g] = "sealed"]
  /\ UNCHANGED <<files, analysis, revisions, run, delivery, receipts, client, deaths>>

\* finalize_visual of a paused run: _pending gathers what is to be published.
Finalize(c, r) ==
  /\ client[c].pc = "idle" /\ Exists
  /\ run[r].status = "awaiting_visual_review"
  /\ Moves(c, [Idle EXCEPT !.pc = "building", !.run = r])
  /\ UNCHANGED <<files, analysis, revisions, run, figures, delivery, receipts, deaths>>

\* finalize_visual of a completed run (g = 0) recovers its publication, and
\* so does revise_delivery (g names figures) before it publishes another one.
Recover(c, r, g) ==
  /\ client[c].pc = "idle" /\ Exists
  /\ Selectable(r) /\ (g > 0 => Len(versions) < MaxVersions)
  /\ Moves(c, [Idle EXCEPT !.pc = "recovering", !.run = r, !.gui = g, !.version = Selected(r)])
  /\ UNCHANGED <<files, analysis, revisions, run, figures, delivery, receipts, deaths>>

\* (Wrong: an analysis that is still active is left alone.)
LacksIdle(r, v) ==
  /\ analysis.latest = r /\ analysis.active = None /\ analysis.ref = run[r].ref
  /\ analysis.delivered # v
\* _recover_published: analysis.json still lacks the selected completion.
Lacks(r, v) ==
  /\ analysis.latest = r /\ analysis.active \in {None, r} /\ analysis.ref = run[r].ref
  /\ analysis.active = r \/ analysis.delivered # v
\* revise_delivery goes on with other sealed figures than the selected ones.
Continues(c, step) ==
  LET r == client[c].run
      g == client[c].gui
  IN IF g # 0 /\ figures[r][g] = "sealed" /\ g # versions[client[c].version].gui
     THEN step ELSE Idle
RecoverPublished(c) ==
  LET r == client[c].run
      v == client[c].version
      next == [client[c] EXCEPT !.pc = "building", !.version = None]
  IN /\ client[c].pc = "recovering"
     /\ IF ~(Selectable(r) /\ Selected(r) = v) \/ (Lacks(r, v) /\ client[c].stale)
        THEN Rejected(c) /\ UNCHANGED analysis
        ELSE IF Lacks(r, v)
        THEN /\ analysis' = [analysis EXCEPT !.status = "completed", !.active = None,
                                             !.delivered = v]
             /\ Wrote(c, Continues(c, [next EXCEPT !.stale = TRUE]))
        ELSE Moves(c, Continues(c, next)) /\ UNCHANGED analysis
     /\ UNCHANGED <<files, revisions, run, figures, delivery, receipts, deaths>>

\* _publish before the locks: the revision, the version number, the staging.
Build(c) ==
  /\ client[c].pc = "building"
  /\ IF client[c].stale
     THEN Rejected(c)
     ELSE Moves(c, [client[c] EXCEPT !.pc = "staged",
                                     !.version = Cardinality(Of(client[c].run)) + 1])
  /\ UNCHANGED <<files, analysis, revisions, run, figures, delivery, receipts, deaths>>

Revising(c) == client[c].gui # 0
MayDeliver(c) ==
  /\ ~client[c].stale
  /\ run[client[c].run].status = IF Revising(c) THEN "completed" ELSE "awaiting_visual_review"

\* analysis.json after a publication that ran to its end.
Delivered(c, v) ==
  LET r == client[c].run
  IN IF ~Revising(c)
     THEN [analysis EXCEPT !.status = "completed", !.active = None, !.latest = r, !.delivered = v]
     ELSE IF analysis.latest = r /\ analysis.ref = run[r].ref
     THEN [analysis EXCEPT !.delivered = v]
     ELSE analysis
\* _publish under the locks: directory, index, run.json, head, analysis.json.
\* A revision does not touch run.json.
\* (Wrong: the head is written before run.json.)
HeadFirst == 1
\* (Wrong: a revision leaves the head out.)
HeadNever == 5
\* After this many of its files, the head is on the disk.
HeadAt == 3
PublishDelivery(c, n) ==
  LET r == client[c].run
      v == Len(versions) + 1
  IN /\ client[c].pc = "staged"
     /\ MayDeliver(c)
     /\ versions' = Append(versions, [run |-> r, number |-> client[c].version,
                                      gui |-> IF Revising(c) THEN client[c].gui ELSE 1])
     /\ indexed' = IF n >= 1 THEN indexed \cup {v} ELSE indexed
     /\ run' = IF n >= 2 /\ ~Revising(c)
               THEN [run EXCEPT ![r].status = "completed", ![r].completion = v] ELSE run
     /\ head' = IF n >= HeadAt THEN [head EXCEPT ![r] = v] ELSE head
     /\ Dies(n = 4)
     /\ IF n = 4 THEN analysis' = Delivered(c, v) /\ Wrote(c, Idle)
                 ELSE UNCHANGED analysis /\ Rejected(c)
     /\ UNCHANGED <<files, revisions, figures, receipts>>
DeliveryRejected(c) ==
  /\ client[c].pc = "staged" /\ ~MayDeliver(c)
  /\ Rejected(c)
  /\ UNCHANGED <<files, analysis, revisions, run, figures, delivery, receipts, deaths>>

-----------------------------------------------------------------------------
(* confirm: a human decision about the exact current manifest.             *)

\* get_report: completed, verified, and current against both files and the
\* revision in force.
Confirm(c, r) ==
  /\ client[c].pc = "idle" /\ Exists
  /\ Selectable(r)
  /\ Current(revisions[run[r].ref].source) /\ analysis.ref = run[r].ref
  /\ Moves(c, [Idle EXCEPT !.pc = "confirming", !.run = r, !.version = Selected(r)])
  /\ UNCHANGED <<files, analysis, revisions, run, figures, delivery, receipts, deaths>>

\* (Wrong: the selected version is not read again.)
MayAcceptUnselected(c) ==
  LET r == client[c].run
  IN /\ ~client[c].stale
     /\ analysis.active = None /\ analysis.latest = r
     /\ analysis.delivered = client[c].version
     /\ analysis.ref = run[r].ref
     /\ Selectable(r)
\* Under the locks: nothing was replaced, and the version is still selected.
MayAccept(c) ==
  LET r == client[c].run
      v == client[c].version
  IN /\ ~client[c].stale
     /\ analysis.active = None /\ analysis.latest = r /\ analysis.delivered = v
     /\ analysis.ref = run[r].ref
     /\ Selectable(r) /\ Selected(r) = v
ConfirmDelivery(c, n) ==
  /\ client[c].pc = "confirming"
  /\ MayAccept(c)
  /\ receipts' = receipts \cup {client[c].version}
  /\ Dies(n = 1)
  /\ IF n = 1 THEN analysis' = [analysis EXCEPT !.accepted = client[c].version] /\ Wrote(c, Idle)
              ELSE UNCHANGED analysis /\ Rejected(c)
  /\ UNCHANGED <<files, revisions, run, figures, delivery>>
ConfirmRejected(c) ==
  /\ client[c].pc = "confirming" /\ ~MayAccept(c)
  /\ Rejected(c)
  /\ UNCHANGED <<files, analysis, revisions, run, figures, delivery, receipts, deaths>>

-----------------------------------------------------------------------------
Init ==
  /\ origin \in Contents /\ model \in Contents
  /\ analysis = None /\ revisions = <<>>
  /\ run = [r \in Runs |-> NoRun]
  /\ figures = [r \in Runs |-> <<>>]
  /\ versions = <<>> /\ indexed = {} /\ head = [r \in Runs |-> None]
  /\ receipts = {}
  /\ client = [c \in Clients |-> Idle]
  /\ deaths = 0

Review(c) ==
  \/ PrepareNew(c) \/ PrepareSource(c) \/ PrepareRebind(c) \/ Draft(c)
  \/ \E n \in 0..1 : PublishDraft(c, n) \/ PublishApproval(c, n)
  \/ Approve(c) \/ ApproveCurrent(c) \/ PublishRejected(c)
Scheduling(c) ==
  \/ \E r \in Runs : Submit(c, r)
  \/ \E n \in 0..2 : CommitSubmit(c, n)
  \/ SubmitRejected(c)
Publishing(c) ==
  \/ \E r \in Runs : Finalize(c, r) \/ \E g \in 0..Len(figures[r]) : Recover(c, r, g)
  \/ RecoverPublished(c) \/ Build(c) \/ DeliveryRejected(c)
  \/ \E n \in 0..4 : PublishDelivery(c, n)
Accepting(c) ==
  \/ \E r \in Runs : Confirm(c, r)
  \/ \E n \in 0..1 : ConfirmDelivery(c, n)
  \/ ConfirmRejected(c)
RunSteps(r) == Resubmit(r) \/ Execute(r) \/ Cancel(r) \/ IssueFigures(r) \/ SealFigures(r)

Next ==
  \/ CadWork
  \/ \E c \in Clients : Review(c) \/ Scheduling(c) \/ Publishing(c) \/ Accepting(c)
  \/ \E r \in Runs : RunSteps(r)
Spec == Init /\ [][Next]_vars

\* A call that began goes on until it returns, and somebody asks again for
\* the publication of a run until it is recorded.
Proceeds(c) ==
  client[c].pc # "idle" /\ (Review(c) \/ Scheduling(c) \/ Publishing(c) \/ Accepting(c))
Fairness ==
  /\ \A c \in Clients : WF_vars(Proceeds(c))
  /\ \A c \in Clients, r \in Runs : SF_vars(Finalize(c, r)) /\ SF_vars(Recover(c, r, 0))
FairSpec == Spec /\ Fairness

-----------------------------------------------------------------------------
(* Properties *)

\* Every reference that is kept names a review record or a delivery directory
\* that was published before.
References ==
  /\ Exists =>
       /\ {analysis.ref, analysis.approval} \subseteq DOMAIN revisions \cup {None}
       /\ {analysis.delivered, analysis.accepted} \subseteq DOMAIN versions \cup {None}
  /\ \A p \in DOMAIN revisions : revisions[p].of \in DOMAIN revisions \cup {None}
  /\ \A r \in Runs :
       /\ run[r].ref \in DOMAIN revisions \cup {None}
       /\ {run[r].completion, head[r]} \subseteq DOMAIN versions \cup {None}
  /\ indexed \cup receipts \subseteq DOMAIN versions
  /\ \A c \in Clients : client[c].ref \in DOMAIN revisions \cup {None}

\* Every record is of its type, and every reference in it resolves.
TypeOK ==
  /\ {origin, model} \subseteq Contents
  /\ analysis \in Analysis \cup {None}
  /\ revisions \in Seq(Revision)
  /\ run \in [Runs -> Run]
  /\ figures \in [Runs -> Seq({"prepared", "sealed"})]
  /\ versions \in Seq(Version)
  /\ head \in [Runs -> Reference]
  /\ client \in [Clients -> Client]
  /\ deaths \in 0..MaxDeaths
  /\ References

\* The approval in force is for what is in force: it froze a review that was
\* ready, of the same specification and of the source the analysis is bound
\* to now.  No other geometry or specification ever inherits it, whatever was
\* rebound, drafted or approved meanwhile by other clients.
ApprovalReviewed ==
  Exists /\ analysis.approval # None =>
    LET frozen == revisions[analysis.approval]
        review == revisions[frozen.of]
    IN /\ analysis.approval = analysis.ref
       /\ frozen.status = "approved" /\ frozen.of # None
       /\ frozen.source = analysis.source /\ frozen.spec = analysis.spec
       /\ review = [frozen EXCEPT !.status = "ready_for_review", !.of = None]

\* A delivery the analysis names can still be shown: it is in the index, its
\* run is completed, and the version its run selects is that one or a later
\* one, even though its publication may have stopped after any of its files.
\* (With two deaths there may be two versions and no head, which nothing
\* recovers.)
DeliveredSelectable ==
  Exists /\ analysis.delivered # None /\ deaths <= 1 =>
    LET v == analysis.delivered
        r == versions[v].run
    IN /\ v \in indexed
       /\ Selectable(r)
       /\ versions[Selected(r)].run = r /\ Selected(r) >= v

\* A presentation head is only ever seen with everything it stands for: its
\* version is indexed, belongs to that run, and the run is completed by a
\* version of its own that is not newer.
HeadComplete ==
  \A r \in Runs : head[r] # None =>
    /\ head[r] \in indexed /\ versions[head[r]].run = r
    /\ run[r].status = "completed" /\ run[r].completion \in Of(r)
    /\ run[r].completion <= head[r]

\* What is accepted is at that moment what its run selects, reached from an
\* approved revision that is still the one in force, although the report was
\* read before the locks were taken and a revision may have died between its
\* head file and analysis.json.
AcceptsSelected ==
  [][Exists /\ analysis'.accepted # analysis.accepted =>
       LET v == analysis'.accepted
           r == versions[v].run
       IN /\ Selectable(r) /\ Selected(r) = v
          /\ run[r].ref = analysis.approval /\ analysis.latest = r]_vars

\* A run that waits for its visual review does not hold the analysis for ever:
\* its publication is completed or somebody cancels it, after whichever of its
\* files a publication died on the way.  (Checked with one death, as
\* DeliveredSelectable is.)
PublicationEnds ==
  \A r \in Runs :
    (run[r].status = "awaiting_visual_review") ~> (Exists /\ analysis.active # r)
=============================================================================
