------------------------- MODULE AnalysisReview_proofs -------------------------
(***************************************************************************)
(* Theorems about one analysis: an approval stays bound to what was        *)
(* reviewed, and deliveries, heads and acceptances to what was published,  *)
(* whatever several clients do between their locked sections and whichever *)
(* of their files are left unwritten.                                      *)
(***************************************************************************)
EXTENDS AnalysisReview, SequenceTheorems, FiniteSetTheorems, TLAPS

\* What a client that is somewhere holds: the analysis exists, the revision
\* it names has the status it read, and it speaks of a run.
Fits(s) ==
  /\ s.ref \in DOMAIN revisions \cup {None}
  /\ s.pc \notin {"idle", "creating"} => Exists
  /\ s.pc \in {"approving", "approved"} =>
       s.ref # None /\ revisions[s.ref].status = "ready_for_review"
  /\ s.pc = "submitting" => s.ref # None /\ revisions[s.ref].status = "approved"
  /\ s.pc \in {"submitting", "recovering", "building", "staged", "confirming"} => s.run \in Runs
  /\ s.pc = "staged" => s.version \in Nat
ClientInv == \A c \in Clients : Fits(client[c])

\* Only an approved record names a review, runs are of approved records, and
\* an approved record in force is the approval in force.
ReviewInv ==
  /\ \A p \in DOMAIN revisions : revisions[p].status # "approved" => revisions[p].of = None
  /\ \A r \in Runs :
       run[r].status # "absent" =>
         Exists /\ run[r].ref # None /\ revisions[run[r].ref].status = "approved"
  /\ Exists /\ analysis.ref # None /\ revisions[analysis.ref].status = "approved" =>
       analysis.approval = analysis.ref
  /\ ApprovalReviewed

\* A completed run is completed by an indexed version of its own; its head, if
\* it has one, is not older.  Without a death there is always a head, and with
\* one of them a run without a head has no other version.
Completed(r) == run[r].status = "completed"
Presented(r) ==
  /\ Completed(r) => run[r].completion \in Of(r) \cap indexed
  /\ head[r] # None =>
       Completed(r) /\ head[r] \in Of(r) \cap indexed /\ run[r].completion <= head[r]
  /\ deaths = 0 => IF Completed(r) THEN head[r] # None ELSE Of(r) = {}
  /\ deaths <= 1 /\ Completed(r) /\ head[r] = None => Of(r) = {run[r].completion}
\* A version that can be shown: its run selects it or a later one.
Shown(v) ==
  /\ v \in indexed /\ run[versions[v].run].status = "completed"
  /\ head[versions[v].run] # None => v <= head[versions[v].run]
Named == Exists /\ analysis.delivered # None => Shown(analysis.delivered)
DeliveryInv == (\A r \in Runs : Presented(r)) /\ Named

Inv == TypeOK /\ ClientInv /\ ReviewInv /\ DeliveryInv

-----------------------------------------------------------------------------
(* What a step leaves in place *)

\* The types without those of the clients.
SharedOK ==
  /\ {origin, model} \subseteq Contents
  /\ analysis \in Analysis \cup {None}
  /\ revisions \in Seq(Revision)
  /\ run \in [Runs -> Run]
  /\ figures \in [Runs -> Seq({"prepared", "sealed"})]
  /\ versions \in Seq(Version)
  /\ head \in [Runs -> Reference]
  /\ deaths \in 0..MaxDeaths
  /\ Exists =>
       /\ {analysis.ref, analysis.approval} \subseteq DOMAIN revisions \cup {None}
       /\ {analysis.delivered, analysis.accepted} \subseteq DOMAIN versions \cup {None}
  /\ \A p \in DOMAIN revisions : revisions[p].of \in DOMAIN revisions \cup {None}
  /\ \A r \in Runs :
       /\ run[r].ref \in DOMAIN revisions \cup {None}
       /\ {run[r].completion, head[r]} \subseteq DOMAIN versions \cup {None}
  /\ indexed \cup receipts \subseteq DOMAIN versions

LEMMA TypeParts ==
  ASSUME SharedOK', client' \in [Clients -> Client], ClientInv' PROVE TypeOK'
BY DEF SharedOK, TypeOK, References, ClientInv, Fits

LEMMA TypeShared ==
  ASSUME TypeOK PROVE SharedOK /\ client \in [Clients -> Client]
BY DEF SharedOK, TypeOK, References

\* Revisions are only added, and an analysis stays.
Grown ==
  /\ Exists => Exists'
  /\ DOMAIN revisions \subseteq DOMAIN revisions'
  /\ \A p \in DOMAIN revisions : revisions'[p] = revisions[p]

LEMMA VersionType ==
  ASSUME Inv, NEW v \in DOMAIN versions
  PROVE  versions[v] \in Version /\ versions[v].run \in Runs /\ v \in 1..Len(versions)
<1>1. versions \in Seq(Version) BY DEF Inv, TypeOK
<1>2. versions[v] \in Version /\ v \in 1..Len(versions) BY <1>1
<1> QED BY <1>2 DEF Version

LEMMA RevisionType ==
  ASSUME Inv, NEW p \in DOMAIN revisions
  PROVE  revisions[p] \in Revision /\ p \in 1..Len(revisions) /\ p \in Nat /\ p # None
<1>1. revisions \in Seq(Revision) BY DEF Inv, TypeOK
<1>2. revisions[p] \in Revision /\ p \in 1..Len(revisions) /\ p \in Nat BY <1>1
<1> QED BY <1>2, ReviewAssumption

LEMMA IdleFits == Idle \in Client /\ Fits(Idle) /\ Fits(Idle)'
<1>1. Idle \in Client BY DEF Idle, Client, Reference
<1> QED BY <1>1 DEF Idle, Fits

\* What a client holds survives what the others do.
LEMMA HoldsOn ==
  ASSUME Inv, Grown, NEW d \in Clients, NEW s, s = client[d] \/ s = Noticed[d]
  PROVE  s \in Client /\ Fits(s)'
<1>1. client[d] \in Client /\ Fits(client[d]) BY DEF Inv, TypeOK, ClientInv
<1>2. CASE s = client[d] BY <1>1, <1>2 DEF Grown, Fits
<1>3. CASE s = Idle BY <1>3, IdleFits
<1>4. CASE s = [client[d] EXCEPT !.stale = TRUE]
  <2>1. s \in Client BY <1>1, <1>4 DEF Client
  <2>2. /\ s.pc = client[d].pc /\ s.ref = client[d].ref /\ s.run = client[d].run
        /\ s.version = client[d].version
    BY <1>1, <1>4 DEF Client
  <2> QED BY <1>1, <2>1, <2>2 DEF Grown, Fits
<1> QED BY <1>2, <1>3, <1>4 DEF Noticed

LEMMA ClientsKeep ==
  ASSUME Inv, Grown, NEW c \in Clients, NEW step \in Client, Moves(c, step) \/ Wrote(c, step),
         Fits(step)'
  PROVE  client' \in [Clients -> Client] /\ ClientInv'
<1>1. client \in [Clients -> Client] BY DEF Inv, TypeOK
<1>2. \A d \in Clients :
        client'[d] = IF d = c THEN step ELSE IF Moves(c, step) THEN client[d] ELSE Noticed[d]
  BY <1>1 DEF Moves, Wrote, Noticed
<1>3. client' = [d \in Clients |-> client'[d]]
  BY <1>1 DEF Moves, Wrote, Noticed
<1>4. ASSUME NEW d \in Clients, NEW s, s = client'[d] PROVE s \in Client /\ Fits(s)'
  <2>1. CASE d = c BY <1>2, <1>4, <2>1
  <2>2. CASE d # c BY <1>2, <1>4, <2>2, HoldsOn
  <2> QED BY <2>1, <2>2
<1>5. client' \in [Clients -> Client] BY <1>3, <1>4
<1> QED BY <1>4, <1>5 DEF ClientInv, Fits

LEMMA ClientsNotice ==
  ASSUME Inv, Grown, client' \in {client, Noticed}
  PROVE  client' \in [Clients -> Client] /\ ClientInv'
<1>1. client \in [Clients -> Client] BY DEF Inv, TypeOK
<1>2. client' = [d \in Clients |-> client'[d]] BY <1>1 DEF Noticed
<1>3. ASSUME NEW d \in Clients, NEW s, s = client'[d] PROVE s \in Client /\ Fits(s)'
  BY <1>3, HoldsOn
<1>4. client' \in [Clients -> Client] BY <1>2, <1>3
<1> QED BY <1>3, <1>4 DEF ClientInv, Fits

\* What the reviews, and what the deliveries depend on.
SameReview ==
  /\ revisions' = revisions /\ (Exists' <=> Exists)
  /\ Exists => /\ analysis'.ref = analysis.ref /\ analysis'.approval = analysis.approval
               /\ analysis'.source = analysis.source /\ analysis'.spec = analysis.spec
  /\ \A r \in Runs :
       /\ run'[r].ref = run[r].ref
       /\ run'[r].status = "absent" <=> run[r].status = "absent"
SameVersions ==
  /\ UNCHANGED delivery /\ deaths' \in Nat /\ deaths <= deaths'
  /\ \A r \in Runs :
       /\ Completed(r)' <=> Completed(r)
       /\ Completed(r) => run'[r].completion = run[r].completion
SameDelivery ==
  /\ SameVersions
  /\ Exists' /\ analysis'.delivered # None => Exists /\ analysis'.delivered = analysis.delivered

LEMMA ReviewStays == ASSUME ReviewInv, SameReview PROVE ReviewInv'
<1>1. ApprovalReviewed' BY DEF ReviewInv, SameReview, ApprovalReviewed
<1> QED BY <1>1 DEF ReviewInv, SameReview

LEMMA VersionsStay == ASSUME Inv, SameVersions PROVE \A r \in Runs : Presented(r)'
<1>1. UNCHANGED <<versions, indexed, head>> /\ deaths \in Nat
  BY DEF SameVersions, delivery, Inv, TypeOK
<1> SUFFICES ASSUME NEW r \in Runs PROVE Presented(r)' OBVIOUS
<1>2. Of(r)' = Of(r) BY <1>1 DEF Of
<1> QED BY <1>1, <1>2 DEF Inv, DeliveryInv, SameVersions, Presented

LEMMA DeliveryStays == ASSUME Inv, SameDelivery PROVE DeliveryInv'
<1>1. UNCHANGED <<versions, indexed, head>> BY DEF SameDelivery, SameVersions, delivery
<1>2. \A r \in Runs : Presented(r)' BY VersionsStay DEF SameDelivery
<1>3. ASSUME Exists', analysis'.delivered # None
      PROVE  analysis'.delivered = analysis.delivered /\ Shown(analysis.delivered)'
  <2> DEFINE v == analysis.delivered
  <2>1. Exists /\ analysis'.delivered = v BY <1>3 DEF SameDelivery
  <2>2. v \in DOMAIN versions BY <1>3, <2>1 DEF Inv, TypeOK, References
  <2>3. versions[v].run \in Runs BY <2>2, VersionType
  <2>4. Shown(v) BY <1>3, <2>1 DEF Inv, DeliveryInv, Named
  <2> HIDE DEF v
  <2>5. run'[versions[v].run].status = "completed"
    BY <2>3, <2>4 DEF SameDelivery, SameVersions, Shown, Completed
  <2>6. v \in indexed' /\ versions' = versions /\ head' = head BY <1>1, <2>4 DEF Shown
  <2> QED BY <1>3, <2>1, <2>4, <2>5, <2>6 DEF Shown, v
<1>4. Named' BY <1>3 DEF Named, Shown
<1> QED BY <1>2, <1>4 DEF DeliveryInv

Shared == <<files, analysis, revisions, run, figures, delivery, receipts, deaths>>

LEMMA SharedStays ==
  ASSUME Inv, UNCHANGED <<analysis, revisions, run, delivery, receipts, deaths>>,
         {origin', model'} \subseteq Contents,
         figures' \in [Runs -> Seq({"prepared", "sealed"})]
  PROVE  SharedOK' /\ ReviewInv' /\ DeliveryInv' /\ Grown
<1>1. SharedOK' BY TypeShared DEF SharedOK, Inv, delivery, Exists
<1>2. SameReview BY DEF SameReview, Exists
<1>3. deaths \in Nat BY DEF Inv, TypeOK
<1>4. SameDelivery BY <1>3 DEF SameDelivery, SameVersions, Exists, Completed
<1>5. Grown BY DEF Grown, Exists
<1> QED BY <1>1, <1>2, <1>4, <1>5, ReviewStays, DeliveryStays DEF Inv

\* A step of one client that takes no lock, or finds that it may not go on.
LEMMA MovesKeep ==
  ASSUME Inv, NEW c \in Clients, NEW step \in Client, Moves(c, step), Fits(step),
         UNCHANGED Shared
  PROVE  Inv'
<1>1. UNCHANGED <<files, analysis, revisions, run, figures, delivery, receipts, deaths>>
  BY DEF Shared
<1>2. {origin', model'} \subseteq Contents /\ figures' \in [Runs -> Seq({"prepared", "sealed"})]
  BY <1>1 DEF Inv, TypeOK, files
<1>3. SharedOK' /\ ReviewInv' /\ DeliveryInv' /\ Grown BY <1>1, <1>2, SharedStays
<1>4. Fits(step)' BY <1>1 DEF Fits, Exists
<1> QED BY <1>3, <1>4, ClientsKeep, TypeParts DEF Inv

LEMMA RejectedKeeps ==
  ASSUME Inv, NEW c \in Clients, Rejected(c), UNCHANGED Shared PROVE Inv'
BY IdleFits, MovesKeep DEF Rejected

LEMMA ClientType ==
  ASSUME Inv, NEW c \in Clients PROVE client[c] \in Client /\ Fits(client[c])
BY DEF Inv, TypeOK, ClientInv

\* CAD work and the registered figures concern nothing else.
LEMMA FilesKeep ==
  ASSUME Inv, UNCHANGED <<analysis, revisions, run, delivery, receipts, client, deaths>>,
         {origin', model'} \subseteq Contents,
         figures' \in [Runs -> Seq({"prepared", "sealed"})]
  PROVE  Inv'
<1>1. SharedOK' /\ ReviewInv' /\ DeliveryInv' /\ Grown BY SharedStays
<1> QED BY <1>1, ClientsNotice, TypeParts DEF Inv

LEMMA CadKeeps == ASSUME Inv, CadWork PROVE Inv'
<1>1. {origin', model'} \subseteq Contents /\ figures' = figures
  BY DEF CadWork, EditOrigin, EditModel, Inv, TypeOK
<1>2. figures' \in [Runs -> Seq({"prepared", "sealed"})] BY <1>1 DEF Inv, TypeOK
<1> QED BY <1>1, <1>2, FilesKeep DEF CadWork

LEMMA FiguresKeep ==
  ASSUME Inv, NEW r \in Runs, IssueFigures(r) \/ SealFigures(r) PROVE Inv'
<1>1. figures[r] \in Seq({"prepared", "sealed"}) /\ {origin', model'} \subseteq Contents
  BY DEF Inv, TypeOK, IssueFigures, SealFigures, files
<1>2. PICK f \in Seq({"prepared", "sealed"}) : figures' = [figures EXCEPT ![r] = f]
  <2>1. CASE IssueFigures(r)
    <3>1. Append(figures[r], "prepared") \in Seq({"prepared", "sealed"}) BY <1>1
    <3> QED BY <2>1, <3>1 DEF IssueFigures
  <2>2. CASE SealFigures(r)
    <3>1. PICK g \in DOMAIN figures[r] : figures' = [figures EXCEPT ![r][g] = "sealed"]
      BY <2>2 DEF SealFigures
    <3>2. [figures[r] EXCEPT ![g] = "sealed"] \in Seq({"prepared", "sealed"})
      BY <1>1, <3>1, ExceptSeq
    <3> QED BY <3>1, <3>2
  <2> QED BY <2>1, <2>2
<1>3. figures' \in [Runs -> Seq({"prepared", "sealed"})] BY <1>2 DEF Inv, TypeOK
<1> QED BY <1>1, <1>3, FilesKeep DEF IssueFigures, SealFigures

-----------------------------------------------------------------------------
(* Steps of a client without a lock, and rejections *)

LEMMA AnalysisType ==
  ASSUME Inv, Exists
  PROVE  /\ analysis \in Analysis
         /\ {analysis.ref, analysis.approval} \subseteq DOMAIN revisions \cup {None}
         /\ {analysis.delivered, analysis.accepted} \subseteq DOMAIN versions \cup {None}
BY DEF Inv, TypeOK, References, Exists

LEMMA StartsKeep ==
  ASSUME Inv, NEW c \in Clients,
         PrepareNew(c) \/ (Exists /\ Moves(c, [Idle EXCEPT !.pc = "drafting"]) /\ UNCHANGED Shared)
  PROVE  Inv'
<1>1. \A pc \in {"creating", "drafting"} : [Idle EXCEPT !.pc = pc] \in Client
  BY DEF Idle, Client, Reference
<1>2. CASE PrepareNew(c)
  <2>1. Fits([Idle EXCEPT !.pc = "creating"]) BY DEF Fits, Idle
  <2> QED BY <1>1, <1>2, <2>1, MovesKeep DEF PrepareNew, Shared
<1>3. CASE Exists /\ Moves(c, [Idle EXCEPT !.pc = "drafting"]) /\ UNCHANGED Shared
  <2>1. Fits([Idle EXCEPT !.pc = "drafting"]) BY <1>3 DEF Fits, Idle
  <2> QED BY <1>1, <1>3, <2>1, MovesKeep
<1> QED BY <1>2, <1>3

LEMMA DraftKeeps == ASSUME Inv, NEW c \in Clients, Draft(c) PROVE Inv'
<1>1. UNCHANGED Shared BY DEF Draft, Shared
<1>2. ASSUME NEW ready \in BOOLEAN,
             Moves(c, [client[c] EXCEPT !.pc = "drafted", !.source = analysis.source,
                                        !.ready = ready])
      PROVE  Inv'
  <2> DEFINE step == [client[c] EXCEPT !.pc = "drafted", !.source = analysis.source,
                                       !.ready = ready]
  <2>1. client[c] \in Client /\ Fits(client[c]) /\ client[c].pc = "drafting"
    BY ClientType DEF Draft
  <2>2. Exists BY <2>1 DEF Fits
  <2>3. analysis.source \in Source BY <2>2, AnalysisType DEF Analysis
  <2>4. step \in Client BY <2>1, <2>3 DEF Client
  <2>5. step.pc = "drafted" /\ step.ref = client[c].ref BY <2>1 DEF Client
  <2>6. Fits(step)
    <3> HIDE DEF step
    <3> QED BY <2>1, <2>2, <2>5 DEF Fits
  <2> QED BY <1>1, <1>2, <2>4, <2>6, MovesKeep
<1> QED BY <1>1, <1>2, RejectedKeeps DEF Draft

LEMMA ApproveKeeps ==
  ASSUME Inv, NEW c \in Clients, Approve(c) \/ ApproveCurrent(c) PROVE Inv'
<1>1. UNCHANGED Shared BY DEF Approve, ApproveCurrent, Shared
<1>2. CASE Approve(c)
  <2> DEFINE step == [Idle EXCEPT !.pc = "approving", !.ref = analysis.ref]
  <2>1. Exists /\ analysis.ref \in Reference /\ analysis.ref \in DOMAIN revisions
    BY <1>2, AnalysisType DEF Approve, Analysis
  <2>2. step \in Client /\ Fits(step)
    BY <1>2, <2>1 DEF Approve, Idle, Client, Reference, Fits
  <2> QED BY <1>1, <1>2, <2>2, MovesKeep DEF Approve
<1>3. CASE ApproveCurrent(c) /\ Moves(c, [client[c] EXCEPT !.pc = "approved"])
  <2> DEFINE step == [client[c] EXCEPT !.pc = "approved"]
  <2>1. client[c] \in Client /\ Fits(client[c]) /\ client[c].pc = "approving"
    BY <1>3, ClientType DEF ApproveCurrent
  <2>2. step \in Client /\ step.pc = "approved" /\ step.ref = client[c].ref
    BY <2>1 DEF Client
  <2>3. Fits(step)
    <3> HIDE DEF step
    <3> QED BY <2>1, <2>2 DEF Fits
  <2> QED BY <1>1, <1>3, <2>2, <2>3, MovesKeep
<1> QED BY <1>1, <1>2, <1>3, RejectedKeeps DEF ApproveCurrent

LEMMA SubmitKeeps == ASSUME Inv, NEW c \in Clients, NEW r \in Runs, Submit(c, r) PROVE Inv'
<1> DEFINE step == [Idle EXCEPT !.pc = "submitting", !.run = r, !.ref = analysis.ref]
<1>1. /\ Exists /\ analysis.approval # None /\ revisions[analysis.ref].status = "approved"
      /\ Moves(c, step) /\ UNCHANGED Shared
  BY DEF Submit, Shared
<1>2. analysis.ref \in Reference /\ analysis.ref \in DOMAIN revisions \cup {None}
  BY <1>1, AnalysisType DEF Analysis
<1>3. analysis.ref # None BY <1>1 DEF Inv, ReviewInv, ApprovalReviewed
<1>4. step \in Client BY <1>2 DEF Idle, Client, Reference
<1>5. Fits(step) BY <1>1, <1>2, <1>3 DEF Idle, Fits
<1> QED BY <1>1, <1>4, <1>5, MovesKeep

\* What a run selects is an indexed version of its own.
LEMMA SelectedOwn ==
  ASSUME Inv, NEW r \in Runs, Completed(r)
  PROVE  /\ Selected(r) \in Of(r) \cap indexed /\ Selected(r) \in DOMAIN versions
         /\ Selected(r) \in Nat /\ versions[Selected(r)].run = r
<1>1. Presented(r) BY DEF Inv, DeliveryInv
<1>2. Selected(r) \in Of(r) \cap indexed BY <1>1 DEF Presented, Selected
<1>3. versions \in Seq(Version) BY DEF Inv, TypeOK
<1> QED BY <1>2, <1>3 DEF Of

LEMMA ReportsKeep ==
  ASSUME Inv, NEW c \in Clients, NEW r \in Runs,
         Finalize(c, r) \/ (\E g \in Nat : Recover(c, r, g)) \/ Confirm(c, r)
  PROVE  Inv'
<1>1. UNCHANGED Shared /\ Exists BY DEF Finalize, Recover, Confirm, Shared
<1>2. CASE Finalize(c, r)
  <2> DEFINE step == [Idle EXCEPT !.pc = "building", !.run = r]
  <2>1. step \in Client /\ Fits(step) BY <1>1 DEF Idle, Client, Reference, Fits
  <2> QED BY <1>1, <1>2, <2>1, MovesKeep DEF Finalize
<1>3. ASSUME NEW g \in Nat, Recover(c, r, g) PROVE Inv'
  <2> DEFINE step == [Idle EXCEPT !.pc = "recovering", !.run = r, !.gui = g,
                                  !.version = Selected(r)]
  <2>1. Selected(r) \in Nat BY <1>3, SelectedOwn DEF Recover, Selectable, Completed
  <2>2. step \in Client /\ Fits(step) BY <1>1, <2>1 DEF Idle, Client, Reference, Fits
  <2> QED BY <1>1, <1>3, <2>2, MovesKeep DEF Recover
<1>4. CASE Confirm(c, r)
  <2> DEFINE step == [Idle EXCEPT !.pc = "confirming", !.run = r, !.version = Selected(r)]
  <2>1. Selected(r) \in Nat BY <1>4, SelectedOwn DEF Confirm, Selectable, Completed
  <2>2. step \in Client /\ Fits(step) BY <1>1, <2>1 DEF Idle, Client, Reference, Fits
  <2> QED BY <1>1, <1>4, <2>2, MovesKeep DEF Confirm
<1> QED BY <1>2, <1>3, <1>4

LEMMA OfNumber == ASSUME Inv, NEW r PROVE Cardinality(Of(r)) \in Nat
<1>1. versions \in Seq(Version) BY DEF Inv, TypeOK
<1>2. DOMAIN versions = 1..Len(versions) /\ Len(versions) \in Nat BY <1>1
<1>3. IsFiniteSet(DOMAIN versions) BY <1>2, FS_Interval
<1>4. Of(r) \subseteq DOMAIN versions BY DEF Of
<1> QED BY <1>3, <1>4, FS_Subset, FS_CardinalityType

LEMMA BuildKeeps == ASSUME Inv, NEW c \in Clients, Build(c) PROVE Inv'
<1>1. UNCHANGED Shared BY DEF Build, Shared
<1> DEFINE n == Cardinality(Of(client[c].run)) + 1
           step == [client[c] EXCEPT !.pc = "staged", !.version = n]
<1>2. CASE Moves(c, step)
  <2>1. client[c] \in Client /\ Fits(client[c]) /\ client[c].pc = "building"
    BY ClientType DEF Build
  <2>2. n \in Nat BY OfNumber
  <2> HIDE DEF n
  <2>3. step \in Client /\ step.pc = "staged" /\ step.ref = client[c].ref
        /\ step.run = client[c].run /\ step.version = n
    BY <2>1, <2>2 DEF Client, Reference
  <2>4. Fits(step)
    <3> HIDE DEF step
    <3> QED BY <2>1, <2>2, <2>3 DEF Fits
  <2> QED BY <1>1, <1>2, <2>3, <2>4, MovesKeep
<1> QED BY <1>1, <1>2, RejectedKeeps DEF Build

LEMMA RejectionsKeep ==
  ASSUME Inv, NEW c \in Clients,
         PublishRejected(c) \/ SubmitRejected(c) \/ DeliveryRejected(c) \/ ConfirmRejected(c)
  PROVE  Inv'
BY RejectedKeeps
DEF PublishRejected, SubmitRejected, DeliveryRejected, ConfirmRejected, Shared

-----------------------------------------------------------------------------
(* Replacements of analysis.json alone *)

LEMMA WritesKeep ==
  ASSUME Inv, NEW c \in Clients, NEW step \in Client, Moves(c, step) \/ Wrote(c, step),
         Fits(step)', analysis' \in Analysis,
         {analysis'.ref, analysis'.approval} \subseteq DOMAIN revisions \cup {None},
         {analysis'.delivered, analysis'.accepted} \subseteq DOMAIN versions \cup {None},
         UNCHANGED <<files, revisions, run, figures, delivery>>,
         receipts' \subseteq DOMAIN versions, deaths' \in 0..MaxDeaths, ReviewInv', DeliveryInv'
  PROVE  Inv'
<1>1. analysis' # None BY ReviewAssumption
<1>2. Grown BY <1>1 DEF Grown, Exists
<1>3. SharedOK' BY TypeShared DEF SharedOK, Inv, files, delivery, Exists
<1> QED BY <1>2, <1>3, ClientsKeep, TypeParts DEF Inv

LEMMA DiesType ==
  ASSUME Inv, NEW done, Dies(done)
  PROVE  /\ deaths' \in 0..MaxDeaths /\ deaths' \in Nat /\ deaths \in Nat /\ deaths <= deaths'
         /\ ~done => deaths' = deaths + 1
<1>1. deaths \in 0..MaxDeaths /\ MaxDeaths \in Nat BY ReviewAssumption DEF Inv, TypeOK
<1> QED BY <1>1 DEF Dies

LEMMA PrepareKeeps ==
  ASSUME Inv, NEW c \in Clients, PrepareSource(c) \/ PrepareRebind(c) PROVE Inv'
<1> DEFINE step == [Idle EXCEPT !.pc = "drafting"]
<1>1. Present \in Source /\ DraftStatus \in {"draft", "needs_input"}
  BY DEF Present, Source, DraftStatus, Inv, TypeOK
<1>2. CASE Exists /\ (PrepareSource(c) \/ analysis.source = Present)
  <2>1. UNCHANGED Shared BY <1>2 DEF PrepareSource, PrepareRebind, Shared
  <2>2. Rejected(c) \/ (Exists /\ Moves(c, step))
    BY <1>2 DEF PrepareSource, PrepareRebind
  <2> QED BY <2>1, <2>2, RejectedKeeps, StartsKeep
<1>3. CASE ~(Exists /\ (PrepareSource(c) \/ analysis.source = Present))
  <2>1. Wrote(c, step) /\ UNCHANGED <<files, revisions, run, figures, delivery, receipts, deaths>>
    BY <1>3 DEF PrepareSource, PrepareRebind
  <2>2. /\ analysis' \in Analysis /\ analysis'.ref = None /\ analysis'.approval = None
        /\ analysis'.delivered = IF Exists THEN analysis.delivered ELSE None
        /\ analysis'.accepted = IF Exists THEN analysis.accepted ELSE None
    <3>1. CASE ~Exists
      BY <1>1, <1>3, <3>1 DEF PrepareSource, PrepareRebind, Analysis, Reference
    <3>2. CASE Exists
      <4>1. analysis' = Rebound BY <1>3, <3>2 DEF PrepareSource, PrepareRebind
      <4>2. analysis \in Analysis BY <3>2, AnalysisType
      <4> QED BY <1>1, <3>2, <4>1, <4>2 DEF Rebound, Analysis, Reference
    <3> QED BY <3>1, <3>2
  <2>3. analysis' # None BY <2>2, ReviewAssumption
  <2>4. step \in Client /\ Fits(step)'
    BY <2>3 DEF Idle, Client, Reference, Fits, Exists
  <2>5. {analysis'.delivered, analysis'.accepted} \subseteq DOMAIN versions \cup {None}
    BY <2>2, AnalysisType
  <2>6. ReviewInv' BY <2>1, <2>2, <2>3 DEF Inv, ReviewInv, ApprovalReviewed, Exists
  <2>7. deaths' \in Nat /\ deaths <= deaths' /\ deaths' \in 0..MaxDeaths
        /\ receipts' \subseteq DOMAIN versions
    BY <2>1 DEF Inv, TypeOK, References
  <2>8. SameDelivery BY <2>1, <2>2, <2>7 DEF SameDelivery, SameVersions, Completed
  <2> QED BY <2>1, <2>2, <2>4, <2>5, <2>6, <2>7, <2>8, DeliveryStays, WritesKeep
<1> QED BY <1>2, <1>3

LEMMA ConfirmKeeps ==
  ASSUME Inv, NEW c \in Clients, NEW n \in 0..1, ConfirmDelivery(c, n) PROVE Inv'
<1> DEFINE v == client[c].version
<1>1. /\ client[c] \in Client /\ Exists /\ client[c].run \in Runs
      /\ Completed(client[c].run) /\ Selected(client[c].run) = v
  BY ClientType DEF ConfirmDelivery, MayAccept, Selectable, Completed, Fits
<1>2. v \in DOMAIN versions BY <1>1, SelectedOwn
<1>3. UNCHANGED <<files, revisions, run, figures, delivery>> BY DEF ConfirmDelivery
<1>4. receipts' \subseteq DOMAIN versions
  BY <1>2 DEF ConfirmDelivery, Inv, TypeOK, References
<1>5. /\ analysis \in Analysis
      /\ {analysis.ref, analysis.approval} \subseteq DOMAIN revisions \cup {None}
      /\ {analysis.delivered, analysis.accepted} \subseteq DOMAIN versions \cup {None}
  BY <1>1, AnalysisType
<1>6. v \in Nat BY <1>1, SelectedOwn
<1>7. /\ analysis' \in Analysis /\ analysis'.ref = analysis.ref
      /\ analysis'.approval = analysis.approval /\ analysis'.source = analysis.source
      /\ analysis'.spec = analysis.spec /\ analysis'.delivered = analysis.delivered
      /\ analysis'.accepted \in {analysis.accepted, v}
  <2>1. analysis' = analysis \/ analysis' = [analysis EXCEPT !.accepted = v]
    BY DEF ConfirmDelivery
  <2> HIDE DEF v
  <2> QED BY <1>5, <1>6, <2>1 DEF Analysis, Reference
<1>8. Moves(c, Idle) \/ Wrote(c, Idle) BY DEF ConfirmDelivery, Rejected
<1>9. deaths' \in 0..MaxDeaths /\ deaths' \in Nat /\ deaths <= deaths'
  BY DiesType DEF ConfirmDelivery
<1>10. analysis' # None /\ analysis # None BY <1>1, <1>7, ReviewAssumption DEF Exists
<1>11. SameReview BY <1>3, <1>7, <1>10 DEF SameReview, Exists
<1>12. SameDelivery
  BY <1>3, <1>7, <1>9, <1>10 DEF SameDelivery, SameVersions, Exists, Completed
<1>13. Idle \in Client /\ Fits(Idle)' BY IdleFits
<1>14. ReviewInv' BY <1>11, ReviewStays DEF Inv
<1>15. DeliveryInv' BY <1>12, DeliveryStays
<1>16. {analysis'.delivered, analysis'.accepted} \subseteq DOMAIN versions \cup {None}
  BY <1>2, <1>5, <1>7
<1> HIDE DEF v
<1> QED
  BY <1>3, <1>4, <1>5, <1>7, <1>8, <1>9, <1>13, <1>14, <1>15, <1>16, WritesKeep

LEMMA RecoveredKeeps == ASSUME Inv, NEW c \in Clients, RecoverPublished(c) PROVE Inv'
<1> DEFINE r == client[c].run
           v == client[c].version
           next == [client[c] EXCEPT !.pc = "building", !.version = None]
           later == [next EXCEPT !.stale = TRUE]
<1>1. client[c] \in Client /\ Fits(client[c]) /\ client[c].pc = "recovering"
  BY ClientType DEF RecoverPublished
<1>2. r \in Runs /\ Exists BY <1>1 DEF Fits
<1>3. /\ next \in Client /\ next.pc = "building" /\ next.ref = client[c].ref /\ next.run = r
      /\ later \in Client /\ later.pc = "building" /\ later.ref = client[c].ref /\ later.run = r
  BY <1>1 DEF Client, Reference
<1>4. Fits(next) /\ Fits(later)
  <2> HIDE DEF next, later
  <2> QED BY <1>1, <1>2, <1>3 DEF Fits
<1>5. UNCHANGED <<files, revisions, run, figures, delivery, receipts, deaths>>
  BY DEF RecoverPublished
<1>6. \A step : Continues(c, step) \in {step, Idle} BY DEF Continues
<1>7. CASE Rejected(c) /\ UNCHANGED analysis
  BY <1>5, <1>7, RejectedKeeps DEF Shared
<1>8. CASE Moves(c, Continues(c, next)) /\ UNCHANGED analysis
  <2>1. UNCHANGED Shared BY <1>5, <1>8 DEF Shared
  <2>2. Continues(c, next) \in Client /\ Fits(Continues(c, next))
    <3>1. Continues(c, next) = next \/ Continues(c, next) = Idle BY <1>6
    <3> HIDE DEF next
    <3> QED BY <1>3, <1>4, <3>1, IdleFits
  <2> QED BY <1>8, <2>1, <2>2, MovesKeep
<1>9. CASE /\ Selectable(r) /\ Selected(r) = v
           /\ analysis' = [analysis EXCEPT !.status = "completed", !.active = None,
                                           !.delivered = v]
           /\ Wrote(c, Continues(c, later))
  <2>1. Completed(r) BY <1>9 DEF Selectable, Completed
  <2>2. v \in indexed /\ v \in DOMAIN versions /\ v \in Nat /\ versions[v].run = r
    BY <1>2, <1>9, <2>1, SelectedOwn
  <2>3. /\ analysis \in Analysis
        /\ {analysis.ref, analysis.approval} \subseteq DOMAIN revisions \cup {None}
        /\ {analysis.delivered, analysis.accepted} \subseteq DOMAIN versions \cup {None}
    BY <1>2, AnalysisType
  <2>4. /\ analysis' \in Analysis /\ analysis'.ref = analysis.ref
        /\ analysis'.approval = analysis.approval /\ analysis'.source = analysis.source
        /\ analysis'.spec = analysis.spec /\ analysis'.delivered = v
        /\ analysis'.accepted = analysis.accepted
    <3> HIDE DEF v
    <3> QED BY <1>9, <2>2, <2>3 DEF Analysis, Reference, RunStatus, Terminal
  <2>5. analysis' # None BY <2>4, ReviewAssumption
  <2>6. Fits(Idle)' /\ Idle \in Client BY IdleFits
  <2>7. ASSUME NEW step \in Client, Fits(step) PROVE Fits(step)'
    BY <1>5, <2>5, <2>7 DEF Fits, Exists
  <2>8. \E step \in Client : Wrote(c, step) /\ Fits(step)'
    <3>1. Continues(c, later) = later \/ Continues(c, later) = Idle BY <1>6
    <3> HIDE DEF later
    <3> QED BY <1>3, <1>4, <1>9, <2>6, <2>7, <3>1
  <2>9. SameReview BY <1>2, <1>5, <2>4, <2>5 DEF SameReview, Exists
  <2>10. deaths' \in Nat /\ deaths <= deaths' /\ deaths' \in 0..MaxDeaths
         /\ receipts' \subseteq DOMAIN versions
    BY <1>5 DEF Inv, TypeOK, References
  <2>11. \A q \in Runs : Presented(q)'
    BY <1>5, <2>10, VersionsStay DEF SameVersions, Completed
  <2>12. Shown(v)
    BY <2>1, <2>2, <1>9 DEF Shown, Completed, Selected
  <2>13. Named'
    <3> HIDE DEF v
    <3> QED BY <1>5, <2>4, <2>12 DEF Named, Shown, delivery
  <2>14. ReviewInv' /\ DeliveryInv'
    BY <2>9, <2>11, <2>13, ReviewStays DEF DeliveryInv, Inv
  <2> HIDE DEF v
  <2> QED BY <1>5, <2>2, <2>3, <2>4, <2>8, <2>10, <2>14, WritesKeep
<1> QED BY <1>7, <1>8, <1>9 DEF RecoverPublished

-----------------------------------------------------------------------------
(* Publication of a revision *)

LEMMA PublishKeeps ==
  ASSUME Inv, Exists, NEW c \in Clients, NEW n \in 0..1, NEW record \in Revision,
         Publish(c, n, record), record.source = analysis.source,
         record.status # "approved" => record.of = None,
         record.status = "approved" =>
           /\ record.of \in DOMAIN revisions
           /\ revisions[record.of] = [record EXCEPT !.status = "ready_for_review", !.of = None]
  PROVE  Inv'
<1> DEFINE ref == Len(revisions) + 1
<1>1. revisions \in Seq(Revision) /\ revisions' = Append(revisions, record)
  BY DEF Publish, Inv, TypeOK
<1>2. /\ revisions' \in Seq(Revision) /\ ref \in DOMAIN revisions' /\ revisions'[ref] = record
      /\ DOMAIN revisions' = DOMAIN revisions \cup {ref}
      /\ \A p \in DOMAIN revisions : revisions'[p] = revisions[p]
      /\ ref \in Nat /\ ref \notin DOMAIN revisions
  BY <1>1
<1>3. ref # None /\ None \notin DOMAIN revisions
  BY <1>2, RevisionType, ReviewAssumption
<1> HIDE DEF ref
<1>4. /\ analysis \in Analysis
      /\ {analysis.ref, analysis.approval} \subseteq DOMAIN revisions \cup {None}
      /\ {analysis.delivered, analysis.accepted} \subseteq DOMAIN versions \cup {None}
  BY AnalysisType
<1>5. UNCHANGED <<files, run, figures, delivery, receipts>> BY DEF Publish
<1>6. deaths' \in 0..MaxDeaths /\ deaths' \in Nat /\ deaths <= deaths'
  BY DiesType DEF Publish
<1>7. \/ UNCHANGED analysis
      \/ analysis' = [analysis EXCEPT !.spec = record.spec, !.status = record.status,
           !.ref = ref, !.approval = IF record.status = "approved" THEN ref ELSE None]
  BY DEF Publish, Published, ref
<1>8. /\ analysis' \in Analysis /\ analysis'.source = analysis.source
      /\ analysis'.delivered = analysis.delivered /\ analysis'.accepted = analysis.accepted
      /\ \/ /\ analysis'.ref = analysis.ref /\ analysis'.approval = analysis.approval
            /\ analysis'.spec = analysis.spec
         \/ /\ analysis'.ref = ref /\ analysis'.spec = record.spec
            /\ analysis'.approval = IF record.status = "approved" THEN ref ELSE None
  <2>1. record.spec \in Nat /\ record.status \in {"needs_input", "ready_for_review", "approved"}
    BY DEF Revision
  <2> QED BY <1>2, <1>4, <1>7, <2>1 DEF Analysis, Reference
<1>9. analysis' # None BY <1>8, ReviewAssumption
<1>10. Grown BY <1>2, <1>9 DEF Grown, Exists
<1>11. SharedOK'
  <2>1. record.of \in DOMAIN revisions' \cup {None} BY <1>2
  <2>2. \A p \in DOMAIN revisions' : revisions'[p].of \in DOMAIN revisions' \cup {None}
    BY <1>2, <2>1 DEF Inv, TypeOK, References
  <2>3. /\ {analysis'.ref, analysis'.approval} \subseteq DOMAIN revisions' \cup {None}
        /\ {analysis'.delivered, analysis'.accepted} \subseteq DOMAIN versions \cup {None}
    BY <1>2, <1>4, <1>8
  <2> QED
    BY <1>2, <1>5, <1>6, <1>8, <2>2, <2>3, TypeShared DEF SharedOK, Inv, files, delivery
<1>12. SameDelivery
  BY <1>5, <1>6, <1>8 DEF SameDelivery, SameVersions, Completed, Exists
<1>13. ReviewInv'
  <2>1. \A p \in DOMAIN revisions' :
          revisions'[p].status # "approved" => revisions'[p].of = None
    BY <1>2 DEF Inv, ReviewInv
  <2>2. \A r \in Runs : run'[r].status # "absent" =>
          Exists' /\ run'[r].ref # None /\ revisions'[run'[r].ref].status = "approved"
    BY <1>2, <1>5, <1>9 DEF Inv, ReviewInv, TypeOK, References, Exists
  <2>3. analysis'.ref # None /\ revisions'[analysis'.ref].status = "approved" =>
          analysis'.approval = analysis'.ref
    BY <1>2, <1>4, <1>8 DEF Inv, ReviewInv
  <2>4. ApprovalReviewed'
    <3>1. CASE analysis'.ref = ref
      <4>1. analysis'.approval # None => record.status = "approved" /\ analysis'.approval = ref
        <5>1. ref \notin DOMAIN revisions \cup {None} BY <1>2, <1>3
        <5> QED BY <1>4, <1>8, <3>1, <5>1
      <4>2. analysis'.spec = record.spec
        <5>1. ref \notin DOMAIN revisions \cup {None} BY <1>2, <1>3
        <5> QED BY <1>4, <1>8, <3>1, <5>1
      <4> QED BY <1>2, <1>3, <1>8, <3>1, <4>1, <4>2 DEF ApprovalReviewed
    <3>2. CASE analysis'.ref # ref
      <4>1. /\ analysis'.ref = analysis.ref /\ analysis'.approval = analysis.approval
            /\ analysis'.spec = analysis.spec
        BY <1>8, <3>2
      <4>2. analysis.approval # None =>
              /\ analysis.approval \in DOMAIN revisions
              /\ revisions[analysis.approval].of \in DOMAIN revisions
        BY <1>4 DEF Inv, ReviewInv, ApprovalReviewed, TypeOK, References
      <4>3. analysis.approval # None =>
              /\ revisions'[analysis.approval] = revisions[analysis.approval]
              /\ revisions'[revisions[analysis.approval].of] =
                   revisions[revisions[analysis.approval].of]
        BY <1>2, <4>2
      <4>4. ApprovalReviewed BY DEF Inv, ReviewInv
      <4> QED BY <1>8, <4>1, <4>3, <4>4 DEF ApprovalReviewed
    <3> QED BY <3>1, <3>2
  <2> QED BY <2>1, <2>2, <2>3, <2>4 DEF ReviewInv
<1>14. Moves(c, Idle) \/ Wrote(c, Idle) BY DEF Publish, Rejected
<1> QED
  BY <1>10, <1>11, <1>12, <1>13, <1>14, IdleFits, ClientsKeep, DeliveryStays, TypeParts
  DEF Inv

LEMMA PublishesKeep ==
  ASSUME Inv, NEW c \in Clients, NEW n \in 0..1, PublishDraft(c, n) \/ PublishApproval(c, n)
  PROVE  Inv'
<1>1. client[c] \in Client /\ Fits(client[c]) BY ClientType
<1>2. Exists BY <1>1 DEF PublishDraft, PublishApproval, Fits
<1>3. analysis \in Analysis BY <1>2, AnalysisType
<1>4. CASE PublishDraft(c, n)
  <2> DEFINE record == [spec |-> analysis.spec + 1, source |-> client[c].source, of |-> None,
                        status |-> IF client[c].ready THEN "ready_for_review"
                                   ELSE "needs_input"]
  <2>1. client[c].source = analysis.source BY <1>4 DEF PublishDraft, MayPublish
  <2>2. record \in Revision BY <1>3, <2>1 DEF Analysis, Revision, Reference
  <2>3. record.source = analysis.source /\ record.of = None /\ record.status # "approved"
    BY <2>1
  <2>4. Publish(c, n, record) BY <1>4 DEF PublishDraft
  <2> HIDE DEF record
  <2> QED BY <1>2, <2>2, <2>3, <2>4, PublishKeeps
<1>5. CASE PublishApproval(c, n)
  <2> DEFINE review == revisions[client[c].ref]
             record == [review EXCEPT !.status = "approved", !.of = client[c].ref]
  <2>1. client[c].ref \in DOMAIN revisions /\ review.status = "ready_for_review"
    BY <1>1, <1>5 DEF PublishApproval, Fits
  <2>2. review \in Revision /\ client[c].ref \in Nat BY <2>1, RevisionType
  <2>3. review.of = None BY <2>1 DEF Inv, ReviewInv
  <2>4. review.source = analysis.source BY <1>5 DEF PublishApproval, MayPublish
  <2>5. Publish(c, n, record) BY <1>5 DEF PublishApproval
  <2> HIDE DEF review
  <2>6. /\ record \in Revision /\ record.source = analysis.source
        /\ record.status = "approved" /\ record.of = client[c].ref
    BY <2>2, <2>4 DEF Revision, Reference
  <2>7. review = [record EXCEPT !.status = "ready_for_review", !.of = None]
    BY <2>1, <2>2, <2>3 DEF Revision
  <2> HIDE DEF record
  <2> QED BY <1>2, <2>1, <2>5, <2>6, <2>7, PublishKeeps DEF review
<1> QED BY <1>4, <1>5

-----------------------------------------------------------------------------
(* Runs *)

LEMMA SyncedType ==
  ASSUME Inv, Exists, NEW r \in Runs, NEW st \in RunStatus
  PROVE  /\ Synced(r, st) \in Analysis /\ Synced(r, st).ref = analysis.ref
         /\ Synced(r, st).approval = analysis.approval /\ Synced(r, st).source = analysis.source
         /\ Synced(r, st).spec = analysis.spec /\ Synced(r, st).delivered = analysis.delivered
         /\ Synced(r, st).accepted = analysis.accepted
<1>1. analysis \in Analysis BY AnalysisType
<1>2. Summary(st) \in {"needs_attention"} \cup RunStatus BY DEF Summary
<1> QED BY <1>1, <1>2 DEF Synced, Analysis

\* A run that exists goes from one status to another; neither is "completed".
LEMMA RunMoves ==
  ASSUME Inv, NEW r \in Runs, NEW st \in RunStatus, st \notin {"absent", "completed"},
         run[r].status \notin {"absent", "completed"}, NEW record \in Run,
         record.status = st, record.ref = run[r].ref, record.completion = run[r].completion,
         run' = [run EXCEPT ![r] = record], Sync(r, st),
         UNCHANGED <<files, revisions, delivery, receipts, deaths>>,
         figures' \in [Runs -> Seq({"prepared", "sealed"})]
  PROVE  Inv'
<1>1. run \in [Runs -> Run] /\ Exists BY DEF Inv, TypeOK, ReviewInv
<1>2. /\ run' \in [Runs -> Run] /\ run'[r] = record
      /\ \A q \in Runs \ {r} : run'[q] = run[q]
  BY <1>1
<1>3. /\ analysis \in Analysis
      /\ {analysis.ref, analysis.approval} \subseteq DOMAIN revisions \cup {None}
      /\ {analysis.delivered, analysis.accepted} \subseteq DOMAIN versions \cup {None}
  BY <1>1, AnalysisType
<1>4. /\ analysis' \in Analysis /\ analysis'.ref = analysis.ref
      /\ analysis'.approval = analysis.approval /\ analysis'.source = analysis.source
      /\ analysis'.spec = analysis.spec /\ analysis'.delivered = analysis.delivered
      /\ analysis'.accepted = analysis.accepted /\ client' \in {client, Noticed}
  BY <1>1, <1>3, SyncedType DEF Sync
<1>5. Exists' BY <1>4, ReviewAssumption DEF Exists
<1>6. \A q \in Runs : /\ run'[q].ref = run[q].ref /\ run'[q].completion = run[q].completion
                      /\ run'[q].status = "absent" <=> run[q].status = "absent"
                      /\ run'[q].status = "completed" <=> run[q].status = "completed"
  BY <1>2
<1>7. deaths \in Nat BY DEF Inv, TypeOK
<1>8. ReviewInv'
  <2>1. SameReview BY <1>1, <1>4, <1>5, <1>6 DEF SameReview
  <2> QED BY <2>1, ReviewStays DEF Inv
<1>9. DeliveryInv'
  <2>1. SameDelivery
    BY <1>1, <1>4, <1>6, <1>7 DEF SameDelivery, SameVersions, Completed
  <2> QED BY <2>1, DeliveryStays
<1>10. Grown BY <1>5 DEF Grown
<1>11. SharedOK'
  BY <1>2, <1>3, <1>4, <1>6, TypeShared DEF SharedOK, Inv, files, delivery
<1> QED BY <1>4, <1>8, <1>9, <1>10, <1>11, ClientsNotice, TypeParts DEF Inv

LEMMA RunStepsKeep ==
  ASSUME Inv, NEW r \in Runs, Resubmit(r) \/ Execute(r) \/ Cancel(r) PROVE Inv'
<1>1. run \in [Runs -> Run] /\ run[r] \in Run /\ figures \in [Runs -> Seq({"prepared", "sealed"})]
  BY DEF Inv, TypeOK
<1>2. CASE Resubmit(r)
  <2>1. PICK st \in RunStatus :
          /\ run[r].status \in {"queued", "awaiting_visual_review"}
          /\ st \in {"interrupted", run[r].status}
          /\ run' = [run EXCEPT ![r].status = st] /\ Sync(r, st)
    BY <1>2 DEF Resubmit, RunStatus, Terminal
  <2> DEFINE record == [run[r] EXCEPT !.status = st]
  <2>2. /\ record \in Run /\ record.status = st /\ record.ref = run[r].ref
        /\ record.completion = run[r].completion
    BY <1>1 DEF Run
  <2>3. run' = [run EXCEPT ![r] = record] BY <2>1
  <2> HIDE DEF record
  <2>4. figures' \in [Runs -> Seq({"prepared", "sealed"})] BY <1>1, <1>2 DEF Resubmit
  <2>5. st \notin {"absent", "completed"} /\ run[r].status \notin {"absent", "completed"}
    BY <2>1
  <2>6. UNCHANGED <<files, revisions, delivery, receipts, deaths>> BY <1>2 DEF Resubmit
  <2> QED BY <2>1, <2>2, <2>3, <2>4, <2>5, <2>6, RunMoves
<1>3. CASE Execute(r) \/ Cancel(r)
  <2>1. PICK st \in RunStatus :
          /\ st \in {"awaiting_visual_review", "failed", "cancelled"}
          /\ run' = [run EXCEPT ![r].status = st, ![r].queued = FALSE] /\ Sync(r, st)
          /\ figures' = figures \/ figures' = [figures EXCEPT ![r] = <<"sealed">>]
    BY <1>1, <1>3 DEF Execute, Cancel, RunStatus, Terminal
  <2>2. run[r].status \in {"queued", "awaiting_visual_review"}
    BY <1>3 DEF Execute, Cancel
  <2> DEFINE record == [run[r] EXCEPT !.status = st, !.queued = FALSE]
  <2>3. /\ record \in Run /\ record.status = st /\ record.ref = run[r].ref
        /\ record.completion = run[r].completion
    BY <1>1 DEF Run
  <2>4. run' = [run EXCEPT ![r] = record] BY <1>1, <2>1
  <2> HIDE DEF record
  <2>5. <<"sealed">> \in Seq({"prepared", "sealed"}) OBVIOUS
  <2>6. figures' \in [Runs -> Seq({"prepared", "sealed"})] BY <1>1, <2>1, <2>5
  <2>7. st \notin {"absent", "completed"} /\ run[r].status \notin {"absent", "completed"}
    BY <2>1, <2>2
  <2>8. UNCHANGED <<files, revisions, delivery, receipts, deaths>>
    BY <1>3 DEF Execute, Cancel
  <2> QED BY <2>1, <2>3, <2>4, <2>6, <2>7, <2>8, RunMoves
<1> QED BY <1>2, <1>3

LEMMA CommitKeeps == ASSUME Inv, NEW c \in Clients, NEW n \in 0..2, CommitSubmit(c, n) PROVE Inv'
<1> DEFINE r == client[c].run
           record == [NoRun EXCEPT !.status = "queued", !.ref = client[c].ref, !.queued = n > 0]
<1>1. client[c] \in Client /\ Fits(client[c]) /\ client[c].pc = "submitting"
  BY ClientType DEF CommitSubmit
<1>2. /\ Exists /\ r \in Runs /\ client[c].ref \in DOMAIN revisions
      /\ revisions[client[c].ref].status = "approved"
  BY <1>1 DEF Fits
<1>3. client[c].ref \in Nat /\ client[c].ref # None BY <1>2, RevisionType
<1>4. /\ record \in Run /\ record.status = "queued" /\ record.ref = client[c].ref
      /\ record.completion = None
  <2>1. (n > 0) \in BOOLEAN OBVIOUS
  <2> QED BY <1>3, <2>1 DEF NoRun, Run, Reference, RunStatus
<1>5. run' = [run EXCEPT ![r] = record] /\ run[r].status = "absent"
  BY DEF CommitSubmit, MayCommit
<1>6. UNCHANGED <<files, revisions, figures, delivery, receipts>> BY DEF CommitSubmit
<1>7. run \in [Runs -> Run] BY DEF Inv, TypeOK
<1> HIDE DEF record
<1>8. /\ run' \in [Runs -> Run] /\ run'[r] = record /\ \A q \in Runs \ {r} : run'[q] = run[q]
  BY <1>2, <1>4, <1>5, <1>7
<1>9. /\ analysis \in Analysis
      /\ {analysis.ref, analysis.approval} \subseteq DOMAIN revisions \cup {None}
      /\ {analysis.delivered, analysis.accepted} \subseteq DOMAIN versions \cup {None}
  BY <1>2, AnalysisType
<1>10. /\ analysis' \in Analysis /\ analysis'.ref = analysis.ref
       /\ analysis'.approval = analysis.approval /\ analysis'.source = analysis.source
       /\ analysis'.spec = analysis.spec /\ analysis'.delivered = analysis.delivered
       /\ analysis'.accepted = analysis.accepted
  <2>1. "queued" \in RunStatus BY DEF RunStatus
  <2> QED BY <1>2, <1>9, <2>1, SyncedType DEF CommitSubmit
<1>11. Moves(c, Idle) \/ Wrote(c, Idle) BY DEF CommitSubmit, Rejected
<1>12. deaths' \in 0..MaxDeaths /\ deaths' \in Nat /\ deaths <= deaths'
  BY DiesType DEF CommitSubmit
<1>13. Exists' BY <1>10, ReviewAssumption DEF Exists
<1>14. Grown BY <1>6, <1>13 DEF Grown
<1>15. ReviewInv'
  <2>1. \A q \in Runs : run'[q].status # "absent" =>
          Exists' /\ run'[q].ref # None /\ revisions'[run'[q].ref].status = "approved"
    BY <1>2, <1>3, <1>4, <1>6, <1>8, <1>13 DEF Inv, ReviewInv
  <2>2. ApprovalReviewed'
    BY <1>2, <1>6, <1>10 DEF Inv, ReviewInv, ApprovalReviewed
  <2> QED BY <1>2, <1>6, <1>10, <2>1, <2>2 DEF Inv, ReviewInv
<1>16. DeliveryInv'
  <2>1. \A q \in Runs : /\ run'[q].status = "completed" <=> run[q].status = "completed"
                        /\ run[q].status = "completed" => run'[q].completion = run[q].completion
    BY <1>4, <1>5, <1>8
  <2>2. SameDelivery
    BY <1>2, <1>6, <1>10, <1>12, <2>1 DEF SameDelivery, SameVersions, Completed
  <2> QED BY <2>2, DeliveryStays
<1>17. SharedOK'
  <2>1. \A q \in Runs : /\ run'[q].ref \in DOMAIN revisions \cup {None}
                        /\ run'[q].completion \in DOMAIN versions \cup {None}
    BY <1>2, <1>4, <1>8 DEF Inv, TypeOK, References
  <2> QED
    BY <1>6, <1>8, <1>9, <1>10, <1>12, <2>1, TypeShared DEF SharedOK, Inv, files, delivery
<1> QED BY <1>11, <1>14, <1>15, <1>16, <1>17, IdleFits, ClientsKeep, TypeParts DEF Inv

-----------------------------------------------------------------------------
(* Publication of a delivery *)

\* What n files of the publication of version v of run r have made of the
\* delivery: the directory, then the index, run.json and the head.
Publication(r, v, n) ==
  /\ v = Len(versions) + 1
  /\ \E entry \in Version : entry.run = r /\ versions' = Append(versions, entry)
  /\ indexed' = IF n >= 1 THEN indexed \cup {v} ELSE indexed
  /\ run' = IF n >= 2 /\ ~Completed(r)
            THEN [run EXCEPT ![r].status = "completed", ![r].completion = v] ELSE run
  /\ head' = IF n >= 3 THEN [head EXCEPT ![r] = v] ELSE head
  /\ Dies(n = 4)

\* The same, one part at a time: the directory and the index,
Placed(r, v, n) ==
  /\ v \in Nat /\ v # None /\ v \notin DOMAIN versions
  /\ versions' \in Seq(Version) /\ DOMAIN versions' = DOMAIN versions \cup {v}
  /\ versions'[v].run = r
  /\ \A w \in DOMAIN versions : versions'[w] = versions[w] /\ w \in Nat /\ w < v
  /\ indexed' \subseteq DOMAIN versions' /\ indexed \subseteq indexed'
  /\ n >= 1 => v \in indexed'
\* the run and its head, and what concerns the other runs.
Pointed(r, v, n) ==
  /\ run' \in [Runs -> Run] /\ head' \in [Runs -> Reference]
  /\ \A q \in Runs : run'[q].ref = run[q].ref
  /\ \A q \in Runs \ {r} : run'[q] = run[q] /\ head'[q] = head[q]
  /\ n >= 3 => head'[r] = v
  /\ n < 3 => head'[r] = head[r]
  /\ n >= 2 /\ ~Completed(r) => run'[r].status = "completed" /\ run'[r].completion = v
  /\ n < 2 \/ Completed(r) => run'[r] = run[r]

LEMMA PublicationPlaces ==
  ASSUME Inv, NEW r \in Runs, NEW v, NEW n \in 0..4, Publication(r, v, n)
  PROVE  Placed(r, v, n)
<1>1. PICK entry \in Version :
        /\ entry.run = r /\ versions' = Append(versions, entry) /\ v = Len(versions) + 1
  BY DEF Publication
<1>2. versions \in Seq(Version) BY DEF Inv, TypeOK
<1>3. /\ v \in Nat /\ v \notin DOMAIN versions /\ versions' \in Seq(Version)
      /\ DOMAIN versions' = DOMAIN versions \cup {v} /\ versions'[v] = entry
      /\ \A w \in DOMAIN versions : versions'[w] = versions[w] /\ w \in Nat /\ w < v
  BY <1>1, <1>2
<1>4. v # None BY <1>3, ReviewAssumption
<1>5. indexed' = IF n >= 1 THEN indexed \cup {v} ELSE indexed BY DEF Publication
<1>6. indexed \subseteq DOMAIN versions BY DEF Inv, TypeOK, References
<1>7. /\ indexed' \subseteq DOMAIN versions' /\ indexed \subseteq indexed'
      /\ n >= 1 => v \in indexed'
  BY <1>3, <1>5, <1>6
<1> QED BY <1>1, <1>3, <1>4, <1>7 DEF Placed

LEMMA PublicationPoints ==
  ASSUME Inv, NEW r \in Runs, NEW v \in Nat, NEW n \in 0..4, Publication(r, v, n)
  PROVE  Pointed(r, v, n)
<1>1. /\ head' = IF n >= 3 THEN [head EXCEPT ![r] = v] ELSE head
      /\ run' = IF n >= 2 /\ ~Completed(r)
                THEN [run EXCEPT ![r].status = "completed", ![r].completion = v] ELSE run
  BY DEF Publication
<1>2. run \in [Runs -> Run] /\ run[r] \in Run /\ head \in [Runs -> Reference]
  BY DEF Inv, TypeOK
<1>3. /\ head' \in [Runs -> Reference] /\ \A q \in Runs \ {r} : head'[q] = head[q]
      /\ n >= 3 => head'[r] = v
      /\ n < 3 => head'[r] = head[r]
  BY <1>1, <1>2 DEF Reference
<1> DEFINE record == [run[r] EXCEPT !.status = "completed", !.completion = v]
<1>4. /\ record \in Run /\ record.status = "completed" /\ record.completion = v
      /\ record.ref = run[r].ref
  BY <1>2 DEF Run, RunStatus, Terminal, Reference
<1>5. n >= 2 /\ ~Completed(r) => run' = [run EXCEPT ![r] = record] BY <1>1, <1>2
<1>6. n < 2 \/ Completed(r) => run' = run BY <1>1
<1> HIDE DEF record
<1>7. CASE n >= 2 /\ ~Completed(r) BY <1>2, <1>3, <1>4, <1>5, <1>7 DEF Pointed
<1>8. CASE n < 2 \/ Completed(r) BY <1>2, <1>3, <1>6, <1>8 DEF Pointed
<1> QED BY <1>7, <1>8

LEMMA PresentedAfter ==
  ASSUME Inv, NEW r \in Runs, NEW v, NEW n \in 0..4, Dies(n = 4),
         Placed(r, v, n), Pointed(r, v, n)
  PROVE  \A q \in Runs : Presented(q)'
<1>1. /\ deaths' \in Nat /\ deaths \in Nat /\ deaths <= deaths'
      /\ n # 4 => deaths' = deaths + 1
  BY DiesType
<1>2. Of(r)' = Of(r) \cup {v} /\ \A q \in Runs \ {r} : Of(q)' = Of(q)
  BY DEF Of, Placed
<1> SUFFICES ASSUME NEW q \in Runs PROVE Presented(q)' OBVIOUS
<1>3. Presented(q) BY DEF Inv, DeliveryInv
<1>4. indexed \subseteq indexed' BY DEF Placed
<1>5. CASE q # r
  <2>1. Of(q)' = Of(q) /\ run'[q] = run[q] /\ head'[q] = head[q]
    BY <1>2, <1>5 DEF Pointed
  <2> QED BY <1>1, <1>3, <1>4, <2>1 DEF Presented, Completed
<1>6. CASE q = r
  <2>1. /\ v \in Nat /\ v # None
        /\ n >= 1 => v \in indexed'
        /\ n >= 3 => head'[r] = v
        /\ n < 3 => head'[r] = head[r]
    BY DEF Placed, Pointed
  <2>2. CASE Completed(r)
    <3>1. run'[r] = run[r] /\ Completed(r)' BY <2>2 DEF Pointed, Completed
    <3>2. run[r].completion < v /\ run[r].completion \in Nat
      BY <1>3, <1>6, <2>2 DEF Presented, Of, Placed
    <3>3. /\ run'[r].completion = run[r].completion /\ Of(r)' = Of(r) \cup {v}
          /\ run[r].completion \in Of(r) \cap indexed
      BY <1>2, <1>3, <1>6, <2>2, <3>1 DEF Presented
    <3>4. CASE n >= 3
      <4>1. head'[r] = v /\ v \in indexed' /\ v \in Of(r)' BY <1>2, <2>1, <3>4
      <4> QED BY <1>1, <1>4, <1>6, <2>1, <3>1, <3>2, <3>3, <4>1 DEF Presented
    <3>5. CASE n < 3
      <4>1. head'[r] = head[r] /\ deaths' # 0 BY <1>1, <2>1, <3>5
      <4>2. deaths' <= 1 => head[r] # None
        BY <1>1, <1>3, <1>6, <2>2, <3>5 DEF Presented
      <4> QED BY <1>3, <1>4, <1>6, <2>2, <3>1, <3>3, <4>1, <4>2 DEF Presented
    <3> QED BY <3>4, <3>5
  <2>3. CASE ~Completed(r)
    <3>1. head[r] = None /\ (deaths = 0 => Of(r) = {})
      BY <1>3, <1>6, <2>3 DEF Presented
    <3>2. /\ n >= 2 => Completed(r)' /\ run'[r].completion = v
          /\ n < 2 => ~Completed(r)'
      BY <2>3 DEF Pointed, Completed
    <3>3. deaths = 0 => Of(r)' = {v} BY <1>2, <3>1
    <3>4. v \in Of(r)' BY <1>2
    <3>5. CASE n < 2
      <4>1. ~Completed(r)' /\ head'[r] = None /\ deaths' # 0
        BY <1>1, <2>1, <3>1, <3>2, <3>5
      <4> QED BY <1>6, <4>1 DEF Presented
    <3>6. CASE n = 2
      <4>1. /\ Completed(r)' /\ run'[r].completion = v /\ head'[r] = None /\ v \in indexed'
            /\ deaths' # 0
        BY <1>1, <2>1, <3>1, <3>2, <3>6
      <4>2. deaths' <= 1 => Of(r)' = {v} BY <1>1, <3>3, <3>6
      <4> QED BY <1>6, <3>4, <4>1, <4>2 DEF Presented
    <3>7. CASE n >= 3
      <4>1. /\ Completed(r)' /\ run'[r].completion = v /\ head'[r] = v /\ v \in indexed'
            /\ v <= v
        BY <2>1, <3>2, <3>7
      <4> QED BY <1>6, <2>1, <3>4, <4>1 DEF Presented
    <3> QED BY <3>5, <3>6, <3>7
  <2> QED BY <2>2, <2>3
<1> QED BY <1>5, <1>6

LEMMA ShownAfter ==
  ASSUME Inv, NEW r \in Runs, NEW v, NEW n \in 0..4, Placed(r, v, n), Pointed(r, v, n)
  PROVE  /\ \A w \in DOMAIN versions : Shown(w) => Shown(w)'
         /\ n = 4 => Shown(v)'
<1>1. ASSUME NEW w \in DOMAIN versions, Shown(w) PROVE Shown(w)'
  <2> DEFINE q == versions[w].run
  <2>1. versions'[w] = versions[w] /\ w \in Nat /\ w < v /\ w \in indexed' /\ v \in Nat
    BY <1>1 DEF Shown, Placed
  <2>2. q \in Runs BY VersionType
  <2>3. run[q].status = "completed" /\ (head[q] # None => w <= head[q]) BY <1>1 DEF Shown
  <2> HIDE DEF q
  <2>4. run'[q].status = "completed" /\ (head'[q] # None => w <= head'[q])
    <3>1. CASE q = r BY <2>1, <2>2, <2>3, <3>1 DEF Pointed, Completed
    <3>2. CASE q # r BY <2>2, <2>3, <3>2 DEF Pointed
    <3> QED BY <3>1, <3>2
  <2> QED BY <2>1, <2>4 DEF Shown, q
<1>2. CASE n = 4
  <2>1. /\ versions'[v].run = r /\ v \in indexed' /\ head'[r] = v /\ v \in Nat
    BY <1>2 DEF Placed, Pointed
  <2>2. run'[r].status = "completed" BY <1>2 DEF Pointed, Completed
  <2>3. v <= head'[r] BY <2>1
  <2> QED BY <1>1, <2>1, <2>2, <2>3 DEF Shown
<1> QED BY <1>1, <1>2

LEMMA DeliveredType ==
  ASSUME Inv, Exists, NEW c \in Clients, client[c].run \in Runs, NEW v \in Nat
  PROVE  /\ Delivered(c, v) \in Analysis /\ Delivered(c, v).ref = analysis.ref
         /\ Delivered(c, v).approval = analysis.approval
         /\ Delivered(c, v).source = analysis.source /\ Delivered(c, v).spec = analysis.spec
         /\ Delivered(c, v).delivered \in {analysis.delivered, v}
         /\ Delivered(c, v).accepted = analysis.accepted
<1>1. analysis \in Analysis BY AnalysisType
<1> DEFINE r == client[c].run
<1>2. \/ Delivered(c, v) = [analysis EXCEPT !.status = "completed", !.active = None,
                                            !.latest = r, !.delivered = v]
      \/ Delivered(c, v) = [analysis EXCEPT !.delivered = v]
      \/ Delivered(c, v) = analysis
  BY DEF Delivered
<1>3. r \in Runs OBVIOUS
<1> HIDE DEF r
<1> QED BY <1>1, <1>2, <1>3 DEF Analysis, Reference, RunStatus, Terminal

LEMMA DeliverKeeps ==
  ASSUME Inv, NEW c \in Clients, NEW n \in 0..4, PublishDelivery(c, n) PROVE Inv'
<1> PICK r, v : r = client[c].run /\ v = Len(versions) + 1 OBVIOUS
<1>1. client[c] \in Client /\ Fits(client[c]) /\ client[c].pc = "staged"
  BY ClientType DEF PublishDelivery
<1>2. r \in Runs /\ Exists BY <1>1 DEF Fits
<1>3. /\ run[r].status \in {"completed", "awaiting_visual_review"}
      /\ Revising(c) <=> run[r].status = "completed"
  BY DEF PublishDelivery, MayDeliver
<1>4. Publication(r, v, n)
  <2> DEFINE entry == [run |-> r, number |-> client[c].version,
                       gui |-> IF Revising(c) THEN client[c].gui ELSE 1]
  <2>1. client[c].version \in Nat /\ client[c].gui \in Nat BY <1>1 DEF Fits, Client
  <2>2. entry \in Version /\ entry.run = r BY <1>2, <2>1 DEF Version
  <2>3. versions' = Append(versions, entry) BY DEF PublishDelivery
  <2> HIDE DEF entry
  <2>4. \E e \in Version : e.run = r /\ versions' = Append(versions, e) BY <2>2, <2>3
  <2>5. run' = IF n >= 2 /\ ~Completed(r)
               THEN [run EXCEPT ![r].status = "completed", ![r].completion = v] ELSE run
    BY <1>3 DEF PublishDelivery, Completed
  <2> QED BY <2>4, <2>5 DEF PublishDelivery, Publication, HeadAt
<1>5. UNCHANGED <<files, revisions, figures, receipts>> BY DEF PublishDelivery
<1>6. UNCHANGED analysis \/ (n = 4 /\ analysis' = Delivered(c, v)) BY DEF PublishDelivery
<1>7. Moves(c, Idle) \/ Wrote(c, Idle) BY DEF PublishDelivery, Rejected
<1>8. Placed(r, v, n)
  <2> QED BY <1>2, <1>4, PublicationPlaces
<1>17. Pointed(r, v, n) /\ Dies(n = 4)
  <2> QED BY <1>2, <1>4, <1>8, PublicationPoints DEF Publication, Placed
<1>9. /\ analysis \in Analysis
      /\ {analysis.ref, analysis.approval} \subseteq DOMAIN revisions \cup {None}
      /\ {analysis.delivered, analysis.accepted} \subseteq DOMAIN versions \cup {None}
  BY <1>2, AnalysisType
<1>10. /\ analysis' \in Analysis /\ analysis'.ref = analysis.ref
       /\ analysis'.approval = analysis.approval /\ analysis'.source = analysis.source
       /\ analysis'.spec = analysis.spec /\ analysis'.accepted = analysis.accepted
       /\ analysis'.delivered = analysis.delivered \/ (n = 4 /\ analysis'.delivered = v)
  BY <1>2, <1>6, <1>8, <1>9, DeliveredType DEF Placed
<1>11. Exists' BY <1>10, ReviewAssumption DEF Exists
<1>12. Grown BY <1>5, <1>11 DEF Grown
<1>13. deaths' \in 0..MaxDeaths BY <1>17, DiesType
<1>14. ReviewInv'
  <2>1. \A q \in Runs : run'[q].status = "absent" <=> run[q].status = "absent"
    <3>1. run'[r].status # "absent" /\ run[r].status # "absent"
      BY <1>3, <1>17 DEF Pointed, Completed
    <3> QED BY <1>17, <3>1 DEF Pointed
  <2>2. \A q \in Runs : run'[q].ref = run[q].ref BY <1>17 DEF Pointed
  <2>3. SameReview BY <1>2, <1>5, <1>10, <1>11, <2>1, <2>2 DEF SameReview
  <2> QED BY <2>3, ReviewStays DEF Inv
<1>15. DeliveryInv'
  <2>1. \A q \in Runs : Presented(q)' BY <1>2, <1>8, <1>17, PresentedAfter
  <2>2. CASE analysis'.delivered = analysis.delivered
    <3>1. ASSUME NEW w, w = analysis.delivered, w # None PROVE Shown(w)'
      BY <1>2, <1>8, <1>9, <1>17, <3>1, ShownAfter DEF Inv, DeliveryInv, Named
    <3> QED BY <2>1, <2>2, <3>1 DEF DeliveryInv, Named, Shown
  <2>3. CASE n = 4 /\ analysis'.delivered = v
    <3>1. Shown(v)' BY <1>2, <1>8, <1>17, <2>3, ShownAfter
    <3> QED BY <2>1, <2>3, <3>1 DEF DeliveryInv, Named, Shown
  <2> QED BY <1>10, <2>2, <2>3
<1>16. SharedOK'
  <2>1. ASSUME NEW q \in Runs
        PROVE  /\ run'[q].ref \in DOMAIN revisions \cup {None}
               /\ {run'[q].completion, head'[q]} \subseteq DOMAIN versions' \cup {None}
    <3>1. /\ run[q].ref \in DOMAIN revisions \cup {None}
          /\ {run[q].completion, head[q]} \subseteq DOMAIN versions \cup {None}
      BY DEF Inv, TypeOK, References
    <3>2. run'[q].completion \in {run[q].completion, v} /\ head'[q] \in {head[q], v}
      <4>1. CASE q = r BY <1>17, <4>1 DEF Pointed
      <4>2. CASE q # r BY <1>17, <4>2 DEF Pointed
      <4> QED BY <4>1, <4>2
    <3>3. run'[q].ref = run[q].ref BY <1>17 DEF Pointed
    <3> QED BY <1>8, <3>1, <3>2, <3>3 DEF Placed
  <2>2. {analysis'.delivered, analysis'.accepted} \subseteq DOMAIN versions' \cup {None}
    BY <1>8, <1>9, <1>10 DEF Placed
  <2>3. /\ versions' \in Seq(Version) /\ DOMAIN versions \subseteq DOMAIN versions'
        /\ indexed' \subseteq DOMAIN versions'
        /\ run' \in [Runs -> Run] /\ head' \in [Runs -> Reference]
    BY <1>8, <1>17 DEF Placed, Pointed
  <2> QED
    BY <1>5, <1>9, <1>10, <1>13, <2>1, <2>2, <2>3, TypeShared DEF SharedOK, Inv, files
<1> QED BY <1>7, <1>12, <1>14, <1>15, <1>16, IdleFits, ClientsKeep, TypeParts DEF Inv

-----------------------------------------------------------------------------
(* The invariant *)

LEMMA InitInv == Init => Inv
<1> SUFFICES ASSUME Init PROVE Inv OBVIOUS
<1>1. ~Exists /\ revisions = <<>> /\ versions = <<>> /\ indexed = {} /\ receipts = {}
  BY DEF Init, Exists
<1>2. \A r \in Runs : run[r] = NoRun /\ head[r] = None BY DEF Init
<1>3. NoRun \in Run /\ NoRun.status = "absent" /\ NoRun.ref = None /\ NoRun.completion = None
  BY DEF NoRun, Run, RunStatus, Reference
<1>4. \A c \in Clients : client[c] = Idle BY DEF Init
<1>5. ClientInv BY <1>4, IdleFits DEF ClientInv
<1>6. ReviewInv BY <1>1, <1>2, <1>3 DEF ReviewInv, ApprovalReviewed
<1>7. DeliveryInv
  BY <1>1, <1>2, <1>3 DEF DeliveryInv, Named, Presented, Completed, Of
<1>8. References
  <2>1. Idle.ref = None BY DEF Idle
  <2> QED BY <1>1, <1>2, <1>3, <1>4, <2>1 DEF References
<1>9. TypeOK
  <2>1. run \in [Runs -> Run] /\ client \in [Clients -> Client] /\ head \in [Runs -> Reference]
    BY <1>3, IdleFits DEF Init, Reference
  <2>2. <<>> \in Seq({"prepared", "sealed"}) /\ <<>> \in Seq(Revision) /\ <<>> \in Seq(Version)
    OBVIOUS
  <2>3. 0 \in 0..MaxDeaths BY ReviewAssumption
  <2> QED BY <1>8, <2>1, <2>2, <2>3 DEF Init, TypeOK
<1> QED BY <1>5, <1>6, <1>7, <1>9 DEF Inv

LEMMA InvStep == Inv /\ [Next]_vars => Inv'
<1> SUFFICES ASSUME Inv, [Next]_vars PROVE Inv' OBVIOUS
<1>1. CASE UNCHANGED vars
  <2>1. UNCHANGED <<analysis, revisions, run, delivery, receipts, client, deaths>>
        /\ {origin', model'} \subseteq Contents
        /\ figures' \in [Runs -> Seq({"prepared", "sealed"})]
    BY <1>1 DEF vars, files, Inv, TypeOK
  <2> QED BY <2>1, FilesKeep
<1>2. CASE CadWork BY <1>2, CadKeeps
<1>3. ASSUME NEW c \in Clients, Review(c) PROVE Inv'
  <2>1. CASE PrepareNew(c) BY <2>1, StartsKeep
  <2>2. CASE PrepareSource(c) \/ PrepareRebind(c) BY <2>2, PrepareKeeps
  <2>3. CASE Draft(c) BY <2>3, DraftKeeps
  <2>4. CASE \E n \in 0..1 : PublishDraft(c, n) \/ PublishApproval(c, n)
    BY <2>4, PublishesKeep
  <2>5. CASE Approve(c) \/ ApproveCurrent(c) BY <2>5, ApproveKeeps
  <2>6. CASE PublishRejected(c) BY <2>6, RejectionsKeep
  <2> QED BY <1>3, <2>1, <2>2, <2>3, <2>4, <2>5, <2>6 DEF Review
<1>4. ASSUME NEW c \in Clients, Scheduling(c) PROVE Inv'
  BY <1>4, SubmitKeeps, CommitKeeps, RejectionsKeep DEF Scheduling
<1>5. ASSUME NEW c \in Clients, Publishing(c) PROVE Inv'
  <2>1. CASE \E r \in Runs : Finalize(c, r) \/ \E g \in 0..Len(figures[r]) : Recover(c, r, g)
    <3>1. PICK r \in Runs : Finalize(c, r) \/ \E g \in 0..Len(figures[r]) : Recover(c, r, g)
      BY <2>1
    <3>2. Finalize(c, r) \/ \E g \in Nat : Recover(c, r, g)
      BY <3>1
    <3> QED BY <3>2, ReportsKeep
  <2>2. CASE RecoverPublished(c) BY <2>2, RecoveredKeeps
  <2>3. CASE Build(c) BY <2>3, BuildKeeps
  <2>4. CASE DeliveryRejected(c) BY <2>4, RejectionsKeep
  <2>5. CASE \E n \in 0..4 : PublishDelivery(c, n) BY <2>5, DeliverKeeps
  <2> QED BY <1>5, <2>1, <2>2, <2>3, <2>4, <2>5 DEF Publishing
<1>6. ASSUME NEW c \in Clients, Accepting(c) PROVE Inv'
  BY <1>6, ReportsKeep, ConfirmKeeps, RejectionsKeep DEF Accepting
<1>7. ASSUME NEW r \in Runs, RunSteps(r) PROVE Inv'
  BY <1>7, RunStepsKeep, FiguresKeep DEF RunSteps
<1> QED BY <1>1, <1>2, <1>3, <1>4, <1>5, <1>6, <1>7 DEF Next

\* Whatever the clients, the CAD work, the scheduler and the deaths between two
\* files do to one analysis, what clients hold, what is approved and what is
\* delivered stays bound together as Inv says.
THEOREM ReviewCorrect == Spec => []Inv
BY InitInv, InvStep, PTL DEF Spec

\* Every record of the analysis is of its type, and every reference that is
\* kept names a review record or a delivery that was published before.
THEOREM ReviewTypeCorrect == Spec => []TypeOK
<1>1. Inv => TypeOK BY DEF Inv
<1> QED BY <1>1, ReviewCorrect, PTL

\* No geometry, specification or revision inherits an approval: the one in
\* force froze the review of what is in force.
THEOREM ApprovalsAreReviewed == Spec => []ApprovalReviewed
<1>1. Inv => ApprovalReviewed BY DEF Inv, ReviewInv
<1> QED BY <1>1, ReviewCorrect, PTL

\* A delivery head is never seen before everything it stands for.
THEOREM HeadsAreComplete == Spec => []HeadComplete
<1>1. Inv => HeadComplete
  BY DEF Inv, DeliveryInv, Presented, Completed, Of, HeadComplete
<1> QED BY <1>1, ReviewCorrect, PTL

\* Until a second publication dies, a delivery the analysis names is one its
\* run can still select, or an older one.
THEOREM DeliveriesAreSelectable == Spec => []DeliveredSelectable
<1>1. ASSUME Inv, Exists, analysis.delivered # None, deaths <= 1
      PROVE  LET v == analysis.delivered
                 r == versions[v].run
             IN /\ v \in indexed
                /\ Selectable(r)
                /\ versions[Selected(r)].run = r /\ Selected(r) >= v
  <2> DEFINE v == analysis.delivered
             r == versions[v].run
  <2>1. v \in DOMAIN versions BY <1>1, AnalysisType
  <2>2. r \in Runs /\ v \in Of(r) /\ v \in Nat BY <1>1, <2>1, VersionType DEF Of
  <2>3. Shown(v) BY <1>1 DEF Inv, DeliveryInv, Named
  <2> HIDE DEF v
  <2>4. Completed(r) /\ v \in indexed /\ (head[r] # None => v <= head[r])
    BY <2>3 DEF Shown, Completed
  <2> HIDE DEF r
  <2>5. Presented(r) BY <1>1, <2>2 DEF Inv, DeliveryInv
  <2>6. head[r] = None => Of(r) = {run[r].completion} BY <1>1, <2>4, <2>5 DEF Presented
  <2>7. Selectable(r)
    <3>1. head[r] = None => Cardinality(Of(r)) = 1 BY <2>6, FS_Singleton
    <3> QED BY <2>4, <3>1 DEF Selectable, Completed
  <2>8. versions[Selected(r)].run = r /\ Selected(r) \in Nat
    BY <1>1, <2>2, <2>4, SelectedOwn
  <2>9. Selected(r) >= v BY <2>2, <2>4, <2>6, <2>8 DEF Selected
  <2> QED BY <2>4, <2>7, <2>8, <2>9 DEF r, v
<1>2. Inv => DeliveredSelectable BY <1>1 DEF DeliveredSelectable
<1> QED BY <1>2, ReviewCorrect, PTL

-----------------------------------------------------------------------------
(* Acceptance *)

\* Nothing but a confirmation changes what an analysis says is accepted.
LEMMA AcceptedKept ==
  ASSUME Inv, [Next]_vars, Exists, analysis'.accepted # analysis.accepted
  PROVE  \E c \in Clients : ConfirmDelivery(c, 1)
<1>1. analysis \in Analysis /\ analysis' # analysis BY AnalysisType
<1>2. ASSUME NEW c \in Clients, Review(c) PROVE FALSE
  BY <1>1, <1>2
  DEF Review, PrepareNew, PrepareSource, PrepareRebind, Rebound, Draft, PublishDraft,
      PublishApproval, Publish, Published, Approve, ApproveCurrent, PublishRejected, Analysis
<1>3. ASSUME NEW c \in Clients, Scheduling(c) PROVE FALSE
  BY <1>1, <1>3 DEF Scheduling, Submit, CommitSubmit, Synced, SubmitRejected, Analysis
<1>4. ASSUME NEW c \in Clients, Publishing(c) PROVE FALSE
  BY <1>1, <1>4
  DEF Publishing, Finalize, Recover, RecoverPublished, Build, DeliveryRejected,
      PublishDelivery, Delivered, Analysis
<1>5. ASSUME NEW r \in Runs, RunSteps(r) PROVE FALSE
  BY <1>1, <1>5
  DEF RunSteps, Resubmit, Execute, Cancel, Sync, Synced, IssueFigures, SealFigures, Analysis
<1>6. ASSUME NEW c \in Clients, Accepting(c) PROVE ConfirmDelivery(c, 1)
  BY <1>1, <1>6 DEF Accepting, Confirm, ConfirmDelivery, ConfirmRejected
<1> QED BY <1>1, <1>2, <1>3, <1>4, <1>5, <1>6 DEF Next, CadWork, vars

\* An acceptance is of what its run selects at that moment, reached from the
\* approval in force.
THEOREM AcceptancesAreSelected == Spec => AcceptsSelected
<1> DEFINE Accepting1 ==
      Exists /\ analysis'.accepted # analysis.accepted =>
        LET v == analysis'.accepted
            r == versions[v].run
        IN /\ Selectable(r) /\ Selected(r) = v
           /\ run[r].ref = analysis.approval /\ analysis.latest = r
<1>1. ASSUME Inv, [Next]_vars PROVE Accepting1
  <2> SUFFICES ASSUME Exists, analysis'.accepted # analysis.accepted
               PROVE  LET v == analysis'.accepted
                          r == versions[v].run
                      IN /\ Selectable(r) /\ Selected(r) = v
                         /\ run[r].ref = analysis.approval /\ analysis.latest = r
    OBVIOUS
  <2>1. PICK c \in Clients : ConfirmDelivery(c, 1) BY <1>1, AcceptedKept
  <2> DEFINE r == client[c].run
             v == client[c].version
  <2>2. /\ MayAccept(c) /\ r \in Runs /\ client[c].pc = "confirming"
        /\ Selectable(r) /\ Selected(r) = v /\ analysis.latest = r /\ analysis.ref = run[r].ref
    BY <1>1, <2>1, ClientType DEF ConfirmDelivery, MayAccept, Fits
  <2>3. analysis \in Analysis BY <1>1, AnalysisType
  <2>4. analysis'.accepted = v BY <2>1, <2>3 DEF ConfirmDelivery, Analysis
  <2>5. Completed(r) BY <2>2 DEF Selectable, Completed
  <2>6. versions[v].run = r BY <1>1, <2>2, <2>5, SelectedOwn
  <2>7. run[r].ref # None /\ revisions[run[r].ref].status = "approved"
    BY <1>1, <2>2, <2>5 DEF Inv, ReviewInv, Completed
  <2>8. run[r].ref = analysis.approval BY <1>1, <2>2, <2>7 DEF Inv, ReviewInv
  <2> HIDE DEF r, v
  <2> QED BY <2>2, <2>4, <2>6, <2>8
<1>2. Inv /\ [Next]_vars => [Accepting1]_vars BY <1>1
<1> HIDE DEF Accepting1
<1>3. [][Accepting1]_vars <=> AcceptsSelected BY DEF Accepting1, AcceptsSelected
<1> QED BY <1>2, <1>3, ReviewCorrect, PTL DEF Spec
==============================================================================
