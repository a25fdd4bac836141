------------------------------- MODULE PartCatalog -------------------------------
(***************************************************************************)
(* StandardPartRegistry: a downloaded part is registered in a catalog and  *)
(* copied from it into a design.                                           *)
(*                                                                         *)
(* The directory of a part is named by the digest of the download, which   *)
(* is taken once; then the download is read a second time, published in    *)
(* the directory, read again from there and described by a manifest.       *)
(* Nothing is locked: two registrations meet in the directory, the         *)
(* download may be edited, a process may be killed between two steps.      *)
(*                                                                         *)
(* The contents of an edited file are numbers that grow, and stand for     *)
(* their digests.  Left out: the fields of a manifest, the passed report;  *)
(* register_standard_part of the repository, which no repository has.      *)
(*                                                                         *)
(* Definitions marked "Wrong" are slips, not the model.                    *)
(***************************************************************************)
EXTENDS Naturals

CONSTANTS
  Users,       \* processes that register or copy the part
  Provenances, \* what a registration says of the part
  MaxEdits,    \* bound: edits of the download, and of the part in the catalog
  MaxDeaths,   \* bound: processes killed
  None

VARIABLES
  source,      \* the contents of the download
  catalog,     \* by digest: the part in the directory of the digest, or None
  manifest,    \* by digest: the provenance in it, or None
  copies,      \* by digest: the copy among the components of a design, or None
  user,        \* what every process holds between two steps
  edits, deaths

files == <<catalog, manifest, copies>>
vars == <<source, files, user, edits, deaths>>

Contents == 1..MaxEdits + 1
Idle ==
  [step |-> "idle", provenance |-> None, sha |-> None, read |-> None, answer |-> None]
Is(u, step) == user[u].step = step
Goes(u, state) == user' = [user EXCEPT ![u] = state]
Step(u, step) == Goes(u, [user[u] EXCEPT !.step = step])
Refused(u) == Goes(u, [Idle EXCEPT !.answer = "refused"])
\* What register_download returns is what copy_into_design is given.
Registered(u) ==
  Goes(u, [Idle EXCEPT !.answer = "registered", !.sha = user[u].sha, !.provenance = user[u].provenance])

-----------------------------------------------------------------------------
(* register_download *)

\* The arguments, and the digest that names the directory.
Register(u, provenance) ==
  /\ Is(u, "idle")
  /\ Goes(u, [Idle EXCEPT !.step = "reading", !.provenance = provenance, !.sha = source])
  /\ UNCHANGED <<source, files, edits, deaths>>
\* read_bytes, and whether a file is there already.
ReadPart(u) ==
  /\ Is(u, "reading")
  /\ Goes(u, [user[u] EXCEPT !.read = source,
                             !.step = IF catalog[user[u].sha] = None THEN "filing" ELSE "checking"])
  /\ UNCHANGED <<source, files, edits, deaths>>
\* atomic_publish_new: another one may have been quicker.
FilePart(u) ==
  /\ Is(u, "filing")
  /\ IF catalog[user[u].sha] = None
     THEN catalog' = [catalog EXCEPT ![user[u].sha] = user[u].read] /\ Step(u, "checking")
     ELSE Refused(u) /\ UNCHANGED catalog
  /\ UNCHANGED <<source, manifest, copies, edits, deaths>>
\* (Wrong: the part that is there is not read again.)
HoldsDigestAny(digest) == TRUE
HoldsDigest(digest) == catalog[digest] = digest
\* The digest of what is in the catalog, and whether a manifest is there.
CheckPart(u) ==
  /\ Is(u, "checking")
  /\ IF ~HoldsDigest(user[u].sha) THEN Refused(u)
     ELSE Step(u, IF manifest[user[u].sha] = None THEN "describing" ELSE "matching")
  /\ UNCHANGED <<source, files, edits, deaths>>
\* (Wrong: the manifest is replaced by the newer one.)
DescribableAny(digest) == TRUE
Describable(digest) == manifest[digest] = None
DescribePart(u) ==
  /\ Is(u, "describing")
  /\ IF Describable(user[u].sha)
     THEN manifest' = [manifest EXCEPT ![user[u].sha] = user[u].provenance] /\ Registered(u)
     ELSE Refused(u) /\ UNCHANGED manifest
  /\ UNCHANGED <<source, catalog, copies, edits, deaths>>
\* A manifest that is there has to say the same.
MatchPart(u) ==
  /\ Is(u, "matching")
  /\ IF manifest[user[u].sha] = user[u].provenance THEN Registered(u) ELSE Refused(u)
  /\ UNCHANGED <<source, files, edits, deaths>>

-----------------------------------------------------------------------------
(* copy_into_design, of a part that was registered *)

\* (Wrong: a part that has changed is copied all the same.)
CopyableAny(u) == TRUE
Copyable(u) == HoldsDigest(user[u].sha)
ReadRegistered(u) ==
  /\ Is(u, "idle") /\ user[u].answer = "registered"
  /\ IF Copyable(u)
     THEN Goes(u, [user[u] EXCEPT !.step = "copying", !.read = catalog[user[u].sha]])
     ELSE Refused(u)
  /\ UNCHANGED <<source, files, edits, deaths>>
\* A copy that is there is kept.
CopyPart(u) ==
  /\ Is(u, "copying")
  /\ copies' = [copies EXCEPT ![user[u].sha] = IF @ = None THEN user[u].read ELSE @]
  /\ Goes(u, [Idle EXCEPT !.answer = "copied"])
  /\ UNCHANGED <<source, catalog, manifest, edits, deaths>>

-----------------------------------------------------------------------------
(* Around the program *)

\* Somebody edits the download, or the part in the catalog.
Edit ==
  /\ edits < MaxEdits
  /\ edits' = edits + 1
  /\ source' = source + 1
  /\ UNCHANGED <<files, user, deaths>>
EditCatalog ==
  /\ edits < MaxEdits
  /\ edits' = edits + 1
  /\ \E digest \in Contents :
       catalog[digest] # None /\ catalog' = [catalog EXCEPT ![digest] = 0]
  /\ UNCHANGED <<source, manifest, copies, user, deaths>>
Die(u) ==
  /\ ~Is(u, "idle") /\ deaths < MaxDeaths
  /\ deaths' = deaths + 1
  /\ Goes(u, Idle)
  /\ UNCHANGED <<source, files, edits>>

Init ==
  /\ source = 1
  /\ catalog = [digest \in Contents |-> None]
  /\ manifest = catalog /\ copies = catalog
  /\ user = [u \in Users |-> Idle]
  /\ edits = 0 /\ deaths = 0
Next ==
  \/ \E u \in Users :
       \/ \E provenance \in Provenances : Register(u, provenance)
       \/ ReadPart(u) \/ FilePart(u) \/ CheckPart(u) \/ DescribePart(u) \/ MatchPart(u)
       \/ ReadRegistered(u) \/ CopyPart(u) \/ Die(u)
  \/ Edit \/ EditCatalog
Spec == Init /\ [][Next]_vars

-----------------------------------------------------------------------------
(* Properties *)

TypeOK ==
  /\ source \in Contents /\ edits \in 0..MaxEdits /\ deaths \in 0..MaxDeaths
  /\ \A digest \in Contents :
       /\ catalog[digest] \in Contents \cup {0, None}
       /\ manifest[digest] \in Provenances \cup {None}
       /\ copies[digest] \in Contents \cup {0, None}

\* A copy in a design has the contents its directory is named after, although
\* the download was read twice, nothing was locked and the catalog is edited.
CopiesHoldDigest == \A digest \in Contents : copies[digest] \in {None, digest}

\* A part is described only when what stands beside the manifest had the
\* digest the directory is named after, unless it was edited meanwhile; a
\* registration that succeeds is what the manifest says; and what a manifest
\* says is not replaced.
DescribedStep ==
  \A digest \in Contents :
    /\ manifest[digest] # None => manifest'[digest] = manifest[digest]
    /\ manifest'[digest] # manifest[digest] => catalog[digest] \in {0, digest}
    /\ \A u \in Users :
         user'[u].answer = "registered" /\ user[u].answer # "registered"
         /\ user'[u].sha = digest => manifest'[digest] = user'[u].provenance
PartsDescribed == [][DescribedStep]_vars
=============================================================================
