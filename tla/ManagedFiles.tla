------------------------------ MODULE ManagedFiles ------------------------------
(***************************************************************************)
(* The managed files of secure_fs, secure_fs_posix and secure_fs_windows.  *)
(*                                                                         *)
(* A name leads to a file, whose content no longer changes once it is      *)
(* written; it may be made read-only.  Processes write under a temporary   *)
(* name and then link, move or replace; each system call is an action and  *)
(* a process may be killed between any two.                                *)
(*                                                                         *)
(* Three names stand for the ways the system uses these operations:        *)
(*   "state"  read and replaced under exclusive_file_lock (design.json);   *)
(*   "card"   published once and made read-only, or found to hold the same *)
(*            (review cards, source backups);                              *)
(*   "blob"   ingested under its digest.                                   *)
(* On Windows an open handle does not share deletion: while one is open    *)
(* the name can be neither moved nor replaced.                             *)
(*                                                                         *)
(* Definitions marked "Wrong" are slips, not the model.                    *)
(***************************************************************************)
EXTENDS Naturals, Sequences, FiniteSets

CONSTANTS
  Processes,
  Texts,       \* what a card may say
  MaxDeaths,   \* bound: processes killed
  None

VARIABLES
  platform,  \* "posix" or "windows"
  entry,     \* the file every managed name leads to, or None
  lock,      \* the process that owns the lock file, or None
  process,   \* what every process holds between two steps
  deaths

vars == <<platform, entry, lock, process, deaths>>

-----------------------------------------------------------------------------
(* Vocabulary *)

Names == {"state", "card", "blob"}
\* What a file says: who updated it, the text of a card, the right bytes or others.
Contents == SUBSET (Processes \cup Texts \cup {"right", "other"})
\* names: st_nlink, 2 while the temporary name is linked too.
Files == [content : Contents, readonly : BOOLEAN, names : 1..2]
ASSUME FilesAssumption ==
  MaxDeaths \in Nat /\ None \notin Processes /\ None \notin Names /\ None \notin Files

File(content, readonly, names) == [content |-> content, readonly |-> readonly, names |-> names]
Content(n) == IF entry[n] = None THEN {} ELSE entry[n].content
Sealed(n) == entry[n] # None /\ entry[n].readonly

\* content: of the file that was opened, or of the temporary one; fresh: the
\* name still leads to the file that was opened or looked at.
Idle == [step |-> "idle", name |-> None, content |-> {}, fresh |-> FALSE]
Is(p, step) == process[p].step = step
Goes(p, state) == process' = [process EXCEPT ![p] = state]
Step(p, step) == Goes(p, [process[p] EXCEPT !.step = step])
Open == {"reading", "looking", "digesting"}
\* _open_handle on Windows: FILE_SHARE_READ and FILE_SHARE_WRITE only.
Held(n) ==
  /\ platform = "windows"
  /\ \E p \in Processes : process[p].step \in Open /\ process[p].name = n /\ process[p].fresh

\* The name leads to another file: what is open or was seen is the old one.
Places(p, n, new, state) ==
  /\ entry' = [entry EXCEPT ![n] = new]
  /\ process' = [q \in Processes |->
       IF q = p THEN state
       ELSE [process[q] EXCEPT !.fresh = @ /\ process[q].name # n]]

-----------------------------------------------------------------------------
(* exclusive_file_lock and try_exclusive_file_lock *)

Wait(p) ==
  /\ Is(p, "idle")
  /\ Step(p, "waiting")
  /\ UNCHANGED <<platform, entry, lock, deaths>>
\* (Wrong: two processes own the lock.)
FreeAny == TRUE
Free == lock = None
\* flock(LOCK_EX), LockFileEx.
Acquire(p) ==
  /\ Is(p, "waiting") /\ Free
  /\ lock' = p
  /\ Goes(p, [Idle EXCEPT !.step = "locked", !.name = "state"])
  /\ UNCHANGED <<platform, entry, deaths>>
\* The lock file is closed when the update is over, or has failed.
Release(p) ==
  /\ Is(p, "releasing")
  /\ lock' = None
  /\ Goes(p, Idle)
  /\ UNCHANGED <<platform, entry, deaths>>
\* LOCK_NB, LOCKFILE_FAIL_IMMEDIATELY: a lock that is taken is left alone.
TryAcquire(p) ==
  /\ Is(p, "idle") /\ Free
  /\ lock' = p
  /\ Step(p, "releasing")
  /\ UNCHANGED <<platform, entry, deaths>>

-----------------------------------------------------------------------------
(* read_managed_file *)

Opens(p, n, step) ==
  Goes(p, [step |-> step, name |-> n, content |-> Content(n), fresh |-> TRUE])
OpenState(p) ==
  /\ Is(p, "locked")
  /\ Opens(p, "state", "reading")
  /\ UNCHANGED <<platform, entry, lock, deaths>>
\* A reader without the lock, in nobody's way on POSIX.
LookAt(p) ==
  /\ Is(p, "idle")
  /\ \E n \in {"state", "card"} : entry[n] # None /\ Opens(p, n, "looking")
  /\ UNCHANGED <<platform, entry, lock, deaths>>
Look(p) ==
  /\ Is(p, "looking")
  /\ Goes(p, Idle)
  /\ UNCHANGED <<platform, entry, lock, deaths>>
\* _entry_matches_fd, _require_regular: the name still leads to it.
Current(p) == process[p].fresh
\* What was read is written again with something added.
Revise(p) ==
  /\ Is(p, "reading")
  /\ IF Current(p)
     THEN Goes(p, [process[p] EXCEPT !.step = "writing", !.content = @ \cup {p}])
     ELSE Goes(p, [Idle EXCEPT !.step = "releasing"])
  /\ UNCHANGED <<platform, entry, lock, deaths>>

-----------------------------------------------------------------------------
(* Publication under a temporary name *)

\* _write_temporary: a name and a file of its own, written and flushed.  The
\* identity of a file to replace was taken before.
WriteTemporary(p) ==
  /\ Is(p, "writing")
  /\ Goes(p, [process[p] EXCEPT !.step = IF process[p].name = "state" THEN "checking" ELSE "linking"])
  /\ UNCHANGED <<platform, entry, lock, deaths>>

\* (Wrong: the temporary file is renamed over whatever is there.)
VacantAny(n) == TRUE
\* link, and MoveFileEx without MOVEFILE_REPLACE_EXISTING.
Vacant(n) == entry[n] = None
\* atomic_publish_new on POSIX: link, then unlink the temporary name.
LinkNew(p) ==
  LET n == process[p].name
  IN /\ Is(p, "linking") /\ platform = "posix"
     /\ IF Vacant(n)
        THEN Places(p, n, File(process[p].content, FALSE, 2), [process[p] EXCEPT !.step = "linked"])
        ELSE Step(p, "failed") /\ UNCHANGED entry
     /\ UNCHANGED <<platform, lock, deaths>>
UnlinkTemporary(p) ==
  /\ Is(p, "linked")
  /\ entry' = [entry EXCEPT ![process[p].name].names = 1]
  /\ Step(p, "published")
  /\ UNCHANGED <<platform, lock, deaths>>
\* atomic_publish_new on Windows: the temporary name is moved.
MoveNew(p) ==
  LET n == process[p].name
  IN /\ Is(p, "linking") /\ platform = "windows"
     /\ IF Vacant(n)
        THEN Places(p, n, File(process[p].content, FALSE, 1), [process[p] EXCEPT !.step = "published"])
        ELSE Step(p, "failed") /\ UNCHANGED entry
     /\ UNCHANGED <<platform, lock, deaths>>

\* atomic_replace compares the identity of the target once more.
Recheck(p) ==
  /\ Is(p, "checking")
  /\ Step(p, IF Current(p) THEN "replacing" ELSE "failed")
  /\ UNCHANGED <<platform, entry, lock, deaths>>
Replaced(p) == Places(p, "state", File(process[p].content, FALSE, 1), [Idle EXCEPT !.step = "releasing"])
\* os.replace, whoever reads the file.
ReplaceState(p) ==
  /\ Is(p, "replacing") /\ platform = "posix"
  /\ Replaced(p)
  /\ UNCHANGED <<platform, lock, deaths>>
\* MoveFileEx: refused while a reader holds the file.
MoveState(p) ==
  /\ Is(p, "replacing") /\ platform = "windows"
  /\ IF Held("state") THEN Step(p, "failed") /\ UNCHANGED entry ELSE Replaced(p)
  /\ UNCHANGED <<platform, lock, deaths>>
\* The error is passed on after the temporary name is removed.
RemoveTemporary(p) ==
  /\ Is(p, "failed")
  /\ Goes(p, [Idle EXCEPT !.step = IF lock = p THEN "releasing" ELSE "idle"])
  /\ UNCHANGED <<platform, entry, lock, deaths>>

-----------------------------------------------------------------------------
(* Cards: publish_source_backup, the review cards of design lessons *)

\* A card that is there is only compared; one that is not is written.
KeepCard(p, t) ==
  /\ Is(p, "idle") /\ entry["card"] = None
  /\ Goes(p, [Idle EXCEPT !.step = "writing", !.name = "card", !.content = {t}])
  /\ UNCHANGED <<platform, entry, lock, deaths>>
\* set_managed_file_readonly: a regular file of one name.
MakeReadonly(p) ==
  /\ Is(p, "published")
  /\ IF entry["card"].names = 1
     THEN entry' = [entry EXCEPT !["card"].readonly = TRUE]
     ELSE UNCHANGED entry
  /\ Goes(p, Idle)
  /\ UNCHANGED <<platform, lock, deaths>>

-----------------------------------------------------------------------------
(* ingest_cas_file *)

\* (Wrong: the digest of the copy is not compared.)
DigestedAny(content) == TRUE
Digested(content) == content = {"right"}
\* The source is copied, whatever it holds by now, and made read-only.
Copy(p) ==
  /\ Is(p, "idle")
  /\ \E content \in {{"right"}, {"other"}} :
       Goes(p, [Idle EXCEPT !.step = IF Digested(content) THEN "copied" ELSE "failed",
                            !.name = "blob", !.content = content])
  /\ UNCHANGED <<platform, entry, lock, deaths>>
\* On POSIX what is there is kept if it is read-only and replaced if not,
\* whatever came to be there in between.
Inspect(p) ==
  /\ Is(p, "copied") /\ platform = "posix"
  /\ Step(p, IF Sealed("blob") THEN "verifying" ELSE "placing")
  /\ UNCHANGED <<platform, entry, lock, deaths>>
Placed(p) == Places(p, "blob", File(process[p].content, TRUE, 1), [process[p] EXCEPT !.step = "verifying"])
Place(p) ==
  /\ Is(p, "placing") /\ platform = "posix"
  /\ Placed(p)
  /\ UNCHANGED <<platform, lock, deaths>>
\* On Windows a new name is moved without replacing, and a writable file is
\* to be repaired.
InspectHandle(p) ==
  /\ Is(p, "copied") /\ platform = "windows"
  /\ CASE Sealed("blob") -> Step(p, "verifying")
       [] entry["blob"] = None -> Step(p, "moving")
       [] OTHER -> Goes(p, [process[p] EXCEPT !.step = "repairing", !.fresh = TRUE])
  /\ UNCHANGED <<platform, entry, lock, deaths>>
\* A name that came to be there is verified instead.
MoveBlob(p) ==
  /\ Is(p, "moving")
  /\ IF Vacant("blob") THEN Placed(p) ELSE Step(p, "verifying") /\ UNCHANGED entry
  /\ UNCHANGED <<platform, lock, deaths>>
\* The file to repair is still there, and nobody holds it.
RepairBlob(p) ==
  /\ Is(p, "repairing")
  /\ IF Current(p) /\ ~Held("blob") THEN Placed(p) ELSE Step(p, "failed") /\ UNCHANGED entry
  /\ UNCHANGED <<platform, lock, deaths>>
\* _verify_file_at, verify_cas_file: read-only, and of that digest.
OpenBlob(p) ==
  /\ Is(p, "verifying")
  /\ IF Sealed("blob") THEN Opens(p, "blob", "digesting") ELSE Step(p, "failed")
  /\ UNCHANGED <<platform, entry, lock, deaths>>
VerifyBlob(p) ==
  /\ Is(p, "digesting")
  /\ Step(p, IF process[p].content = {"right"} THEN "ingested" ELSE "failed")
  /\ UNCHANGED <<platform, entry, lock, deaths>>
Return(p) ==
  /\ Is(p, "ingested")
  /\ Goes(p, Idle)
  /\ UNCHANGED <<platform, entry, lock, deaths>>

-----------------------------------------------------------------------------
(* A process is killed: its handles and its locks go, its temporary name   *)
(* stays (and keeps a file that was linked at two names).                  *)

\* (Wrong: the lock is a file whose owner has to remove it.)
LockAfterKept(p) == lock
LockAfter(p) == IF lock = p THEN None ELSE lock
Die(p) ==
  /\ ~Is(p, "idle") /\ deaths < MaxDeaths
  /\ deaths' = deaths + 1
  /\ lock' = LockAfter(p)
  /\ Goes(p, Idle)
  /\ UNCHANGED <<platform, entry>>

-----------------------------------------------------------------------------
Init ==
  /\ platform \in {"posix", "windows"}
  /\ \E blob \in {None, File({"other"}, FALSE, 1)} :
       entry = [n \in Names |-> CASE n = "state" -> File({}, FALSE, 1)
                                  [] n = "card" -> None
                                  [] n = "blob" -> blob]
  /\ lock = None /\ deaths = 0
  /\ process = [p \in Processes |-> Idle]

Locking(p) == Wait(p) \/ Acquire(p) \/ TryAcquire(p) \/ Release(p)
Reading(p) == OpenState(p) \/ LookAt(p) \/ Look(p) \/ Revise(p)
Publishing(p) ==
  \/ WriteTemporary(p) \/ LinkNew(p) \/ UnlinkTemporary(p) \/ MoveNew(p) \/ Recheck(p)
  \/ ReplaceState(p) \/ MoveState(p) \/ RemoveTemporary(p) \/ MakeReadonly(p)
Ingesting(p) ==
  \/ Inspect(p) \/ Place(p) \/ InspectHandle(p) \/ MoveBlob(p) \/ RepairBlob(p)
  \/ OpenBlob(p) \/ VerifyBlob(p) \/ Return(p)
Next ==
  \E p \in Processes :
    \/ Locking(p) \/ Reading(p) \/ Publishing(p) \/ Ingesting(p)
    \/ Copy(p) \/ (\E t \in Texts : KeepCard(p, t))
    \/ Die(p)
Spec == Init /\ [][Next]_vars

\* A process that runs goes on; a waiting process is served when the lock is
\* free again and again.
FairSpec ==
  /\ Spec
  /\ \A p \in Processes :
       /\ SF_vars(Acquire(p))
       /\ WF_vars(Release(p) \/ Publishing(p) \/ Ingesting(p) \/ OpenState(p) \/ Look(p) \/ Revise(p))

-----------------------------------------------------------------------------
(* Properties *)

Steps ==
  {"idle", "waiting", "locked", "releasing", "reading", "looking", "writing", "linking", "linked",
   "published", "checking", "replacing", "failed", "copied", "placing",
   "moving", "repairing", "verifying", "digesting", "ingested"}
TypeOK ==
  /\ platform \in {"posix", "windows"} /\ deaths \in 0..MaxDeaths
  /\ entry \in [Names -> Files \cup {None}] /\ entry["state"] # None
  /\ lock \in Processes \cup {None}
  /\ process \in [Processes -> [step : Steps, name : Names \cup {None},
                                content : Contents, fresh : BOOLEAN]]
  /\ \A p \in Processes :
       /\ process[p].name = "state" /\ ~Is(p, "looking") => lock = p
       /\ Is(p, "linked") => entry[process[p].name].names = 2

\* Whatever the interleaving and whoever is killed: no update of the state is
\* lost, a card never becomes another card, an artifact under a digest is only
\* ever replaced by one of that digest.
Store ==
  INSTANCE AtomicStore WITH state <- Content("state"), card <- Content("card"), blob <- Content("blob")
Atomic == Store!Spec

\* An ingestion that returns has left an artifact that is right and
\* read-only, and it stays so.
IngestedHolds ==
  \A p \in Processes : Is(p, "ingested") =>
    Content("blob") = {"right"} /\ Sealed("blob")

\* The lock passes on, although its owners are killed or fail.
LockPassesOn == \A p \in Processes : Is(p, "waiting") ~> ~Is(p, "waiting")
=============================================================================
