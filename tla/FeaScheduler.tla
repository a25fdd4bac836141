----------------------------- MODULE FeaScheduler -----------------------------
(***************************************************************************)
(* The durable FEA scheduler of one workspace: clients (MCP servers and    *)
(* CLIs) that submit, retry, cancel, reconcile and revise; the detached    *)
(* supervisor they launch; and the files they share.                       *)
(*                                                                         *)
(* Every handler that mutates shared state runs under queue.lock (module   *)
(* analysis_queue, scheduler_guard), so it is one action here.  What it    *)
(* writes reaches the disk as separate atomic file replacements: the       *)
(* parameter n of such an action says how many of them, in the order of    *)
(* the code, were made before the process died or a write failed.  The     *)
(* last value of n is the handler that ran to its end.                     *)
(*                                                                         *)
(* Definitions marked "Wrong" are not part of the model: each is what a    *)
(* slip in the code would make of the definition after it, and breaks a    *)
(* property below when it takes its place.                                 *)
(***************************************************************************)
EXTENDS Naturals, FiniteSets

CONSTANTS
  Analyses,    \* (design_id, analysis_id) pairs of the workspace
  Keys,        \* idempotency keys clients quote
  Runs,        \* run identities a submission may create
  Workers,     \* worker claim uuids
  Clients,     \* processes that hold an AnalysisCoordinator
  None,        \* JSON null
  AnalysisOf,  \* the analysis a key is used for
  KeyOf,       \* the key a run identity is created for
  LongRuns,    \* runs long enough to use up their 512 event records
  MaxCrashes   \* bound on deaths and failed writes (model checking only)

ASSUME SchedulerAssumption ==
  /\ AnalysisOf \in [Keys -> Analyses]
  /\ KeyOf \in [Runs -> Keys]
  /\ LongRuns \subseteq Runs
  /\ None \notin Runs \cup Workers \cup Keys \cup Analyses
  /\ MaxCrashes \in Nat

VARIABLES
  queue,     \* queue.json: one entry per run ("absent" when it has none)
  recovery,  \* queue.json: recovery_required
  claim,     \* the worker claim queue.json selects
  owner,     \* holder of worker.lock, released by the OS when it dies
  sup,       \* supervisor processes, by claim uuid
  run,       \* run.json of every run
  analysis,  \* analysis.json of every analysis
  index,     \* idempotency/<key>.json
  outdated,  \* runs whose frozen inputs are no longer the current revision
  client,    \* clients, each inside at most one submit call
  signals,   \* authenticated cancel packets in flight
  crashes    \* deaths and failed writes so far

work == <<run, analysis>>
control == <<queue, recovery, claim>>
procs == <<owner, sup, signals>>
inputs == <<index, outdated>>
vars == <<work, control, procs, inputs, client, crashes>>

-----------------------------------------------------------------------------
(* Vocabulary *)

Terminal == {"completed", "failed", "cancelled", "timed_out", "interrupted"}
Retryable == {"failed", "cancelled", "timed_out", "interrupted"}
RunStatus == {"absent", "queued", "running", "awaiting_visual_review"} \cup Terminal
Summary(st) ==
  CASE st \in {"completed", "cancelled"} -> st
    [] st \in Terminal \ {"completed", "cancelled"} -> "needs_attention"
    [] OTHER -> st

Entry == [status : {"absent", "queued", "claimed"},
          worker : Workers \cup {None}, after : SUBSET Runs]
NoEntry == [status |-> "absent", worker |-> None, after |-> {}]
\* evidence: what a run has to show.  It is sealed when it pauses
\* (execution_ref); then there may be a published version of its report, or
\* several, and at last a delivery head that selects one of them.
Evidence == {"none", "sealed", "version", "versions", "head"}
RunRecord == [status : RunStatus, worker : Workers \cup {None}, cancel : BOOLEAN,
              evidence : Evidence]
NoRun == [status |-> "absent", worker |-> None, cancel |-> FALSE, evidence |-> "none"]
AnalysisRecord ==
  [active : Runs \cup {None}, latest : Runs \cup {None}, approved : BOOLEAN,
   status : {"review", "approved"} \cup {Summary(st) : st \in RunStatus}]
Claim == [id : Workers \cup {None},
          state : {"none", "starting", "ready", "stopped", "failed"}]
Supervisor ==
  [pc : {"none", "booting", "locked", "serving", "idle", "executing", "stopping"},
   run : Runs \cup {None}, event : BOOLEAN]
\* submits: the call is before its commit, and goes on to it after "ensure".
Client == [pc : {"idle", "ensure", "launching", "waiting", "failing", "open", "checked"},
           submits : BOOLEAN, key : Keys \cup {None}, parent : Runs \cup {None},
           fresh : BOOLEAN, worker : Workers \cup {None}]

Dead == [pc |-> "none", run |-> None, event |-> FALSE]
In(pc) == [pc |-> pc, run |-> None, event |-> FALSE]
At(pc, submits) == [pc |-> pc, submits |-> submits, key |-> None,
                    parent |-> None, fresh |-> FALSE, worker |-> None]

OwnerOf(r) == AnalysisOf[KeyOf[r]]
Paused(r) == run[r].status = "awaiting_visual_review"
Ended(r) == run[r].status \in Terminal
Entries == {r \in Runs : queue[r].status # "absent"}
Claimed == {r \in Runs : queue[r].status = "claimed"}
Pending(a) == \E r \in Entries : OwnerOf(r) = a
Executing == {w \in Workers : sup[w].pc = "executing"}
Answers(w) == sup[w].pc \in {"idle", "executing", "stopping"}

\* The runs of the order on S a loop over the list has dealt with when it stops.
Prefixes(S) == {P \in SUBSET S : \A r \in P : queue[r].after \cap S \subseteq P}

Enqueued(q, r) ==
  [q EXCEPT ![r] = [status |-> "queued", worker |-> None, after |-> Entries]]
\* (Wrong: what is claimed stays.)
WithoutQueued(q, S) ==
  [r \in Runs |-> IF r \in S /\ q[r].status = "queued" THEN NoEntry
                 ELSE [q[r] EXCEPT !.after = @ \ S]]
\* (Wrong: what is claimed goes too.)
WithoutClaimed(q, S) ==
  [r \in Runs |-> IF r \in S \/ q[r].status = "claimed" THEN NoEntry
                 ELSE [q[r] EXCEPT !.after = @ \ S]]
Without(q, S) ==
  [r \in Runs |-> IF r \in S THEN NoEntry ELSE [q[r] EXCEPT !.after = @ \ S]]
Settled(S, st) ==
  [r \in Runs |-> IF r \in S THEN [run[r] EXCEPT !.status = st] ELSE run[r]]

-----------------------------------------------------------------------------
(* synchronize_analysis: the summary follows the run, which is authority. *)

CanSync(r) == analysis[OwnerOf(r)].active \in {None, r}
\* (Wrong: the run's own status as the summary.)
SyncedRaw(rec, r, st) ==
  [rec EXCEPT !.active = IF st \in Terminal THEN None ELSE r,
              !.latest = r, !.status = st]
\* (Wrong: an interrupted run keeps its analysis active.)
SyncedActive(rec, r, st) ==
  [rec EXCEPT !.active = IF st \in Terminal \ {"interrupted"} THEN None ELSE r,
              !.latest = r, !.status = Summary(st)]
Synced(rec, r, st) ==
  [rec EXCEPT !.active = IF st \in Terminal THEN None ELSE r,
              !.latest = r, !.status = Summary(st)]
SyncAll(S, rn) ==
  [a \in Analyses |->
     IF \E r \in S : OwnerOf(r) = a
     THEN LET r == CHOOSE r \in S : OwnerOf(r) = a
          IN Synced(analysis[a], r, rn[r].status)
     ELSE analysis[a]]

\* A client's expected_revision goes stale when analysis.json is replaced.
Noticed(an, replaced) ==
  [c \in Clients |->
     IF /\ client[c].pc = "checked"
        /\ LET a == AnalysisOf[client[c].key]
           IN a \in replaced \/ an[a] # analysis[a]
     THEN [client[c] EXCEPT !.fresh = FALSE]
     ELSE client[c]]

Crash == crashes < MaxCrashes /\ crashes' = crashes + 1
CrashUnless(finished) == IF finished THEN UNCHANGED crashes ELSE Crash

\* Client c leaves its section, with state `to' when all its writes were made.
Leaves(c, finished, to, an) ==
  /\ client' = [Noticed(an, {}) EXCEPT ![c] = IF finished THEN to ELSE At("idle", FALSE)]
  /\ CrashUnless(finished)
Becomes(c, to) == client' = [client EXCEPT ![c] = to] /\ UNCHANGED crashes


-----------------------------------------------------------------------------
(* submit: reconcile, ensure, check, commit, ensure *)

\* reconcile: finished runs of the list are synchronised in its order, then
\* dropped.  Every submit starts with it, and nothing else calls it.
Reconcile(c, synced, finished) ==
  LET done == {r \in Entries : Ended(r)}
  IN /\ client[c].pc = "idle"
     /\ synced \in Prefixes(done)
     /\ finished => synced = done
     /\ analysis' = SyncAll(synced, run)
     /\ queue' = IF finished THEN Without(queue, done) ELSE queue
     /\ Leaves(c, finished, At("ensure", TRUE), analysis')
     /\ UNCHANGED <<recovery, claim, run, procs, inputs>>

\* (Wrong: goes by the index alone.)
MatchesIndex(k) == {index[k]} \ {None}
\* _lookup: the runs that answer an idempotency key.
Matches(k) ==
  IF index[k] # None THEN {index[k]}
  ELSE {r \in Runs : KeyOf[r] = k /\ run[r].status # "absent"}

\* _lookup, when it finds run r: a request published without its queue entry
\* is closed, the summary follows a live run, a missing index is published.
Repaired(r, n) ==
  LET orphan == ~Ended(r) /\ ~Paused(r) /\ r \notin Entries
  IN /\ run' = IF orphan THEN Settled({r}, "interrupted") ELSE run
     /\ analysis' = IF n >= 2 /\ ~Ended(r) /\ CanSync(r)
                    THEN SyncAll({r}, run') ELSE analysis
     /\ index' = IF n = 3 THEN [index EXCEPT ![KeyOf[r]] = r] ELSE index
     /\ UNCHANGED <<control, procs, outdated>>

Resubmit(c, r, n) ==
  /\ client[c].pc = "open"
  /\ r \in Matches(KeyOf[r])
  /\ Repaired(r, n)
  /\ Leaves(c, n = 3, At("ensure", FALSE), analysis')

\* A retry quotes an unsuccessful run with the frozen inputs of the request.
MayRetry(k, p) ==
  /\ run[p].status \in Retryable
  /\ p \notin outdated
  /\ OwnerOf(p) = AnalysisOf[k]

CheckSubmit(c, k, p) ==
  /\ client[c].pc = "open"
  /\ Matches(k) = {}
  /\ analysis[AnalysisOf[k]].approved
  /\ p # None => MayRetry(k, p)
  /\ Becomes(c, [At("checked", FALSE) EXCEPT !.key = k, !.parent = p, !.fresh = TRUE])
  /\ UNCHANGED <<work, control, procs, inputs>>

CommitExisting(c, r, n) ==
  /\ client[c].pc = "checked"
  /\ r \in Matches(client[c].key)
  /\ Repaired(r, n)
  /\ Leaves(c, n = 3, At("ensure", FALSE), analysis')

\* (Wrong: misses an entry whose summary was not written.)
CommitUnqueued(c) ==
  LET k == client[c].key
  IN Matches(k) = {} /\ client[c].fresh /\ analysis[AnalysisOf[k]].active = None
\* (Wrong: misses a paused run, which has no entry.)
CommitInactive(c) ==
  LET k == client[c].key
  IN Matches(k) = {} /\ client[c].fresh /\ ~Pending(AnalysisOf[k])
Committable(c) ==
  LET k == client[c].key
  IN /\ Matches(k) = {}
     /\ client[c].fresh
     /\ ~Pending(AnalysisOf[k])
     /\ analysis[AnalysisOf[k]].active = None

\* The run directory, the queue, the summary and the index, in this order.
CommitSubmit(c, r, n) ==
  LET k == client[c].key
      p == client[c].parent
  IN /\ client[c].pc = "checked"
     /\ Committable(c)
     /\ KeyOf[r] = k
     /\ run' = [run EXCEPT ![r] = [NoRun EXCEPT !.status = "queued"]]
     /\ queue' = IF n >= 2 THEN Enqueued(queue, r) ELSE queue
     /\ recovery' = (recovery /\ ~(n >= 2 /\ p # None /\ run[p].status = "interrupted"))
     /\ analysis' = IF n >= 3 THEN SyncAll({r}, run') ELSE analysis
     /\ index' = IF n = 4 THEN [index EXCEPT ![k] = r] ELSE index
     /\ Leaves(c, n = 4, At("ensure", FALSE), analysis')
     /\ UNCHANGED <<claim, procs, outdated>>

\* A wrong revision, checksum or key; a conflict or a busy analysis at commit.
SubmitRejected(c) ==
  /\ \/ client[c].pc = "open"
     \/ client[c].pc = "checked" /\ ~Committable(c)
  /\ Becomes(c, At("idle", FALSE))
  /\ UNCHANGED <<work, control, procs, inputs>>

-----------------------------------------------------------------------------
(* _ensure_worker: recover what a lost worker claimed, launch a new one *)

\* Where the call goes on when _ensure_worker returns.
Returned(c) == IF client[c].submits THEN At("open", FALSE) ELSE At("idle", FALSE)

\* Nothing to run, recovery required, a claim younger than 30 s, or an owner.
EnsureNothing(c) ==
  /\ client[c].pc = "ensure"
  /\ Entries = {} \/ recovery \/ claim.state = "starting" \/ owner # None
  /\ Becomes(c, Returned(c))
  /\ UNCHANGED <<work, control, procs, inputs>>

\* (Wrong: does not probe worker.lock.)
UnattendedUnprobed(c) == client[c].pc = "ensure" /\ Entries # {} /\ ~recovery
Unattended(c) ==
  client[c].pc = "ensure" /\ Entries # {} /\ ~recovery /\ owner = None
\* (Wrong: only what had not started is lost.)
LostUnstarted == {r \in Claimed : run[r].status = "queued"}
\* (Wrong: what ended is lost too.)
LostEnded == {r \in Claimed : ~Paused(r)}
Lost == {r \in Claimed : ~Ended(r) /\ ~Paused(r)}

\* At most one entry is claimed (OneClaimed), so the loop body runs once: the
\* run, the summary; then the queue without it, and the queue once more.
EnsureInterrupts(c, n) ==
  /\ Unattended(c)
  /\ Lost # {}
  /\ run' = Settled(Lost, "interrupted")
  /\ analysis' = IF n >= 2 THEN SyncAll(Claimed, run') ELSE analysis
  /\ queue' = IF n >= 3 THEN Without(queue, Claimed) ELSE queue
  /\ recovery' = (n = 4)
  /\ Leaves(c, n = 4, Returned(c), analysis')
  /\ UNCHANGED <<claim, procs, inputs>>

\* The only entries were claimed, for runs that ended or paused.
EnsureSettles(c, n) ==
  /\ Unattended(c)
  /\ Lost = {} /\ Entries = Claimed
  /\ analysis' = SyncAll(Claimed, run)
  /\ queue' = IF n = 2 THEN Without(queue, Claimed) ELSE queue
  /\ Leaves(c, n = 2, Returned(c), analysis')
  /\ UNCHANGED <<run, recovery, claim, procs, inputs>>

\* uuid4: no trace of w is left anywhere but in the worker field of dead runs.
Fresh(w) ==
  /\ sup[w].pc = "none" /\ claim.id # w
  /\ \A c \in Clients : client[c].worker # w
  /\ \A r \in Runs : /\ queue[r].worker # w /\ <<w, r>> \notin signals
                     /\ run[r].worker = w => Ended(r)

EnsureLaunches(c, w, n) ==
  /\ Unattended(c)
  /\ Lost = {} /\ Entries # Claimed
  /\ Fresh(w)
  /\ analysis' = SyncAll(Claimed, run)
  /\ queue' = IF n >= 2 THEN Without(queue, Claimed) ELSE queue
  /\ claim' = IF n = 3 THEN [id |-> w, state |-> "starting"] ELSE claim
  /\ Leaves(c, n = 3, [client[c] EXCEPT !.pc = "launching", !.worker = w], analysis')
  /\ UNCHANGED <<run, recovery, procs, inputs>>

-----------------------------------------------------------------------------
(* launch_supervisor, and what its caller does when it raises *)

LaunchSpawn(c) ==
  LET w == client[c].worker
  IN /\ client[c].pc = "launching"
     /\ claim = [id |-> w, state |-> "starting"]
     /\ sup' = [sup EXCEPT ![w] = In("booting")]
     /\ Becomes(c, [client[c] EXCEPT !.pc = "waiting"])
     /\ UNCHANGED <<owner, signals, work, control, inputs>>

LaunchReturns(c) ==
  LET w == client[c].worker
  IN /\ client[c].pc = "waiting"
     /\ claim.id = w
     /\ claim.state = "stopped" \/ (claim.state = "ready" /\ Answers(w))
     /\ Becomes(c, Returned(c))
     /\ UNCHANGED <<work, control, procs, inputs>>

\* A changed claim, a failed Popen, a dead child, or the 8 s deadline.
LaunchRaises(c) ==
  /\ client[c].pc \in {"launching", "waiting"}
  /\ Becomes(c, [client[c] EXCEPT !.pc = "failing"])
  /\ UNCHANGED <<work, control, procs, inputs>>

LaunchSpared(c) ==
  /\ client[c].pc = "failing"
  /\ claim.id # client[c].worker \/ owner # None
  /\ Becomes(c, Returned(c))
  /\ UNCHANGED <<work, control, procs, inputs>>

\* The claim is failed, then the entries' runs in order, each with its
\* summary; at last the queue is emptied.
LaunchFailed(c, failed, synced, finished) ==
  /\ client[c].pc = "failing"
  /\ claim.id = client[c].worker /\ owner = None
  /\ failed \in Prefixes(Entries) /\ synced \in Prefixes(Entries)
  /\ synced \subseteq failed /\ Cardinality(failed \ synced) <= 1
  /\ finished => synced = Entries
  /\ claim' = [claim EXCEPT !.state = "failed"]
  /\ run' = Settled({r \in failed : ~Ended(r)}, "failed")
  /\ analysis' = SyncAll(synced, run')
  /\ queue' = IF finished THEN Without(queue, Entries) ELSE queue
  /\ Leaves(c, finished, Returned(c), analysis')
  /\ UNCHANGED <<recovery, procs, inputs>>

ClientDies(c) ==
  /\ client[c].pc # "idle"
  /\ client' = [client EXCEPT ![c] = At("idle", FALSE)]
  /\ Crash
  /\ UNCHANGED <<work, control, procs, inputs>>


-----------------------------------------------------------------------------
(* AnalysisSupervisor: one detached process, one run at a time *)

\* The process goes on to state `to', or dies and drops worker.lock.
Proceeds(w, finished, to) ==
  /\ sup' = [sup EXCEPT ![w] = IF finished THEN to ELSE Dead]
  /\ owner' = IF finished THEN owner ELSE None
  /\ CrashUnless(finished)
  /\ UNCHANGED signals

Boot(w) ==
  /\ sup[w].pc = "booting" /\ owner = None
  /\ sup' = [sup EXCEPT ![w] = In("locked")]
  /\ owner' = w
  /\ UNCHANGED <<signals, work, control, inputs, client, crashes>>

\* try_exclusive_file_lock fails: an owner, or a client probing for one.
BootBlocked(w) ==
  /\ sup[w].pc = "booting"
  /\ owner # None \/ (Entries # {} /\ ~recovery)
  /\ sup' = [sup EXCEPT ![w] = Dead]
  /\ UNCHANGED <<owner, signals, work, control, inputs, client, crashes>>

\* (Wrong: any claim will do.)
SelectedAny(w) == claim.state = "starting" /\ ~recovery
\* (Wrong: waits for what only the supervisor itself writes.)
SelectedReady(w) == claim = [id |-> w, state |-> "ready"] /\ ~recovery
Selected(w) == claim = [id |-> w, state |-> "starting"] /\ ~recovery

CheckClaim(w) ==
  /\ sup[w].pc = "locked"
  /\ sup' = [sup EXCEPT ![w] = In(IF Selected(w) THEN "serving" ELSE "stopping")]
  /\ UNCHANGED <<owner, signals, work, control, inputs, client, crashes>>

PublishReady(w) ==
  /\ sup[w].pc = "serving" /\ claim.id = w
  /\ claim' = [claim EXCEPT !.state = "ready"]
  /\ sup' = [sup EXCEPT ![w] = In("idle")]
  /\ UNCHANGED <<owner, signals, work, queue, recovery, inputs, client, crashes>>

\* Entries _take drops before it meets one it can claim.
Done == {r \in Entries : \A q \in queue[r].after \cup {r} : Ended(q)}

\* The queue first, then the run, then the summary.
Take(w, r, n) ==
  LET dropped == queue[r].after
  IN /\ sup[w].pc = "idle"
     /\ queue[r].status = "queued" /\ ~Ended(r) /\ dropped \subseteq Done
     /\ queue' = [Without(queue, dropped) EXCEPT ![r].status = "claimed", ![r].worker = w]
     /\ run' = IF n >= 2 THEN [run EXCEPT ![r].status = "running", ![r].worker = w] ELSE run
     /\ analysis' = SyncAll(dropped \cup {q \in {r} : n = 3}, run')
     /\ Proceeds(w, n = 3, [pc |-> "executing", run |-> r, event |-> FALSE])
     /\ client' = Noticed(analysis', {})
     /\ UNCHANGED <<recovery, claim, inputs>>

\* The process dies while it drops finished entries, one by one.
TakeDies(w, dropped, synced) ==
  /\ sup[w].pc = "idle"
  /\ dropped \in Prefixes(Done) /\ synced \in Prefixes(Done)
  /\ dropped \subseteq synced /\ Cardinality(synced \ dropped) <= 1
  /\ analysis' = SyncAll(synced, run)
  /\ queue' = Without(queue, dropped)
  /\ Proceeds(w, FALSE, Dead)
  /\ client' = Noticed(analysis', {})
  /\ UNCHANGED <<run, recovery, claim, inputs>>

\* Nothing left: the claim is marked stopped before worker.lock is released.
Stop(w) ==
  /\ sup[w].pc = "idle" /\ Done = Entries
  /\ analysis' = SyncAll(Done, run)
  /\ queue' = Without(queue, Done)
  /\ claim' = [claim EXCEPT !.state = "stopped"]
  /\ Proceeds(w, TRUE, In("stopping"))
  /\ client' = Noticed(analysis', {})
  /\ UNCHANGED <<run, recovery, inputs>>

\* change_run_unlocked: the 512th event record closes the run as failed.
BudgetFail(w) ==
  LET r == sup[w].run
  IN /\ sup[w].pc = "executing" /\ r \in LongRuns /\ ~Ended(r)
     /\ run' = Settled({r}, "failed")
     /\ UNCHANGED <<analysis, control, procs, inputs, client, crashes>>

Outcomes == {"awaiting_visual_review", "completed", "failed", "timed_out", "interrupted"}

\* cancelled(): the flag on disk, or the packet.  (Wrong: the packet alone.)
AskedByPacket(w) == sup[w].event
Asked(w) == run[sup[w].run].cancel \/ sup[w].event

\* (Wrong: overwrites a run that exhausted its records.)
FinishedAnyway(w, outcome) ==
  LET r == sup[w].run
      st == IF Asked(w) THEN "cancelled" ELSE IF outcome = "completed" THEN "failed" ELSE outcome
  IN [run EXCEPT ![r].status = st, ![r].worker = w]
\* The record _finish leaves: a terminal one is final, cancellation wins over
\* any outcome, and "completed" is not for the supervisor to publish.
Finished(w, outcome) ==
  LET r == sup[w].run
      st == IF Asked(w) THEN "cancelled" ELSE IF outcome = "completed" THEN "failed" ELSE outcome
  IN IF Ended(r) THEN run
     ELSE [run EXCEPT ![r] = [status |-> st, cancel |-> run[r].cancel,
            worker |-> IF st = "awaiting_visual_review" THEN None ELSE w,
            evidence |-> IF st = "awaiting_visual_review" THEN "sealed" ELSE run[r].evidence]]

\* The run, then the summary, then the queue.
Finish(w, outcome, n) ==
  LET r == sup[w].run
  IN /\ sup[w].pc = "executing" /\ CanSync(r)
     /\ run' = Finished(w, outcome)
     /\ analysis' = IF n >= 2 THEN SyncAll({r}, run') ELSE analysis
     /\ queue' = IF n = 3 THEN Without(queue, {r}) ELSE queue
     /\ Proceeds(w, n = 3, In("idle"))
     /\ client' = Noticed(analysis', {})
     /\ UNCHANGED <<recovery, claim, inputs>>

\* synchronize_analysis raises ANALYSIS_BUSY, which ends the process.
FinishBusy(w, outcome) ==
  /\ sup[w].pc = "executing" /\ ~CanSync(sup[w].run)
  /\ run' = Finished(w, outcome)
  /\ sup' = [sup EXCEPT ![w] = In("stopping")]
  /\ UNCHANGED <<owner, signals, analysis, control, inputs, client, crashes>>

Exit(w) ==
  /\ sup[w].pc = "stopping"
  /\ sup' = [sup EXCEPT ![w] = Dead]
  /\ owner' = None
  /\ UNCHANGED <<signals, work, control, inputs, client, crashes>>

Kill(w) ==
  /\ sup[w].pc # "none"
  /\ sup' = [sup EXCEPT ![w] = Dead]
  /\ owner' = IF owner = w THEN None ELSE owner
  /\ Crash
  /\ UNCHANGED <<signals, work, control, inputs, client>>

-----------------------------------------------------------------------------
(* cancel *)

Cancellable(r) ==
  run[r].status \notin Terminal \cup {"absent"} /\ analysis[OwnerOf(r)].active = r
NoWorker(r) ==
  run[r].status \in {"queued", "awaiting_visual_review"} /\ run[r].worker = None

\* The run, the summary, the queue.
CancelQueued(r, n) ==
  /\ Cancellable(r) /\ NoWorker(r)
  /\ run' = [run EXCEPT ![r].status = "cancelled", ![r].cancel = TRUE]
  /\ analysis' = IF n >= 2 THEN SyncAll({r}, run') ELSE analysis
  /\ queue' = IF n = 3 THEN Without(queue, {r}) ELSE queue
  /\ client' = Noticed(analysis', {})
  /\ CrashUnless(n = 3)
  /\ UNCHANGED <<recovery, claim, procs, inputs>>

\* The flag (which may be the last event record of a long run), the summary,
\* and, with the locks released, a packet to the worker of the claim.
CancelActive(r, full, n) ==
  /\ Cancellable(r) /\ ~NoWorker(r)
  /\ full => r \in LongRuns
  /\ run' = [IF full THEN Settled({r}, "failed") ELSE run EXCEPT ![r].cancel = TRUE]
  /\ analysis' = IF n >= 2 THEN SyncAll({r}, run') ELSE analysis
  /\ signals' = IF n = 3 /\ claim.id # None
                THEN signals \cup {<<claim.id, r>>} ELSE signals
  /\ client' = Noticed(analysis', {})
  /\ CrashUnless(n = 3)
  /\ UNCHANGED <<control, owner, sup, inputs>>

\* (Wrong: obeys a packet for another run.)
DeliverAny(w, r, arrives) ==
  /\ <<w, r>> \in signals
  /\ signals' = signals \ {<<w, r>>}
  /\ sup' = [sup EXCEPT ![w].event = @ \/ (arrives /\ sup[w].pc = "executing")]
  /\ UNCHANGED <<owner, work, control, inputs, client, crashes>>
\* request_cancel: the packet is obeyed when it names the run being executed.
Deliver(w, r, arrives) ==
  /\ <<w, r>> \in signals
  /\ signals' = signals \ {<<w, r>>}
  /\ sup' = [sup EXCEPT ![w].event =
               @ \/ (arrives /\ sup[w].pc = "executing" /\ sup[w].run = r)]
  /\ UNCHANGED <<owner, work, control, inputs, client, crashes>>

-----------------------------------------------------------------------------
(* Writers of analysis.json outside the scheduler *)

\* (Wrong: goes by the status of the summary.)
QuietStatus(a) == analysis[a].status \notin {"queued", "running"}
Quiet(a) ==
  /\ ~Pending(a) /\ analysis[a].active = None
  /\ analysis[a].status \notin {"queued", "running"}

\* rebind_source, or publish_revision of a new review: older runs are history.
Revise(a) ==
  /\ Quiet(a)
  /\ analysis' = [analysis EXCEPT ![a] = [@ EXCEPT !.approved = FALSE, !.status = "review"]]
  /\ outdated' = outdated \cup {r \in Runs : OwnerOf(r) = a /\ run[r].status # "absent"}
  /\ client' = Noticed(analysis', {a})
  /\ UNCHANGED <<run, control, procs, index, crashes>>

\* publish_revision of the approval of the current review.
Approve(a) ==
  /\ Quiet(a) /\ ~analysis[a].approved
  /\ analysis' = [analysis EXCEPT ![a] = [@ EXCEPT !.approved = TRUE, !.status = "approved"]]
  /\ client' = Noticed(analysis', {a})
  /\ UNCHANGED <<run, control, procs, inputs, crashes>>

\* (Wrong: the run is completed before its report is there.)
PresentedRunFirst(rec, n) ==
  [rec EXCEPT !.status = "completed",
              !.evidence = IF n >= 3 THEN "head" ELSE IF n = 1 \/ @ # "sealed" THEN @
                           ELSE "version"]
\* finalize_visual / _publish: a new version of the report and its entry in the
\* index, the completed run, the delivery head, then analysis.json.
Presented(rec, n) ==
  [rec EXCEPT !.status = IF n >= 2 THEN "completed" ELSE @,
              !.evidence = IF n >= 3 THEN "head"
                           ELSE IF @ = "sealed" THEN "version" ELSE "versions"]
Finalize(r, n) ==
  LET a == OwnerOf(r)
  IN /\ Paused(r) /\ ~run[r].cancel
     /\ run' = [run EXCEPT ![r] = Presented(@, n)]
     /\ analysis' = IF n = 4 THEN [analysis EXCEPT ![a] = Synced(@, r, "completed")]
                    ELSE analysis
     /\ client' = Noticed(analysis', {})
     /\ CrashUnless(n = 4)
     /\ UNCHANGED <<control, procs, inputs>>

\* _selected: without a head only the one version there is can be meant.
SelectsVersion(r) == run[r].evidence \in {"version", "head"}
\* _recover_published: a completed run whose analysis.json was not written.
Recoverable(r) ==
  LET a == OwnerOf(r)
  IN /\ run[r].status = "completed" /\ SelectsVersion(r) /\ r \notin outdated
     /\ analysis[a].latest = r /\ analysis[a].active = r
Recover(r) ==
  LET a == OwnerOf(r)
  IN /\ Recoverable(r)
     /\ analysis' = [analysis EXCEPT ![a] = [@ EXCEPT !.status = "completed", !.active = None]]
     /\ client' = Noticed(analysis', {})
     /\ UNCHANGED <<run, control, procs, inputs, crashes>>

-----------------------------------------------------------------------------
Init ==
  /\ queue = [r \in Runs |-> NoEntry] /\ recovery = FALSE
  /\ claim = [id |-> None, state |-> "none"]
  /\ owner = None /\ sup = [w \in Workers |-> Dead] /\ signals = {}
  /\ run = [r \in Runs |-> NoRun]
  /\ analysis = [a \in Analyses |->
       [active |-> None, latest |-> None, approved |-> TRUE, status |-> "approved"]]
  /\ index = [k \in Keys |-> None] /\ outdated = {}
  /\ client = [c \in Clients |-> At("idle", FALSE)] /\ crashes = 0

Submitting(c) ==
  \/ \E r \in Runs : \/ \E n \in 1..3 : Resubmit(c, r, n) \/ CommitExisting(c, r, n)
                     \/ \E n \in 1..4 : CommitSubmit(c, r, n)
  \/ \E k \in Keys, p \in Runs \cup {None} : CheckSubmit(c, k, p)
  \/ SubmitRejected(c)
Recovering(c) ==
  \/ \E n \in 1..4 : EnsureInterrupts(c, n)
  \/ \E n \in 1..2 : EnsureSettles(c, n)
  \/ \E w \in Workers, n \in 1..3 : EnsureLaunches(c, w, n)
Launching(c) ==
  \/ LaunchSpawn(c) \/ LaunchReturns(c) \/ LaunchRaises(c) \/ LaunchSpared(c)
  \/ \E P, S \in SUBSET Runs, finished \in BOOLEAN : LaunchFailed(c, P, S, finished)
Reconciling(c) ==
  \E S \in SUBSET Runs, finished \in BOOLEAN : Reconcile(c, S, finished)
ClientNext(c) ==
  \/ Reconciling(c) \/ EnsureNothing(c) \/ Recovering(c) \/ Launching(c)
  \/ Submitting(c) \/ ClientDies(c)

Supervising(w) ==
  \/ Boot(w) \/ BootBlocked(w) \/ CheckClaim(w) \/ PublishReady(w)
  \/ \E r \in Runs, n \in 1..3 : Take(w, r, n)
  \/ Stop(w)
  \/ \E o \in Outcomes : FinishBusy(w, o) \/ \E n \in 1..3 : Finish(w, o, n)
  \/ Exit(w)
SupervisorNext(w) ==
  \/ Supervising(w) \/ BudgetFail(w) \/ Kill(w)
  \/ \E P, S \in SUBSET Runs : TakeDies(w, P, S)

Cancelling ==
  \E r \in Runs, n \in 1..3 :
    CancelQueued(r, n) \/ \E full \in BOOLEAN : CancelActive(r, full, n)
Delivering == \E w \in Workers, r \in Runs, ok \in BOOLEAN : Deliver(w, r, ok)
Reviewing ==
  \/ \E a \in Analyses : Revise(a) \/ Approve(a)
  \/ \E r \in Runs : Recover(r) \/ \E n \in 1..4 : Finalize(r, n)

Next ==
  \/ \E c \in Clients : ClientNext(c)
  \/ \E w \in Workers : SupervisorNext(w)
  \/ Cancelling \/ Delivering \/ Reviewing

Spec == Init /\ [][Next]_vars


-----------------------------------------------------------------------------
(* Safety *)

\* Every file and process record has the shape its schema gives it.
TypeOK ==
  /\ queue \in [Runs -> Entry] /\ recovery \in BOOLEAN /\ claim \in Claim
  /\ owner \in Workers \cup {None} /\ sup \in [Workers -> Supervisor]
  /\ \A w \in Workers : sup[w].pc = "executing" => sup[w].run \in Runs
  /\ signals \subseteq Workers \X Runs
  /\ run \in [Runs -> RunRecord] /\ analysis \in [Analyses -> AnalysisRecord]
  /\ index \in [Keys -> Runs \cup {None}] /\ outdated \subseteq Runs
  /\ client \in [Clients -> Client] /\ crashes \in 0..MaxCrashes

Active == {"serving", "idle", "executing"}
Holding == Active \cup {"locked", "stopping"}

\* A supervisor past its claim check is the one process that holds worker.lock,
\* and the claim the queue selects stays its own until it is gone: no relaunch,
\* however old the claim or slow the answer, can pull it away (run, _ensure_worker).
ClaimPinned ==
  \A w \in Workers : sup[w].pc \in Active => owner = w /\ claim.id = w

\* While the queue demands recovery nothing executes (run, _ensure_worker).
RecoveryHalts == recovery => \A w \in Workers : sup[w].pc \notin Active

\* At most one entry is claimed; an idle supervisor never meets a claimed one,
\* so the ANALYSIS_WORKER_LOST branch of _take is a backstop.
OneClaimed ==
  /\ \A r, q \in Claimed : r = q
  /\ \A w \in Workers : sup[w].pc = "idle" => Claimed = {}

\* What executes, unless its records ran out, is claimed by its own worker in
\* the queue and stamped with it in run.json, so that _finish may publish.
ExecutionOwned ==
  \A w \in Workers :
    LET r == sup[w].run
    IN sup[w].pc = "executing" /\ ~Ended(r) =>
         /\ queue[r].status = "claimed" /\ queue[r].worker = w
         /\ run[r].status = "running" /\ run[r].worker = w

\* A run left "running" by a dead worker still has its claimed entry, which is
\* what the recovery loop of _ensure_worker goes by.
RunningHasEntry ==
  \A r \in Runs : run[r].status = "running" => queue[r].status = "claimed"

\* What makes the five invariants above inductive.
WorkerInv ==
  /\ \A w \in Workers : sup[w].pc \in Holding => owner = w
  /\ \A w \in Workers :
       /\ sup[w].pc = "serving" => claim = [id |-> w, state |-> "starting"]
       /\ sup[w].pc \in {"idle", "executing"} => claim = [id |-> w, state |-> "ready"]
       /\ sup[w].pc = "executing" => Claimed \subseteq {sup[w].run}
  /\ claim.state = "starting" => Claimed = {}
  /\ RecoveryHalts /\ OneClaimed /\ ExecutionOwned /\ RunningHasEntry

\* An analysis has one entry or paused run at most.
Live(r) == (r \in Entries /\ ~Ended(r)) \/ Paused(r)
OneLiveRun ==
  \A r, q \in Runs : Live(r) /\ Live(q) /\ OwnerOf(r) = OwnerOf(q) => r = q

\* An entry is the only one of its analysis, which is active with it or with
\* nothing: neither replace nor synchronize_analysis raises ANALYSIS_BUSY
\* halfway through a recovery.  What executes is what its analysis shows.
EntryMatchesAnalysis ==
  /\ \A r \in Entries : CanSync(r)
  /\ \A r, q \in Entries : OwnerOf(r) = OwnerOf(q) => r = q
  /\ \A w \in Executing : LET r == sup[w].run
       IN Ended(r) \/ analysis[OwnerOf(r)].active = r

\* An idempotency key gets one run, whatever crashed between run and index.
OneRunPerKey ==
  \A r, q \in Runs :
    run[r].status # "absent" /\ run[q].status # "absent" /\ KeyOf[r] = KeyOf[q] => r = q

\* No revision or source change gets under a run in flight.
FrozenInputs == \A r \in Runs : Live(r) => r \notin outdated

\* A cancellation that was accepted is never overtaken by a result.
CancelHonoured ==
  \A r \in Runs : run[r].cancel => run[r].status \notin {"awaiting_visual_review", "completed"}

\* Only the run a caller named is cancelled, though cancel packets race with
\* the end of one execution and the start of the next.
CancelOnlySelected ==
  /\ \A r \in Runs : run[r].status = "cancelled" => run[r].cancel
  /\ \A w \in Workers : sup[w].event => run[sup[w].run].cancel

\* What nothing releases: a paused run whose cancellation died before
\* analysis.json, and a completed run of whose two publications the first died
\* after the version and the second before the head.
CancelledHalfway(r) ==
  run[r].status = "cancelled" /\ run[r].evidence # "none" /\ crashes >= 1
Unselectable(r) ==
  run[r].status = "completed" /\ run[r].evidence = "versions" /\ crashes >= 2

\* An analysis stays active with a run that ended only while something is left
\* that will release it: the queue entry (reconcile), or a completion that
\* _recover_published accepts; two ways of dying halfway are all that is left out.
ReleasedLater ==
  \A a \in Analyses : LET r == analysis[a].active
    IN r # None /\ Ended(r) =>
         r \in Entries \/ Recoverable(r) \/ CancelledHalfway(r) \/ Unselectable(r)

-----------------------------------------------------------------------------
(* What the repository says and a run refutes *)

\* "a failed, cancelled, interrupted or timed-out solve needs an explicit new
\* retry": so one can be made, that is, the analysis is not kept active for
\* good by a run that ended.  cancel breaks it when it stops halfway.
RetryRemainsPossible ==
  \A a \in Analyses : LET r == analysis[a].active
    IN r # None /\ Ended(r) => r \in Entries \/ Recoverable(r)

-----------------------------------------------------------------------------
(* Refinement: the run records are a RunLedger. *)

Holder == IF Executing = {} THEN None ELSE sup[CHOOSE w \in Executing : TRUE].run

Ledger == INSTANCE RunLedger WITH
  status <- [r \in Runs |-> run[r].status],
  asked <- {r \in Runs : run[r].cancel},
  holder <- Holder

\* However processes interleave and die, run.json only ever takes the steps of
\* the ledger: one execution per run, one at a time, final outcomes.
LedgerSpec == Ledger!Spec

-----------------------------------------------------------------------------
(* Liveness *)

\* Processes that live make steps.  Clients keep submitting (nothing else
\* calls reconcile), and do not always find the claim younger than 30 s.
Fairness ==
  /\ \A w \in Workers : WF_vars(Supervising(w))
  /\ \A c \in Clients :
       /\ WF_vars(Reconciling(c)) /\ WF_vars(Submitting(c))
       /\ WF_vars(EnsureNothing(c) \/ Recovering(c)) /\ SF_vars(Recovering(c))
       /\ WF_vars(Launching(c))
  /\ \A w \in Workers, r \in Runs : WF_vars(\E ok \in BOOLEAN : Deliver(w, r, ok))

FairSpec == Spec /\ Fairness

\* From some time on a supervisor is through its start, and its launcher through
\* its 8 s, before the next launch (launches come 30 s apart).  Supervisors that
\* are slower can refuse each other forever, the old one has worker.lock and the
\* new one the claim; and launchers can go on exchanging each other's claim.
PromptStarts ==
  <>[](/\ Cardinality({w \in Workers : sup[w].pc # "none"}) <= 1
       /\ Cardinality({c \in Clients : client[c].pc \in {"launching", "waiting", "failing"}}) <= 1)

\* A queued run is taken up, or closed, or the queue says recovery is needed.
QueuedProgress ==
  PromptStarts => \A r \in Runs :
    (queue[r].status = "queued") ~> (queue[r].status # "queued" \/ recovery)

\* A cancellation that was accepted brings its run to an end.
CancelEnds == PromptStarts => \A r \in Runs : run[r].cancel ~> Ended(r)

=============================================================================
