--------------------- MODULE FeaSchedulerAnalysis_proofs ---------------------
(***************************************************************************)
(* Theorems about the analyses of FeaScheduler: what the queue, the run    *)
(* records and the summaries in analysis.json say of each other, whatever  *)
(* handlers die between their writes.                                      *)
(***************************************************************************)
EXTENDS FeaSchedulerRuns_proofs

\* An analysis is active with a paused run, and with no other run than its
\* latest one, of the current inputs, that will release it or has completed,
\* or whose cancellation died halfway.
ActiveWorks ==
  /\ \A r \in Runs : Paused(r) => analysis[OwnerOf(r)].active = r
  /\ \A a \in Analyses, r \in Runs : analysis[a].active = r =>
       /\ OwnerOf(r) = a /\ analysis[a].latest = r /\ r \notin outdated
       /\ \/ r \in Entries \/ Paused(r)
          \/ run[r].status = "completed" \/ CancelledHalfway(r)

AnalysisInv == EntryMatchesAnalysis /\ ActiveWorks /\ FrozenInputs

\* What a run has to show by the time it pauses and by the time it completes;
\* every version that no head selects is one death.
EvidenceInv ==
  \A r \in Runs :
    /\ Paused(r) => run[r].evidence \in {"sealed", "version", "versions"}
    /\ run[r].status = "completed" => run[r].evidence \in {"version", "versions", "head"}
    /\ Paused(r) /\ run[r].evidence = "version" => crashes >= 1
    /\ run[r].evidence = "versions" =>
         crashes >= 1 /\ (run[r].status = "completed" => crashes >= 2)

-----------------------------------------------------------------------------
(* What the ledger says of the end of a run and of a review *)

LEMMA LedgerFinal ==
  ASSUME [Ledger!Next]_(Ledger!vars), NEW r \in Runs
  PROVE  /\ Ended(r) => run'[r].status = run[r].status
         /\ Paused(r)' => Paused(r) \/ (Holder = r /\ run[r].status = "running")
<1> DEFINE status == [q \in Runs |-> run[q].status]
           after == [q \in Runs |-> run'[q].status]
           Over == {"completed", "failed", "cancelled", "timed_out", "interrupted"}
<1>1. ASSUME status[r] \in Over => after[r] = status[r],
             after[r] = "awaiting_visual_review" =>
               \/ status[r] = "awaiting_visual_review"
               \/ Holder = r /\ status[r] = "running"
      PROVE  /\ Ended(r) => run'[r].status = run[r].status
             /\ Paused(r)' => Paused(r) \/ (Holder = r /\ run[r].status = "running")
  BY <1>1 DEF Ended, Terminal, Paused
<1>2. ASSUME NEW q \in Runs, Ledger!Submit(q)
      PROVE  status[q] = "absent" /\ after = [status EXCEPT ![q] = "queued"]
  BY <1>2 DEF Ledger!Submit
<1>3. ASSUME NEW q \in Runs, Ledger!Start(q)
      PROVE  status[q] = "queued" /\ after = [status EXCEPT ![q] = "running"]
  BY <1>3 DEF Ledger!Start
<1>4. ASSUME NEW q \in Runs, Ledger!Complete(q)
      PROVE  /\ status[q] = "awaiting_visual_review"
             /\ after = [status EXCEPT ![q] = "completed"]
  BY <1>4 DEF Ledger!Complete
<1>5. ASSUME NEW q \in Runs, Ledger!Ask(q)
      PROVE  /\ status[q] \in {"queued", "running", "awaiting_visual_review"}
             /\ \/ after = status
                \/ after = [status EXCEPT ![q] = "cancelled"]
                \/ after = [status EXCEPT ![q] = "failed"]
  BY <1>5 DEF Ledger!Ask, Ledger!Unfinished
<1>6. ASSUME NEW q \in Runs, NEW st \in {"awaiting_visual_review"} \cup Ledger!Unsuccessful,
             Ledger!End(q, st)
      PROVE  Holder = q /\ status[q] = "running" /\ after = [status EXCEPT ![q] = st]
  BY <1>6 DEF Ledger!End
<1>7. ASSUME NEW S \in SUBSET Runs, NEW st \in {"failed", "interrupted"}, Ledger!Close(S, st)
      PROVE  /\ \A q \in S : status[q] \in {"queued", "running", "awaiting_visual_review"}
             /\ after = [q \in Runs |-> IF q \in S THEN st ELSE status[q]]
  BY <1>7 DEF Ledger!Close, Ledger!Unfinished
<1>8. Ledger!Drop \/ UNCHANGED Ledger!vars => after = status
  BY DEF Ledger!Drop, Ledger!vars
<1> HIDE DEF status, after
<1>9. status \in [Runs -> {status[q] : q \in Runs}] BY DEF status
<1> QED BY <1>1, <1>2, <1>3, <1>4, <1>5, <1>6, <1>7, <1>8, <1>9 DEF Ledger!Next

-----------------------------------------------------------------------------
(* The evidence of a run *)

\* What a step may do to the evidence of a run and the count of deaths.
EvidenceMove ==
  /\ crashes' >= crashes
  /\ \A r \in Runs :
       \/ /\ run'[r].evidence = run[r].evidence
          /\ run'[r].status \in {"awaiting_visual_review", "completed"} =>
               run'[r].status = run[r].status
       \/ /\ run[r].status = "absent" /\ run'[r].status = "queued"
          /\ run'[r].evidence = "none"
       \/ /\ ~Ended(r) /\ run'[r].status = "awaiting_visual_review"
          /\ run'[r].evidence = "sealed"
       \/ \E n \in 1..4 : Finalize(r, n)

LEMMA CrashesNat == TypeOK => crashes \in Nat
BY SchedulerAssumption DEF TypeOK

LEMMA DeathsGrow ==
  ASSUME TypeOK, UNCHANGED crashes \/ Crash
  PROVE  crashes' >= crashes
BY CrashesNat DEF Crash

LEMMA EvidenceSame == TypeOK /\ UNCHANGED <<run, crashes>> => EvidenceMove
BY CrashesNat DEF EvidenceMove

LEMMA EvidenceSettled ==
  ASSUME TypeOK, NEW S \in SUBSET Runs, NEW st \in {"failed", "interrupted"},
         run' = run \/ run' = Settled(S, st),
         UNCHANGED crashes \/ Crash
  PROVE  EvidenceMove
<1>1. \A r \in Runs : /\ run'[r].evidence = run[r].evidence
                      /\ run'[r].status = run[r].status \/ run'[r].status = st
  BY DEF Settled, TypeOK, RunRecord
<1> QED BY <1>1, DeathsGrow DEF EvidenceMove

LEMMA EvidenceClient ==
  ASSUME TypeOK, WorkerInv, Recorded, NEW c \in Clients, ClientNext(c)
  PROVE  EvidenceMove
<1>1. UNCHANGED crashes \/ Crash
  BY DEF ClientNext, Reconciling, Reconcile, EnsureNothing, Recovering, EnsureInterrupts,
         EnsureSettles, EnsureLaunches, Launching, LaunchSpawn, LaunchReturns, LaunchRaises,
         LaunchSpared, LaunchFailed, Submitting, Resubmit, CommitExisting, CommitSubmit,
         CheckSubmit, SubmitRejected, ClientDies, Leaves, Becomes, CrashUnless
<1>2. ASSUME NEW r \in Runs, NEW n \in 1..4, CommitSubmit(c, r, n) PROVE EvidenceMove
  <2>1. /\ run[r].status = "absent" /\ run'[r] = [NoRun EXCEPT !.status = "queued"]
        /\ \A q \in Runs \ {r} : run'[q] = run[q]
    BY <1>2 DEF CommitSubmit, Committable, Matches, TypeOK
  <2>2. run'[r].status = "queued" /\ run'[r].evidence = "none" BY <2>1 DEF NoRun
  <2>3. crashes' >= crashes BY <1>1, DeathsGrow
  <2> QED BY <2>1, <2>2, <2>3 DEF EvidenceMove
<1>3. CASE \A r \in Runs, n \in 1..4 : ~CommitSubmit(c, r, n)
  <2>1. \E S \in SUBSET Runs, st \in {"failed", "interrupted"} :
          run' = run \/ run' = Settled(S, st)
    <3>1. ASSUME NEW r \in Runs, NEW n, Repaired(r, n)
          PROVE  run' = run \/ run' = Settled({r}, "interrupted")
      BY <3>1 DEF Repaired
    <3>2. ASSUME NEW n, EnsureInterrupts(c, n) PROVE run' = Settled(Lost, "interrupted")
      BY <3>2 DEF EnsureInterrupts
    <3>3. Lost \in SUBSET Runs BY DEF Lost, Claimed
    <3>4. ASSUME NEW P \in SUBSET Runs, NEW S, NEW f, LaunchFailed(c, P, S, f)
          PROVE  run' = Settled({r \in P : ~Ended(r)}, "failed")
      BY <3>4 DEF LaunchFailed
    <3>5. \/ \E r \in Runs, n \in 1..3 : Repaired(r, n)
          \/ \E n \in 1..4 : EnsureInterrupts(c, n)
          \/ \E P, S \in SUBSET Runs, f \in BOOLEAN : LaunchFailed(c, P, S, f)
          \/ run' = run
      BY <1>3
      DEF ClientNext, Reconciling, Reconcile, EnsureNothing, Recovering,
          EnsureSettles, EnsureLaunches, Launching, LaunchSpawn, LaunchReturns,
          LaunchRaises, LaunchSpared, Submitting, Resubmit, CommitExisting,
          CheckSubmit, SubmitRejected, ClientDies, work
    <3>6. ASSUME NEW P \in SUBSET Runs, NEW S, NEW f, LaunchFailed(c, P, S, f)
          PROVE  \E D \in SUBSET Runs : run' = Settled(D, "failed")
      BY <3>4, <3>6
    <3> QED BY <3>1, <3>2, <3>3, <3>5, <3>6
  <2> QED BY <1>1, <2>1, EvidenceSettled
<1> QED BY <1>2, <1>3

LEMMA EvidenceSupervisor ==
  ASSUME TypeOK, WorkerInv, Recorded, NEW w \in Workers, SupervisorNext(w)
  PROVE  EvidenceMove
<1>1. UNCHANGED crashes \/ Crash
  BY DEF SupervisorNext, Supervising, Boot, BootBlocked, CheckClaim, PublishReady, Take, Stop,
         FinishBusy, Finish, Exit, BudgetFail, Kill, TakeDies, Proceeds, CrashUnless
<1>2. ASSUME NEW o \in Outcomes, run' = Finished(w, o), sup[w].pc = "executing"
      PROVE  EvidenceMove
  <2>1. PICK r \in Runs : r = sup[w].run BY <1>2 DEF TypeOK
  <2>2. CASE Ended(r)
    <3>1. run' = run BY <1>2, <2>1, <2>2 DEF Finished
    <3> QED BY <1>1, <3>1, DeathsGrow DEF EvidenceMove
  <2>3. CASE ~Ended(r)
    <3>1. PICK st \in {"cancelled", "awaiting_visual_review", "failed", "timed_out",
                       "interrupted"} :
            Finished(w, o) = [run EXCEPT ![r] =
              [status |-> st, cancel |-> run[r].cancel,
               worker |-> IF st = "awaiting_visual_review" THEN None ELSE w,
               evidence |-> IF st = "awaiting_visual_review" THEN "sealed"
                            ELSE run[r].evidence]]
      BY <2>1, <2>3, FinishedRun
    <3>2. /\ run'[r].status = st /\ \A q \in Runs \ {r} : run'[q] = run[q]
          /\ run'[r].evidence = IF st = "awaiting_visual_review" THEN "sealed"
                                ELSE run[r].evidence
      BY <1>2, <3>1 DEF TypeOK
    <3> QED BY <1>1, <2>3, <3>2, DeathsGrow DEF EvidenceMove
  <2> QED BY <2>2, <2>3
<1>3. ASSUME NEW r \in Runs, NEW n \in 1..3, Take(w, r, n) PROVE EvidenceMove
  <2>1. \/ run' = run
        \/ run' = [run EXCEPT ![r].status = "running", ![r].worker = w]
    BY <1>3 DEF Take
  <2>2. \A q \in Runs : /\ run'[q].evidence = run[q].evidence
                        /\ run'[q].status = run[q].status \/ run'[q].status = "running"
    BY <2>1 DEF TypeOK, RunRecord
  <2> QED BY <1>1, <2>2, DeathsGrow DEF EvidenceMove
<1>4. CASE BudgetFail(w)
  <2>1. run' = Settled({sup[w].run}, "failed") /\ sup[w].run \in Runs
    BY <1>4 DEF BudgetFail, TypeOK
  <2> QED BY <1>1, <2>1, EvidenceSettled
<1>5. CASE run' = run BY <1>1, <1>5, DeathsGrow DEF EvidenceMove
<1> QED BY <1>2, <1>3, <1>4, <1>5
        DEF SupervisorNext, Supervising, Boot, BootBlocked, CheckClaim, PublishReady, Stop,
            FinishBusy, Finish, Exit, Kill, TakeDies, work

LEMMA EvidenceMoves ==
  TypeOK /\ WorkerInv /\ Recorded /\ [Next]_vars => EvidenceMove
<1> SUFFICES ASSUME TypeOK, WorkerInv, Recorded, [Next]_vars PROVE EvidenceMove
  OBVIOUS
<1>1. ASSUME NEW r \in Runs, NEW n \in 1..3, CancelQueued(r, n) PROVE EvidenceMove
  <2>1. \A q \in Runs : /\ run'[q].evidence = run[q].evidence
                        /\ run'[q].status = run[q].status \/ run'[q].status = "cancelled"
    BY <1>1 DEF CancelQueued, TypeOK, RunRecord
  <2>2. crashes' >= crashes BY <1>1, DeathsGrow DEF CancelQueued, CrashUnless
  <2> QED BY <2>1, <2>2 DEF EvidenceMove
<1>2. ASSUME NEW r \in Runs, NEW full \in BOOLEAN, NEW n \in 1..3, CancelActive(r, full, n)
      PROVE  EvidenceMove
  <2>1. PICK rn : /\ rn = run \/ rn = Settled({r}, "failed")
                  /\ run' = [rn EXCEPT ![r].cancel = TRUE]
    BY <1>2 DEF CancelActive
  <2>2. rn \in [Runs -> RunRecord] BY <2>1, SettledType DEF TypeOK, RunStatus, Terminal
  <2>3. \A q \in Runs : /\ run'[q].evidence = rn[q].evidence /\ run'[q].status = rn[q].status
    BY <2>1, <2>2 DEF RunRecord
  <2>4. \A q \in Runs : /\ rn[q].evidence = run[q].evidence
                        /\ rn[q].status = run[q].status \/ rn[q].status = "failed"
    BY <2>1 DEF Settled, TypeOK, RunRecord
  <2>5. crashes' >= crashes BY <1>2, DeathsGrow DEF CancelActive, CrashUnless
  <2> QED BY <2>3, <2>4, <2>5 DEF EvidenceMove
<1>3. ASSUME NEW r \in Runs, NEW n \in 1..4, Finalize(r, n) PROVE EvidenceMove
  <2>1. \A q \in Runs \ {r} : run'[q] = run[q] BY <1>3, PresentedRun
  <2>2. crashes' >= crashes BY <1>3, DeathsGrow DEF Finalize, CrashUnless
  <2> QED BY <1>3, <2>1, <2>2 DEF EvidenceMove
<1>4. CASE Reviewing
  BY <1>3, <1>4, EvidenceSame DEF Reviewing, Revise, Approve, Recover
<1>5. CASE Delivering
  <2>1. UNCHANGED <<run, crashes>> BY <1>5 DEF Delivering, Deliver, work
  <2> QED BY <2>1, EvidenceSame
<1>6. CASE UNCHANGED vars BY <1>6, EvidenceSame DEF vars, work
<1> QED BY <1>1, <1>2, <1>4, <1>5, <1>6, EvidenceClient, EvidenceSupervisor DEF Next, Cancelling

LEMMA EvidenceInit == Init => EvidenceInv
BY DEF Init, EvidenceInv, NoRun, Paused

LEMMA EvidenceKept ==
  TypeOK /\ TypeOK' /\ EvidenceInv /\ EvidenceMove => EvidenceInv'
<1> SUFFICES ASSUME TypeOK, TypeOK', EvidenceInv, EvidenceMove, NEW r \in Runs
             PROVE  /\ Paused(r)' => run'[r].evidence \in {"sealed", "version", "versions"}
                    /\ run'[r].status = "completed" =>
                         run'[r].evidence \in {"version", "versions", "head"}
                    /\ Paused(r)' /\ run'[r].evidence = "version" => crashes' >= 1
                    /\ run'[r].evidence = "versions" =>
                         /\ crashes' >= 1
                         /\ run'[r].status = "completed" => crashes' >= 2
  BY DEF EvidenceInv
<1>1. crashes \in Nat /\ crashes' \in Nat /\ crashes' >= crashes
  BY CrashesNat, SchedulerAssumption DEF EvidenceMove, TypeOK
<1>2. CASE \E n \in 1..4 : Finalize(r, n)
  <2>1. PICK n \in 1..4 : Finalize(r, n) BY <1>2
  <2>2. /\ Paused(r)
        /\ run'[r].status = IF n = 1 THEN "awaiting_visual_review" ELSE "completed"
        /\ run'[r].evidence = IF n >= 3 THEN "head"
                              ELSE IF run[r].evidence = "sealed" THEN "version" ELSE "versions"
    BY <2>1, PresentedRun
  <2>3. n # 4 => crashes' = crashes + 1 BY <2>1 DEF Finalize, CrashUnless, Crash
  <2>4. /\ run[r].evidence \in {"sealed", "version", "versions"}
        /\ run[r].evidence # "sealed" => crashes >= 1
    BY <2>2 DEF EvidenceInv
  <2> QED BY <1>1, <2>2, <2>3, <2>4 DEF Paused
<1>3. CASE ~\E n \in 1..4 : Finalize(r, n)
  <2>1. CASE /\ run'[r].evidence = run[r].evidence
             /\ run'[r].status \in {"awaiting_visual_review", "completed"} =>
                  run'[r].status = run[r].status
    <3>1. CASE run'[r].status = run[r].status
      BY <1>1, <2>1, <3>1 DEF EvidenceInv, Paused
    <3>2. CASE run'[r].status \notin {"awaiting_visual_review", "completed"}
      BY <1>1, <2>1, <3>2 DEF EvidenceInv, Paused
    <3> QED BY <2>1, <3>1, <3>2
  <2>2. CASE run'[r].status = "queued" /\ run'[r].evidence = "none" BY <2>2 DEF Paused
  <2>3. CASE run'[r].status = "awaiting_visual_review" /\ run'[r].evidence = "sealed"
    BY <2>3 DEF Paused
  <2> QED BY <1>3, <2>1, <2>2, <2>3 DEF EvidenceMove
<1> QED BY <1>2, <1>3

-----------------------------------------------------------------------------
(* What a step does to the runs, as far as the analyses are concerned *)

\* A paused run that a death cancels is cancelled halfway, and remains so.
RunsMove ==
  /\ [Ledger!Next]_(Ledger!vars)
  /\ \A r \in Runs :
       /\ CancelledHalfway(r) => CancelledHalfway(r)'
       /\ Paused(r) /\ run'[r].status = "cancelled" /\ crashes' >= 1
            => CancelledHalfway(r)'

LEMMA HalfwayKept ==
  ASSUME TypeOK, TypeOK', EvidenceInv, EvidenceMove, [Ledger!Next]_(Ledger!vars),
         NEW r \in Runs,
         \/ CancelledHalfway(r)
         \/ Paused(r) /\ run'[r].status = "cancelled" /\ crashes' >= 1
  PROVE  CancelledHalfway(r)'
<1>1. run'[r].status = "cancelled" BY LedgerFinal DEF CancelledHalfway, Ended, Terminal
<1>2. crashes' >= 1
  <2>1. crashes \in Nat /\ crashes' \in Nat /\ crashes' >= crashes
    BY CrashesNat, SchedulerAssumption DEF EvidenceMove, TypeOK
  <2> QED BY <2>1 DEF CancelledHalfway
<1>3. run[r].evidence # "none" /\ run[r].status # "absent"
  BY DEF CancelledHalfway, EvidenceInv, Paused
<1>4. \A n \in 1..4 : ~Finalize(r, n) BY <1>1, PresentedRun
<1>5. run'[r].evidence # "none" BY <1>1, <1>3, <1>4 DEF EvidenceMove
<1> QED BY <1>1, <1>2, <1>5 DEF CancelledHalfway

-----------------------------------------------------------------------------

\* A run that pauses was active with its analysis and had its entry.
LEMMA PausedWas ==
  ASSUME TypeOK, WorkerInv, AnalysisInv, RunsMove,
         NEW r \in Runs, Paused(r)', ~Paused(r)
  PROVE  r \in Entries /\ ~Ended(r) /\ analysis[OwnerOf(r)].active = r
<1>1. Holder = r /\ run[r].status = "running" BY LedgerFinal DEF RunsMove
<1>2. PICK w \in Workers : sup[w].pc = "executing" /\ sup[w].run = r
  <2>1. Executing # {} => (CHOOSE w \in Executing : TRUE) \in Executing OBVIOUS
  <2> QED BY <1>1, <2>1, SchedulerAssumption DEF Holder, Executing
<1>3. ~Ended(r) BY <1>1 DEF Ended, Terminal
<1>4. queue[r].status = "claimed" BY <1>2, <1>3 DEF WorkerInv, ExecutionOwned
<1>5. analysis[OwnerOf(r)].active = r
  BY <1>2, <1>3 DEF AnalysisInv, EntryMatchesAnalysis, Executing
<1> QED BY <1>3, <1>4, <1>5 DEF Entries

-----------------------------------------------------------------------------
(* What a handler does to summaries and entries: it synchronises the runs   *)
(* of S, and drops no entry but theirs.                                     *)

Syncs(S) ==
  /\ \A a \in Analyses :
       (\A r \in S : OwnerOf(r) # a) =>
         analysis'[a].active = analysis[a].active /\ analysis'[a].latest = analysis[a].latest
  /\ \A r \in S :
       /\ CanSync(r)
       /\ analysis'[OwnerOf(r)].active = IF Ended(r)' THEN None ELSE r
       /\ analysis'[OwnerOf(r)].latest = r
       /\ ~Ended(r)' => r \in Entries' \/ Paused(r)'

Drops(S) ==
  /\ Entries' \subseteq Entries /\ Entries \ Entries' \subseteq S
  /\ \A r \in Runs \ S :
       Paused(r) => \/ Paused(r)' \/ r \in Entries'
                    \/ run'[r].status = "completed"
                    \/ run'[r].status = "cancelled" /\ crashes' >= 1

LEMMA OwnerType == \A r \in Runs : OwnerOf(r) \in Analyses
BY SchedulerAssumption DEF OwnerOf

LEMMA AnalysisFrame ==
  ASSUME TypeOK, TypeOK', WorkerInv, AnalysisInv, RunsMove,
         NEW S \in SUBSET Runs, Syncs(S), Drops(S),
         \A w \in Workers : sup'[w].pc = "executing" =>
           \/ sup[w].pc = "executing" /\ sup'[w].run = sup[w].run
           \/ sup'[w].run \in S,
         \A r \in outdated' : r \in outdated \/ (~Live(r) /\ analysis[OwnerOf(r)].active # r)
  PROVE  AnalysisInv'
<1>1. \A r \in Runs : Ended(r) => run'[r].status = run[r].status
  BY LedgerFinal DEF RunsMove
<1>2. \A r \in Runs : Paused(r)' /\ ~Paused(r) =>
        r \in Entries /\ ~Ended(r) /\ analysis[OwnerOf(r)].active = r
  BY PausedWas
<1>3. \A r \in Runs : Ended(r) => Ended(r)' BY <1>1 DEF Ended
\* An active run keeps its analysis, or releases it itself.
<1>4. \A r \in Runs : analysis[OwnerOf(r)].active = r /\ r \notin S =>
        analysis'[OwnerOf(r)].active = r
  <2> SUFFICES ASSUME NEW r \in Runs, analysis[OwnerOf(r)].active = r, r \notin S
               PROVE  analysis'[OwnerOf(r)].active = r
    OBVIOUS
  <2>1. \A s \in S : OwnerOf(s) # OwnerOf(r) BY SchedulerAssumption DEF Syncs, CanSync
  <2> QED BY <2>1, OwnerType DEF Syncs
<1>5. \A r \in Runs : Paused(r)' => analysis'[OwnerOf(r)].active = r
  <2> SUFFICES ASSUME NEW r \in Runs, Paused(r)' PROVE analysis'[OwnerOf(r)].active = r
    OBVIOUS
  <2>1. analysis[OwnerOf(r)].active = r BY <1>2 DEF AnalysisInv, ActiveWorks
  <2>2. ~Ended(r)' BY DEF Paused, Ended, Terminal
  <2> QED BY <1>4, <2>1, <2>2 DEF Syncs
<1>6. \A r \in Runs : Live(r)' => Live(r)
  BY <1>2, <1>3 DEF Live, Drops
<1>7. FrozenInputs' BY <1>6 DEF AnalysisInv, FrozenInputs
<1>8. \A a \in Analyses, r \in Runs : analysis'[a].active = r =>
        /\ OwnerOf(r) = a /\ analysis'[a].latest = r /\ r \notin outdated'
        /\ \/ r \in Entries' \/ Paused(r)'
           \/ run'[r].status = "completed" \/ CancelledHalfway(r)'
  <2> SUFFICES ASSUME NEW a \in Analyses, NEW r \in Runs, analysis'[a].active = r
               PROVE  /\ OwnerOf(r) = a /\ analysis'[a].latest = r /\ r \notin outdated'
                      /\ \/ r \in Entries' \/ Paused(r)'
                         \/ run'[r].status = "completed" \/ CancelledHalfway(r)'
    OBVIOUS
  <2>1. CASE \E s \in S : OwnerOf(s) = a
    <3>1. r \in S /\ OwnerOf(r) = a /\ ~Ended(r)' BY <2>1, SchedulerAssumption DEF Syncs
    <3>2. analysis'[a].latest = r /\ (r \in Entries' \/ Paused(r)') BY <3>1 DEF Syncs
    <3>3. r \notin outdated' BY <1>7, <3>1, <3>2 DEF FrozenInputs, Live
    <3> QED BY <3>1, <3>2, <3>3
  <2>2. CASE \A s \in S : OwnerOf(s) # a
    <3>1. r = analysis[a].active /\ analysis'[a].latest = analysis[a].latest
      BY <2>2 DEF Syncs
    <3>2. /\ OwnerOf(r) = a /\ r \notin S /\ analysis[a].latest = r /\ r \notin outdated
          /\ \/ r \in Entries \/ Paused(r)
             \/ run[r].status = "completed" \/ CancelledHalfway(r)
      BY <2>2, <3>1 DEF AnalysisInv, ActiveWorks
    <3>3. CASE r \in Entries BY <3>1, <3>2, <3>3 DEF Drops
    <3>4. CASE Paused(r) BY <3>1, <3>2, <3>4 DEF Drops, RunsMove
    <3>5. CASE run[r].status = "completed"
      BY <1>1, <3>1, <3>2, <3>5 DEF Ended, Terminal
    <3>6. CASE CancelledHalfway(r) BY <3>1, <3>2, <3>6 DEF RunsMove
    <3> QED BY <3>2, <3>3, <3>4, <3>5, <3>6
  <2> QED BY <2>1, <2>2
<1>9. \A r \in Entries' : CanSync(r)'
  <2> SUFFICES ASSUME NEW r \in Runs, r \in Entries', NEW s \in Runs,
                      analysis'[OwnerOf(r)].active = s, s # r
               PROVE  FALSE
    BY OwnerType DEF CanSync, Entries, TypeOK, AnalysisRecord
  <2>1. r \in Entries /\ CanSync(r)
    BY DEF Drops, AnalysisInv, EntryMatchesAnalysis
  <2>2. OwnerOf(s) = OwnerOf(r) BY <1>8, OwnerType, SchedulerAssumption
  <2>3. s \in S BY <2>1, OwnerType, SchedulerAssumption DEF Syncs, CanSync
  <2>4. s \notin Entries BY <2>1, <2>2 DEF AnalysisInv, EntryMatchesAnalysis
  <2>5. Paused(s)' BY <2>2, <2>3, <2>4, SchedulerAssumption DEF Syncs, Drops
  <2>6. analysis[OwnerOf(s)].active = s
    BY <1>2, <2>5 DEF AnalysisInv, ActiveWorks
  <2> QED BY <2>1, <2>2, <2>6, SchedulerAssumption DEF CanSync
<1>10. \A r, q \in Entries' : OwnerOf(r) = OwnerOf(q) => r = q
  BY DEF Drops, AnalysisInv, EntryMatchesAnalysis
<1>11. \A w \in Executing', r \in Runs : sup'[w].run = r =>
        Ended(r)' \/ analysis'[OwnerOf(r)].active = r
  <2> SUFFICES ASSUME NEW w \in Workers, sup'[w].pc = "executing", NEW r \in Runs,
                      r = sup'[w].run, ~Ended(r)'
               PROVE  analysis'[OwnerOf(r)].active = r
    BY DEF Executing
  <2>1. CASE r \in S BY <2>1 DEF Syncs
  <2>2. CASE r \notin S
    BY <1>3, <1>4, <2>2 DEF AnalysisInv, EntryMatchesAnalysis, Executing
  <2> QED BY <2>1, <2>2
<1>12. \A w \in Executing' :
         \/ run'[sup'[w].run].status \in Terminal
         \/ analysis'[OwnerOf(sup'[w].run)].active = sup'[w].run
  BY <1>11 DEF Executing, TypeOK, Ended
<1>13. EntryMatchesAnalysis'
  BY <1>9, <1>10, <1>12 DEF EntryMatchesAnalysis, Ended
<1>14. ActiveWorks' BY <1>5, <1>8 DEF ActiveWorks
<1> QED BY <1>7, <1>13, <1>14 DEF AnalysisInv

LEMMA SyncAllActive ==
  ASSUME TypeOK, NEW S \in SUBSET Runs, NEW rn,
         \A r, q \in S : OwnerOf(r) = OwnerOf(q) => r = q
  PROVE  /\ \A a \in Analyses :
              (\A r \in S : OwnerOf(r) # a) => SyncAll(S, rn)[a] = analysis[a]
         /\ \A r \in S : SyncAll(S, rn)[OwnerOf(r)].active
                           = IF rn[r].status \in Terminal THEN None ELSE r
         /\ \A r \in S : SyncAll(S, rn)[OwnerOf(r)].latest = r
<1>1. \A a \in Analyses :
        (\A r \in S : OwnerOf(r) # a) => SyncAll(S, rn)[a] = analysis[a]
  BY DEF SyncAll
<1>2. ASSUME NEW r \in S
      PROVE  /\ SyncAll(S, rn)[OwnerOf(r)].active
                  = IF rn[r].status \in Terminal THEN None ELSE r
             /\ SyncAll(S, rn)[OwnerOf(r)].latest = r
  <2> DEFINE a == OwnerOf(r)
             q == CHOOSE q \in S : OwnerOf(q) = a
  <2>1. q \in S /\ OwnerOf(q) = a OBVIOUS
  <2>2. q = r BY <2>1
  <2>3. a \in Analyses BY OwnerType
  <2>4. SyncAll(S, rn)[a] = Synced(analysis[a], r, rn[r].status)
    BY <2>1, <2>2, <2>3 DEF SyncAll
  <2>5. analysis[a] \in AnalysisRecord BY <2>3 DEF TypeOK
  <2> HIDE DEF a, q
  <2>6. /\ SyncAll(S, rn)[a].active = IF rn[r].status \in Terminal THEN None ELSE r
        /\ SyncAll(S, rn)[a].latest = r
    BY <2>4, <2>5 DEF Synced, AnalysisRecord
  <2> QED BY <2>6 DEF a
<1> QED BY <1>1, <1>2

LEMMA SyncsAll ==
  ASSUME TypeOK, NEW S \in SUBSET Runs, analysis' = SyncAll(S, run'),
         \A r, q \in S : OwnerOf(r) = OwnerOf(q) => r = q,
         \A r \in S : CanSync(r) /\ (~Ended(r)' => r \in Entries' \/ Paused(r)')
  PROVE  Syncs(S)
<1>1. /\ \A a \in Analyses :
           (\A r \in S : OwnerOf(r) # a) => SyncAll(S, run')[a] = analysis[a]
      /\ \A r \in S : SyncAll(S, run')[OwnerOf(r)].active
                        = IF run'[r].status \in Terminal THEN None ELSE r
      /\ \A r \in S : SyncAll(S, run')[OwnerOf(r)].latest = r
  BY SyncAllActive, Zenon
<1> QED BY <1>1 DEF Syncs, Ended

\* Entries can be synchronised together.
LEMMA EntriesSync ==
  ASSUME AnalysisInv, NEW S \in SUBSET Entries
  PROVE  /\ \A r, q \in S : OwnerOf(r) = OwnerOf(q) => r = q
         /\ \A r \in S : CanSync(r)
BY DEF AnalysisInv, EntryMatchesAnalysis

LEMMA EntriesDropped ==
  ASSUME TypeOK, NEW D, queue' = Without(queue, D)
  PROVE  Entries' = Entries \ D
BY WithoutStatus DEF Entries, TypeOK

\* A step that synchronises nothing and drops nothing.
LEMMA AnalysisQuiet ==
  ASSUME TypeOK, TypeOK', WorkerInv, AnalysisInv, RunsMove,
         Entries' = Entries,
         \A a \in Analyses : /\ analysis'[a].active = analysis[a].active
                             /\ analysis'[a].latest = analysis[a].latest,
         \A w \in Workers : sup'[w].pc = "executing" =>
           sup[w].pc = "executing" /\ sup'[w].run = sup[w].run,
         \A r \in outdated' : r \in outdated \/ (~Live(r) /\ analysis[OwnerOf(r)].active # r),
         \A r \in Runs : Paused(r) =>
           \/ Paused(r)' \/ r \in Entries' \/ run'[r].status = "completed"
           \/ run'[r].status = "cancelled" /\ crashes' >= 1
  PROVE  AnalysisInv'
<1>1. Syncs({}) /\ Drops({}) BY DEF Syncs, Drops
<1> QED BY <1>1, AnalysisFrame

LEMMA AnalysisInit == Init => AnalysisInv
BY SchedulerAssumption
DEF Init, AnalysisInv, EntryMatchesAnalysis, ActiveWorks, FrozenInputs, Entries, NoEntry,
    NoRun, Paused, Executing, Dead, Live

LEMMA AnalysisClientMoves ==
  ASSUME TypeOK, TypeOK', WorkerInv, AnalysisInv, RunsMove,
         NEW c \in Clients,
         \/ EnsureNothing(c) \/ SubmitRejected(c) \/ LaunchReturns(c) \/ LaunchRaises(c)
         \/ LaunchSpared(c) \/ ClientDies(c) \/ LaunchSpawn(c)
         \/ \E k \in Keys, p \in Runs \cup {None} : CheckSubmit(c, k, p)
  PROVE  AnalysisInv'
<1>1. UNCHANGED <<run, analysis, queue, outdated>>
  BY DEF EnsureNothing, SubmitRejected, LaunchReturns, LaunchRaises, LaunchSpared,
         ClientDies, LaunchSpawn, CheckSubmit, work, control, inputs
<1>2. \A w \in Workers : sup'[w].pc = "executing" => sup'[w] = sup[w]
  <2>1. sup' = sup \/ \E w : sup' = [sup EXCEPT ![w] = In("booting")]
    BY DEF EnsureNothing, SubmitRejected, LaunchReturns, LaunchRaises, LaunchSpared,
           ClientDies, LaunchSpawn, CheckSubmit, procs
  <2> QED BY <2>1 DEF In, TypeOK
<1> QED BY <1>1, <1>2, AnalysisQuiet DEF Entries, Paused

LEMMA AnalysisReconcile ==
  ASSUME TypeOK, TypeOK', WorkerInv, AnalysisInv, RunsMove,
         NEW c \in Clients, NEW S \in SUBSET Runs, NEW f \in BOOLEAN, Reconcile(c, S, f)
  PROVE  AnalysisInv'
<1>1. /\ UNCHANGED <<run, sup, outdated>>
      /\ S \in SUBSET Entries /\ \A r \in S : Ended(r)
      /\ queue' = queue \/ queue' = Without(queue, S)
      /\ analysis' = SyncAll(S, run')
  <2>1. UNCHANGED <<run, sup, outdated>> /\ analysis' = SyncAll(S, run)
    BY DEF Reconcile, procs, inputs
  <2>2. S \in SUBSET Entries /\ \A r \in S : Ended(r) BY DEF Reconcile, Prefixes
  <2>3. queue' = queue \/ queue' = Without(queue, S) BY DEF Reconcile
  <2> QED BY <2>1, <2>2, <2>3
<1>2. Entries' = Entries \/ Entries' = Entries \ S
  BY <1>1, EntriesDropped DEF Entries
<1>3. Syncs(S)
  <2>1. \A r \in S : Ended(r)' BY <1>1 DEF Ended
  <2> QED BY <1>1, <2>1, EntriesSync, SyncsAll
<1>4. Drops(S) BY <1>1, <1>2 DEF Drops, Paused
<1> QED BY <1>1, <1>3, <1>4, AnalysisFrame

LEMMA AnalysisRepaired ==
  ASSUME TypeOK, TypeOK', WorkerInv, AnalysisInv, RunsMove,
         NEW r \in Runs, NEW n, Repaired(r, n)
  PROVE  AnalysisInv'
<1> DEFINE orphan == ~Ended(r) /\ ~Paused(r) /\ r \notin Entries
           S == IF n >= 2 /\ ~Ended(r) /\ CanSync(r) THEN {r} ELSE {}
<1>1. /\ UNCHANGED <<queue, sup, outdated>>
      /\ run' = IF orphan THEN Settled({r}, "interrupted") ELSE run
  BY DEF Repaired, control, procs
<1>2. Entries' = Entries BY <1>1 DEF Entries
<1>3. /\ \A q \in Runs : Paused(q) => Paused(q)'
      /\ ~Ended(r)' => r \in Entries' \/ Paused(r)'
  BY <1>1, <1>2, SettledStatus DEF Paused, Ended, Terminal
<1>4. Syncs(S)
  <2>1. CASE S = {r}
    <3>1. analysis' = SyncAll({r}, run') /\ CanSync(r) BY <2>1 DEF Repaired
    <3>2. Syncs({r}) BY <1>3, <3>1, SyncsAll
    <3> QED BY <2>1, <3>2
  <2>2. CASE S = {}
    <3>1. analysis' = analysis BY <2>2 DEF Repaired
    <3>2. Syncs({}) BY <3>1 DEF Syncs
    <3> QED BY <2>2, <3>2
  <2> QED BY <2>1, <2>2
<1>5. Drops(S) BY <1>2, <1>3 DEF Drops
<1> HIDE DEF S
<1>6. S \in SUBSET Runs BY DEF S
<1> QED BY <1>1, <1>4, <1>5, <1>6, AnalysisFrame

\* What _ensure_worker claims for recovery has ended by then, or is paused.
LEMMA AnalysisEnsure ==
  ASSUME TypeOK, TypeOK', WorkerInv, AnalysisInv, RunsMove,
         NEW c \in Clients,
         \/ \E n \in 1..4 : EnsureInterrupts(c, n)
         \/ \E n \in 1..2 : EnsureSettles(c, n)
         \/ \E w \in Workers, n \in 1..3 : EnsureLaunches(c, w, n)
  PROVE  AnalysisInv'
<1>1. /\ UNCHANGED <<sup, outdated>> /\ run' = Settled(Lost, "interrupted")
      /\ \/ analysis' = SyncAll(Claimed, run')
         \/ analysis' = analysis /\ queue' = queue
      /\ queue' = queue \/ queue' = Without(queue, Claimed)
  <2>1. ASSUME NEW n \in 1..4, EnsureInterrupts(c, n)
        PROVE  /\ UNCHANGED <<sup, outdated>> /\ run' = Settled(Lost, "interrupted")
               /\ \/ analysis' = SyncAll(Claimed, run')
                  \/ analysis' = analysis /\ queue' = queue
               /\ queue' = queue \/ queue' = Without(queue, Claimed)
    BY <2>1 DEF EnsureInterrupts, procs, inputs
  <2>2. ASSUME \/ \E n \in 1..2 : EnsureSettles(c, n)
               \/ \E w \in Workers, n \in 1..3 : EnsureLaunches(c, w, n)
        PROVE  /\ UNCHANGED <<sup, outdated, run>> /\ Lost = {}
               /\ analysis' = SyncAll(Claimed, run)
               /\ queue' = queue \/ queue' = Without(queue, Claimed)
    BY <2>2 DEF EnsureSettles, EnsureLaunches, procs, inputs
  <2>3. run = Settled({}, "interrupted") BY DEF Settled, TypeOK
  <2> QED BY <2>1, <2>2, <2>3
<1>2. \A r \in Runs : /\ Paused(r) => Paused(r)'
                      /\ r \in Claimed => Ended(r)' \/ Paused(r)'
  BY <1>1, SettledStatus DEF Lost, Paused, Ended, Terminal, Claimed
<1>3. Entries' = Entries \/ Entries' = Entries \ Claimed
  BY <1>1, EntriesDropped DEF Entries
<1>4. Claimed \in SUBSET Entries /\ Claimed \in SUBSET Runs BY DEF Claimed, Entries
<1>5. CASE analysis' = SyncAll(Claimed, run')
  <2>1. Syncs(Claimed) BY <1>2, <1>4, <1>5, EntriesSync, SyncsAll
  <2>2. Drops(Claimed) BY <1>2, <1>3 DEF Drops
  <2> QED BY <1>1, <1>4, <2>1, <2>2, AnalysisFrame
<1>6. CASE analysis' = analysis /\ queue' = queue
  BY <1>1, <1>2, <1>6, AnalysisQuiet DEF Entries
<1> QED BY <1>1, <1>5, <1>6

\* A launch that failed closes the runs of all entries, one by one.
LEMMA AnalysisFailed ==
  ASSUME TypeOK, TypeOK', WorkerInv, AnalysisInv, RunsMove,
         NEW c \in Clients, NEW P \in SUBSET Runs, NEW S \in SUBSET Runs, NEW f \in BOOLEAN,
         LaunchFailed(c, P, S, f)
  PROVE  AnalysisInv'
<1> DEFINE open == {r \in P : ~Ended(r)}
<1>1. /\ UNCHANGED <<sup, outdated>> /\ S \subseteq P /\ P \subseteq Entries
      /\ run' = Settled(open, "failed") /\ analysis' = SyncAll(S, run')
  BY DEF LaunchFailed, Prefixes, procs, inputs
<1>2. queue' = queue \/ (queue' = Without(queue, Entries) /\ S = Entries)
  BY DEF LaunchFailed
<1>3. Entries' = Entries \/ (Entries' = {} /\ S = Entries)
  BY <1>2, EntriesDropped DEF Entries
<1>4. \A r \in Runs : /\ r \in S => Ended(r)'
                      /\ Paused(r) => Paused(r)' \/ r \in P
  BY <1>1, SettledStatus DEF Paused, Ended, Terminal
<1>5. Syncs(S) BY <1>1, <1>4, EntriesSync, SyncsAll
<1>6. Drops(S) BY <1>1, <1>3, <1>4 DEF Drops
<1> QED BY <1>1, <1>5, <1>6, AnalysisFrame

-----------------------------------------------------------------------------
(* A new run *)

\* A run that starts has no trace in its analysis: neither an entry nor a
\* paused run of it, nor a summary that says it is active.
LEMMA AnalysisCommit ==
  ASSUME TypeOK, TypeOK', WorkerInv, AnalysisInv, Recorded, RunsMove,
         NEW c \in Clients, NEW r \in Runs, NEW n \in 1..4, CommitSubmit(c, r, n)
  PROVE  AnalysisInv'
<1>1. /\ ~Pending(OwnerOf(r)) /\ analysis[OwnerOf(r)].active = None
      /\ run[r].status = "absent"
  BY DEF CommitSubmit, Committable, Matches, OwnerOf
<1>2. UNCHANGED <<sup, outdated>> BY DEF CommitSubmit, procs
<1>3. r \notin Entries /\ r \notin outdated BY <1>1 DEF Recorded
<1>4. \A q \in Runs : OwnerOf(q) = OwnerOf(r) => q \notin Entries /\ ~Paused(q)
  BY <1>1, SchedulerAssumption DEF Pending, AnalysisInv, ActiveWorks
<1>5. run'[r].status = "queued" /\ \A q \in Runs \ {r} : run'[q] = run[q]
  BY DEF CommitSubmit, TypeOK, NoRun
<1>6. Entries' = Entries \/ Entries' = Entries \cup {r}
  <2>1. CASE queue' = queue BY <2>1 DEF Entries
  <2>2. CASE queue' = Enqueued(queue, r)
    <3>1. queue'[r].status = "queued" /\ \A q \in Runs \ {r} : queue'[q] = queue[q]
      BY <2>2 DEF Enqueued, TypeOK
    <3> QED BY <3>1 DEF Entries
  <2> QED BY <2>1, <2>2 DEF CommitSubmit
<1>7. /\ \A a \in Analyses : OwnerOf(r) # a => analysis'[a] = analysis[a]
      /\ \/ analysis'[OwnerOf(r)].active = None
         \/ /\ analysis'[OwnerOf(r)].active = r /\ analysis'[OwnerOf(r)].latest = r
            /\ r \in Entries'
  <2>1. CASE n \in {1, 2}
    <3>1. analysis' = analysis BY <2>1 DEF CommitSubmit
    <3> QED BY <1>1, <3>1
  <2>2. CASE n \in {3, 4}
    <3>1. analysis' = SyncAll({r}, run') /\ queue' = Enqueued(queue, r)
      BY <2>2 DEF CommitSubmit
    <3>2. /\ \A a \in Analyses : (\A q \in {r} : OwnerOf(q) # a) => analysis'[a] = analysis[a]
          /\ analysis'[OwnerOf(r)].active = IF run'[r].status \in Terminal THEN None ELSE r
          /\ analysis'[OwnerOf(r)].latest = r
      <4>1. {r} \in SUBSET Runs /\ \A p, q \in {r} : OwnerOf(p) = OwnerOf(q) => p = q
        OBVIOUS
      <4>2. /\ \A a \in Analyses : (\A q \in {r} : OwnerOf(q) # a) =>
                 SyncAll({r}, run')[a] = analysis[a]
            /\ \A q \in {r} : SyncAll({r}, run')[OwnerOf(q)].active
                              = IF run'[q].status \in Terminal THEN None ELSE q
            /\ \A q \in {r} : SyncAll({r}, run')[OwnerOf(q)].latest = q
        BY <4>1, SyncAllActive, Zenon
      <4> QED BY <3>1, <4>2
    <3>3. r \in Entries' BY <3>1 DEF Enqueued, TypeOK, Entries
    <3> QED BY <1>5, <3>2, <3>3 DEF Terminal
  <2> QED BY <2>1, <2>2
<1>8. \A q \in Entries' : CanSync(q)'
  BY <1>4, <1>6, <1>7, OwnerType DEF CanSync, AnalysisInv, EntryMatchesAnalysis, Entries
<1>9. \A q, p \in Entries' : OwnerOf(q) = OwnerOf(p) => q = p
  BY <1>4, <1>6 DEF AnalysisInv, EntryMatchesAnalysis, Entries
<1>10. \A w \in Executing', q \in Runs : sup'[w].run = q =>
         Ended(q)' \/ analysis'[OwnerOf(q)].active = q
  BY <1>1, <1>2, <1>5, <1>7, OwnerType, SchedulerAssumption
  DEF AnalysisInv, EntryMatchesAnalysis, Executing, Ended, Terminal
<1>11. \A w \in Executing' :
         \/ run'[sup'[w].run].status \in Terminal
         \/ analysis'[OwnerOf(sup'[w].run)].active = sup'[w].run
  BY <1>10 DEF Executing, TypeOK, Ended
<1>12. EntryMatchesAnalysis' BY <1>8, <1>9, <1>11 DEF EntryMatchesAnalysis, Ended
<1>13. \A q \in Runs : Paused(q)' => Paused(q) /\ OwnerOf(q) # OwnerOf(r)
  BY <1>4, <1>5 DEF Paused
<1>14. \A q \in Runs : Paused(q)' => analysis'[OwnerOf(q)].active = q
  BY <1>7, <1>13, OwnerType DEF AnalysisInv, ActiveWorks
<1>15. \A a \in Analyses, q \in Runs : analysis'[a].active = q =>
         /\ OwnerOf(q) = a /\ analysis'[a].latest = q /\ q \notin outdated'
         /\ \/ q \in Entries' \/ Paused(q)'
            \/ run'[q].status = "completed" \/ CancelledHalfway(q)'
  <2> SUFFICES ASSUME NEW a \in Analyses, NEW q \in Runs, analysis'[a].active = q
               PROVE  /\ OwnerOf(q) = a /\ analysis'[a].latest = q /\ q \notin outdated'
                      /\ \/ q \in Entries' \/ Paused(q)'
                         \/ run'[q].status = "completed" \/ CancelledHalfway(q)'
    OBVIOUS
  <2>1. CASE a = OwnerOf(r) BY <1>2, <1>3, <1>7, <2>1, SchedulerAssumption
  <2>2. CASE a # OwnerOf(r)
    <3>1. analysis[a].active = q /\ analysis'[a].latest = analysis[a].latest BY <1>7, <2>2
    <3>2. /\ OwnerOf(q) = a /\ q # r /\ analysis[a].latest = q /\ q \notin outdated
          /\ \/ q \in Entries \/ Paused(q)
             \/ run[q].status = "completed" \/ CancelledHalfway(q)
      BY <2>2, <3>1 DEF AnalysisInv, ActiveWorks
    <3>3. CASE CancelledHalfway(q) BY <1>2, <3>1, <3>2, <3>3 DEF RunsMove
    <3> QED BY <1>2, <1>5, <1>6, <3>1, <3>2, <3>3 DEF Paused
  <2> QED BY <2>1, <2>2
<1>16. \A q \in Runs : Live(q)' => Live(q) \/ q = r
  BY <1>5, <1>6 DEF Live, Paused, Ended
<1>17. FrozenInputs' BY <1>2, <1>3, <1>16 DEF AnalysisInv, FrozenInputs
<1> QED BY <1>12, <1>14, <1>15, <1>17 DEF AnalysisInv, ActiveWorks

-----------------------------------------------------------------------------
(* The supervisor *)

\* It starts, stops or dies without touching the files it shares.
LEMMA AnalysisSupervisor ==
  ASSUME TypeOK, TypeOK', WorkerInv, AnalysisInv, RunsMove,
         NEW w \in Workers,
         \/ Boot(w) \/ BootBlocked(w) \/ CheckClaim(w) \/ PublishReady(w) \/ Exit(w)
         \/ Kill(w)
  PROVE  AnalysisInv'
<1>1. UNCHANGED <<run, analysis, queue, outdated>>
  BY DEF Boot, BootBlocked, CheckClaim, PublishReady, Exit, Kill, work, control, inputs
<1>2. PICK to : to.pc # "executing" /\ sup' = [sup EXCEPT ![w] = to]
  BY DEF Boot, BootBlocked, CheckClaim, PublishReady, Exit, Kill, In, Dead
<1>3. \A v \in Workers : sup'[v].pc = "executing" => sup'[v] = sup[v]
  BY <1>2 DEF TypeOK
<1> QED BY <1>1, <1>3, AnalysisQuiet DEF Entries, Paused

\* It drops entries of runs that ended, and stops or dies.
LEMMA AnalysisDrops ==
  ASSUME TypeOK, TypeOK', WorkerInv, AnalysisInv, RunsMove,
         NEW w \in Workers, Stop(w) \/ \E P, S \in SUBSET Runs : TakeDies(w, P, S)
  PROVE  AnalysisInv'
<1>1. PICK D \in SUBSET Done, S \in SUBSET Done :
        /\ D \subseteq S /\ queue' = Without(queue, D) /\ analysis' = SyncAll(S, run)
  BY DEF Stop, TakeDies, Prefixes
<1>2. PICK to : to.pc # "executing" /\ sup' = [sup EXCEPT ![w] = to]
  BY DEF Stop, TakeDies, Proceeds, In, Dead
<1>3. UNCHANGED <<run, outdated>> BY DEF Stop, TakeDies, inputs
<1>4. \A v \in Workers : sup'[v].pc = "executing" => sup'[v] = sup[v]
  BY <1>2 DEF TypeOK
<1>5. /\ S \in SUBSET Runs /\ S \in SUBSET Entries
      /\ \A r \in S : Ended(r)'
  BY <1>1, <1>3 DEF Done, Entries, Ended
<1>6. Entries' = Entries \ D BY <1>1, EntriesDropped
<1>7. Syncs(S) BY <1>1, <1>3, <1>5, EntriesSync, SyncsAll
<1>8. Drops(S) BY <1>1, <1>3, <1>6 DEF Drops, Paused
<1> QED BY <1>3, <1>4, <1>5, <1>7, <1>8, AnalysisFrame

LEMMA AnalysisTake ==
  ASSUME TypeOK, TypeOK', WorkerInv, AnalysisInv, RunsMove,
         NEW w \in Workers, NEW r \in Runs, NEW n \in 1..3, Take(w, r, n)
  PROVE  AnalysisInv'
<1> DEFINE dropped == queue[r].after
           S == dropped \cup {q \in {r} : n = 3}
<1>1. /\ UNCHANGED outdated /\ dropped \subseteq Done /\ ~Ended(r) /\ r \in Entries
      /\ analysis' = SyncAll(S, run')
      /\ queue' = [Without(queue, dropped) EXCEPT ![r].status = "claimed", ![r].worker = w]
  BY DEF Take, inputs, Entries
<1>2. dropped \subseteq Entries /\ r \notin dropped /\ \A q \in dropped : Ended(q)
  BY <1>1 DEF Done
<1>3. S \in SUBSET Entries /\ S \in SUBSET Runs BY <1>1, <1>2 DEF Entries
<1>4. Entries' = Entries \ dropped
  <2> DEFINE rest == Without(queue, dropped)
  <2>1. rest \in [Runs -> Entry] BY WithoutType DEF TypeOK
  <2>2. queue'[r].status = "claimed" /\ \A q \in Runs \ {r} : queue'[q] = rest[q]
    BY <1>1, <2>1 DEF Entry
  <2>3. \A q \in Runs : rest[q].status # "absent" <=> q \in Entries /\ q \notin dropped
    BY WithoutStatus DEF TypeOK, Entries
  <2> HIDE DEF rest
  <2> QED BY <1>1, <1>2, <2>2, <2>3 DEF Entries
<1>5. \A q \in Runs : q # r => run'[q] = run[q] BY DEF Take, TypeOK
<1>6. \A q \in S : Ended(q)' \/ q \in Entries'
  BY <1>1, <1>2, <1>3, <1>4, <1>5 DEF Ended
<1>7. Syncs(S) BY <1>1, <1>3, <1>6, EntriesSync, SyncsAll
<1>8. Drops(S)
  BY <1>1, <1>2, <1>4, <1>5, OwnerType DEF Drops, Paused, AnalysisInv, EntryMatchesAnalysis
<1>9. \A v \in Workers : sup'[v].pc = "executing" =>
        \/ sup[v].pc = "executing" /\ sup'[v].run = sup[v].run
        \/ sup'[v].run \in S
  <2>1. CASE n = 3
    <3>1. sup' = [sup EXCEPT ![w] = [pc |-> "executing", run |-> r, event |-> FALSE]]
      BY <2>1 DEF Take, Proceeds
    <3> QED BY <2>1, <3>1 DEF TypeOK
  <2>2. CASE n # 3
    <3>1. sup' = [sup EXCEPT ![w] = Dead] BY <2>2 DEF Take, Proceeds
    <3> QED BY <3>1 DEF TypeOK, Dead
  <2> QED BY <2>1, <2>2
<1> HIDE DEF S
<1> QED BY <1>1, <1>3, <1>7, <1>8, <1>9, AnalysisFrame

LEMMA AnalysisFinish ==
  ASSUME TypeOK, TypeOK', WorkerInv, AnalysisInv, RunsMove,
         NEW w \in Workers, NEW o \in Outcomes, NEW n \in 1..3, Finish(w, o, n)
  PROVE  AnalysisInv'
<1>1. PICK r \in Runs : r = sup[w].run BY DEF Finish, TypeOK
<1>2. sup[w].pc = "executing" /\ CanSync(r) /\ run' = Finished(w, o) /\ UNCHANGED outdated
  BY <1>1 DEF Finish, inputs
<1>3. PICK to : to.pc # "executing" /\ sup' = [sup EXCEPT ![w] = to]
  BY DEF Finish, Proceeds, In, Dead
<1>4. \A v \in Workers : sup'[v].pc = "executing" => sup'[v] = sup[v]
  BY <1>3 DEF TypeOK
<1>5. \A q \in Runs : q # r => run'[q] = run[q] BY <1>1, <1>2, FinishedStatus
<1>6. Ended(r)' \/ Paused(r)' BY <1>1, <1>2, FinishedStatus DEF Ended, Paused
<1>7. ~Paused(r)
  BY <1>1, <1>2 DEF WorkerInv, ExecutionOwned, Paused, Ended, Terminal
<1>8. \A q \in Runs : Paused(q) => Paused(q)' BY <1>5, <1>7 DEF Paused
<1>9. CASE n = 1
  <2>1. analysis' = analysis /\ queue' = queue BY <1>9 DEF Finish
  <2> QED BY <1>2, <1>4, <1>8, <2>1, AnalysisQuiet DEF Entries
<1>10. CASE n \in {2, 3}
  <2>1. analysis' = SyncAll({r}, run') /\ (queue' = queue \/ queue' = Without(queue, {r}))
    BY <1>1, <1>10 DEF Finish
  <2>2. Entries' = Entries \/ Entries' = Entries \ {r}
    BY <2>1, EntriesDropped DEF Entries
  <2>3. Syncs({r}) BY <1>2, <1>6, <2>1, SyncsAll
  <2>4. Drops({r}) BY <1>8, <2>2 DEF Drops
  <2> QED BY <1>2, <1>4, <2>3, <2>4, AnalysisFrame
<1> QED BY <1>9, <1>10

\* A run whose analysis is busy with another one had ended before.
LEMMA AnalysisEndsRun ==
  ASSUME TypeOK, TypeOK', WorkerInv, AnalysisInv, RunsMove,
         NEW w \in Workers, BudgetFail(w) \/ \E o \in Outcomes : FinishBusy(w, o)
  PROVE  AnalysisInv'
<1>1. CASE BudgetFail(w)
  <2>1. /\ UNCHANGED <<analysis, queue, sup, outdated>> /\ sup[w].run \in Runs
        /\ run' = Settled({sup[w].run}, "failed") /\ ~Paused(sup[w].run)
    BY <1>1
    DEF BudgetFail, control, procs, inputs, TypeOK, WorkerInv, ExecutionOwned, Paused
  <2>2. \A q \in Runs : Paused(q) => Paused(q)' BY <2>1, SettledStatus DEF Paused
  <2> QED BY <2>1, <2>2, AnalysisQuiet DEF Entries
<1>2. ASSUME NEW o \in Outcomes, FinishBusy(w, o) PROVE AnalysisInv'
  <2>1. /\ UNCHANGED <<analysis, queue, outdated>> /\ run' = Finished(w, o)
        /\ sup[w].pc = "executing" /\ ~CanSync(sup[w].run)
        /\ sup' = [sup EXCEPT ![w] = In("stopping")]
    BY <1>2 DEF FinishBusy, control, inputs
  <2>2. Ended(sup[w].run)
    BY <2>1 DEF AnalysisInv, EntryMatchesAnalysis, Executing, CanSync
  <2>3. run' = run BY <2>1, <2>2, FinishedStatus DEF TypeOK
  <2>4. \A v \in Workers : sup'[v].pc = "executing" => sup'[v] = sup[v]
    BY <2>1 DEF TypeOK, In
  <2> QED BY <2>1, <2>3, <2>4, AnalysisQuiet DEF Entries, Paused
<1> QED BY <1>1, <1>2

-----------------------------------------------------------------------------
(* Cancellations and reviews *)

LEMMA AnalysisCancel ==
  ASSUME TypeOK, TypeOK', WorkerInv, AnalysisInv, RunsMove,
         NEW r \in Runs, NEW n \in 1..3, CancelQueued(r, n)
  PROVE  AnalysisInv'
<1>1. /\ UNCHANGED <<sup, outdated>> /\ analysis[OwnerOf(r)].active = r
  BY DEF CancelQueued, Cancellable, procs, inputs
<1>2. run'[r].status = "cancelled" /\ \A q \in Runs \ {r} : run'[q] = run[q]
  BY DEF CancelQueued, TypeOK, RunRecord
<1>3. \A q \in Runs \ {r} : Paused(q) => Paused(q)' BY <1>2 DEF Paused
<1>4. CASE n = 1
  <2>1. analysis' = analysis /\ queue' = queue BY <1>4 DEF CancelQueued
  <2>2. crashes' >= 1 BY <1>4, CrashesNat DEF CancelQueued, CrashUnless, Crash
  <2> QED BY <1>1, <1>2, <1>3, <2>1, <2>2, AnalysisQuiet DEF Entries
<1>5. CASE n \in {2, 3}
  <2>1. analysis' = SyncAll({r}, run') /\ (queue' = queue \/ queue' = Without(queue, {r}))
    BY <1>5 DEF CancelQueued
  <2>2. Entries' = Entries \/ Entries' = Entries \ {r}
    BY <2>1, EntriesDropped DEF Entries
  <2>3. CanSync(r) /\ Ended(r)' BY <1>1, <1>2 DEF CanSync, Ended, Terminal
  <2>4. Syncs({r}) BY <2>1, <2>3, SyncsAll
  <2>5. Drops({r}) BY <1>3, <2>2 DEF Drops
  <2> QED BY <1>1, <2>4, <2>5, AnalysisFrame
<1> QED BY <1>4, <1>5

\* A running run that is asked to stop still has its entry.
LEMMA AnalysisAsk ==
  ASSUME TypeOK, TypeOK', WorkerInv, Recorded, AnalysisInv, RunsMove,
         NEW r \in Runs, NEW full \in BOOLEAN, NEW n \in 1..3, CancelActive(r, full, n)
  PROVE  AnalysisInv'
<1>1. /\ UNCHANGED <<queue, sup, outdated>> /\ analysis[OwnerOf(r)].active = r
      /\ run[r].status = "running"
  BY DEF CancelActive, Cancellable, NoWorker, control, inputs, Recorded, TypeOK, RunRecord,
         RunStatus
<1>2. r \in Entries BY <1>1 DEF WorkerInv, RunningHasEntry, Entries
<1>3. \A q \in Runs : q # r => run'[q].status = run[q].status
  <2>1. PICK rn : /\ rn = run \/ rn = Settled({r}, "failed")
                  /\ run' = [rn EXCEPT ![r].cancel = TRUE]
    BY DEF CancelActive
  <2>2. rn \in [Runs -> RunRecord] BY <2>1, SettledType DEF TypeOK, RunStatus, Terminal
  <2> QED BY <2>1, <2>2, SettledStatus
<1>4. \A q \in Runs : Paused(q) => Paused(q)' BY <1>1, <1>3 DEF Paused
<1>5. Entries' = Entries BY <1>1 DEF Entries
<1>6. CASE n = 1
  <2>1. analysis' = analysis BY <1>6 DEF CancelActive
  <2> QED BY <1>1, <1>4, <1>5, <2>1, AnalysisQuiet
<1>7. CASE n \in {2, 3}
  <2>1. analysis' = SyncAll({r}, run') BY <1>7 DEF CancelActive
  <2>2. CanSync(r) BY <1>1 DEF CanSync
  <2>3. Syncs({r}) BY <1>2, <1>5, <2>1, <2>2, SyncsAll
  <2>4. Drops({r}) BY <1>4, <1>5 DEF Drops
  <2> QED BY <1>1, <2>3, <2>4, AnalysisFrame
<1> QED BY <1>6, <1>7

LEMMA AnalysisDeliver ==
  ASSUME TypeOK, TypeOK', WorkerInv, AnalysisInv, RunsMove, Delivering
  PROVE  AnalysisInv'
<1>1. UNCHANGED <<run, analysis, queue, outdated>>
  BY DEF Delivering, Deliver, work, control, inputs
<1>2. \A v \in Workers : sup'[v].pc = sup[v].pc /\ sup'[v].run = sup[v].run
  BY DEF Delivering, Deliver, TypeOK, Supervisor
<1> QED BY <1>1, <1>2, AnalysisQuiet DEF Entries, Paused

\* No run of a quiet analysis is live: what becomes outdated is history.
LEMMA AnalysisRevise ==
  ASSUME TypeOK, TypeOK', WorkerInv, AnalysisInv, RunsMove,
         NEW a \in Analyses, Revise(a) \/ Approve(a)
  PROVE  AnalysisInv'
<1>1. /\ UNCHANGED <<run, queue, sup>> /\ Quiet(a)
      /\ outdated' \subseteq outdated \cup {r \in Runs : OwnerOf(r) = a}
  BY DEF Revise, Approve, control, procs, inputs
<1>2. \A r \in Runs : OwnerOf(r) = a => ~Live(r) /\ analysis[OwnerOf(r)].active # r
  BY <1>1, SchedulerAssumption DEF Quiet, Pending, Live, AnalysisInv, ActiveWorks
<1>3. \A b \in Analyses : /\ analysis'[b].active = analysis[b].active
                          /\ analysis'[b].latest = analysis[b].latest
  <2>1. PICK rec : /\ analysis' = [analysis EXCEPT ![a] = rec]
                   /\ rec.active = analysis[a].active /\ rec.latest = analysis[a].latest
    <3>1. /\ [analysis[a] EXCEPT !.approved = FALSE, !.status = "review"].active
               = analysis[a].active
          /\ [analysis[a] EXCEPT !.approved = TRUE, !.status = "approved"].active
               = analysis[a].active
          /\ [analysis[a] EXCEPT !.approved = FALSE, !.status = "review"].latest
               = analysis[a].latest
          /\ [analysis[a] EXCEPT !.approved = TRUE, !.status = "approved"].latest
               = analysis[a].latest
      BY DEF TypeOK, AnalysisRecord
    <3>2. analysis' = [analysis EXCEPT ![a] =
                         [analysis[a] EXCEPT !.approved = FALSE, !.status = "review"]]
          \/ analysis' = [analysis EXCEPT ![a] =
                            [analysis[a] EXCEPT !.approved = TRUE, !.status = "approved"]]
      BY DEF Revise, Approve, TypeOK
    <3> QED BY <3>1, <3>2
  <2> QED BY <2>1 DEF TypeOK
<1> QED BY <1>1, <1>2, <1>3, AnalysisQuiet DEF Entries, Paused

LEMMA AnalysisFinalize ==
  ASSUME TypeOK, TypeOK', WorkerInv, AnalysisInv, RunsMove,
         NEW r \in Runs, NEW n \in 1..4, Finalize(r, n)
  PROVE  AnalysisInv'
<1>1. UNCHANGED <<queue, sup, outdated>> BY DEF Finalize, control, procs, inputs
<1>2. /\ Paused(r) /\ \A q \in Runs \ {r} : run'[q] = run[q]
      /\ run'[r].status = IF n = 1 THEN "awaiting_visual_review" ELSE "completed"
  BY PresentedRun
<1>3. analysis[OwnerOf(r)].active = r BY <1>2 DEF AnalysisInv, ActiveWorks
<1>4. Entries' = Entries BY <1>1 DEF Entries
<1>5. \A q \in Runs : Paused(q) => Paused(q)' \/ run'[q].status = "completed"
  BY <1>2 DEF Paused
<1>6. CASE n # 4
  <2>1. analysis' = analysis BY <1>6 DEF Finalize
  <2> QED BY <1>1, <1>4, <1>5, <2>1, AnalysisQuiet
<1>7. CASE n = 4
  <2>1. /\ \A b \in Analyses : b # OwnerOf(r) => analysis'[b] = analysis[b]
        /\ analysis'[OwnerOf(r)].active = None /\ analysis'[OwnerOf(r)].latest = r
    BY <1>7, OwnerType DEF Finalize, Synced, Terminal, TypeOK, AnalysisRecord
  <2>2. Ended(r)' BY <1>2, <1>7 DEF Ended, Terminal
  <2>3. Syncs({r}) BY <1>3, <2>1, <2>2 DEF Syncs, CanSync
  <2>4. Drops({r}) BY <1>4, <1>5 DEF Drops
  <2> QED BY <1>1, <2>3, <2>4, AnalysisFrame
<1> QED BY <1>6, <1>7

LEMMA AnalysisRecover ==
  ASSUME TypeOK, TypeOK', WorkerInv, AnalysisInv, RunsMove,
         NEW r \in Runs, Recover(r)
  PROVE  AnalysisInv'
<1>1. /\ UNCHANGED <<run, queue, sup, outdated>> /\ run[r].status = "completed"
      /\ analysis[OwnerOf(r)].active = r /\ analysis[OwnerOf(r)].latest = r
  BY DEF Recover, Recoverable, control, procs, inputs
<1>2. /\ \A b \in Analyses : b # OwnerOf(r) => analysis'[b] = analysis[b]
      /\ analysis'[OwnerOf(r)].active = None /\ analysis'[OwnerOf(r)].latest = r
  BY <1>1, OwnerType DEF Recover, TypeOK, AnalysisRecord
<1>3. Ended(r)' BY <1>1 DEF Ended, Terminal
<1>4. Syncs({r}) BY <1>1, <1>2, <1>3 DEF Syncs, CanSync
<1>5. Drops({r}) BY <1>1 DEF Drops, Entries, Paused
<1> QED BY <1>1, <1>4, <1>5, AnalysisFrame

LEMMA AnalysisStep ==
  TypeOK /\ TypeOK' /\ WorkerInv /\ Recorded /\ EvidenceInv /\ AnalysisInv /\ [Next]_vars
    => AnalysisInv'
<1> SUFFICES ASSUME TypeOK, TypeOK', WorkerInv, Recorded, EvidenceInv, AnalysisInv, [Next]_vars
             PROVE  AnalysisInv'
  OBVIOUS
<1>1. RunsMove
  <2>1. [Ledger!Next]_(Ledger!vars) /\ EvidenceMove BY LedgerStep, EvidenceMoves
  <2> QED BY <2>1, HalfwayKept DEF RunsMove
<1>2. ASSUME NEW c \in Clients, ClientNext(c) PROVE AnalysisInv'
  <2>1. ASSUME NEW r \in Runs, NEW n \in 1..3, Resubmit(c, r, n) \/ CommitExisting(c, r, n)
        PROVE  AnalysisInv'
    BY <1>1, <2>1, AnalysisRepaired DEF Resubmit, CommitExisting
  <2>2. CASE Submitting(c)
    BY <1>1, <2>1, <2>2, AnalysisCommit, AnalysisClientMoves DEF Submitting
  <2>3. CASE Recovering(c) BY <1>1, <2>3, AnalysisEnsure DEF Recovering
  <2>4. CASE Launching(c)
    BY <1>1, <2>4, AnalysisFailed, AnalysisClientMoves DEF Launching
  <2>5. CASE Reconciling(c) BY <1>1, <2>5, AnalysisReconcile DEF Reconciling
  <2> QED BY <1>1, <1>2, <2>2, <2>3, <2>4, <2>5, AnalysisClientMoves DEF ClientNext
<1>3. ASSUME NEW w \in Workers, SupervisorNext(w) PROVE AnalysisInv'
  <2>1. CASE Supervising(w)
    BY <1>1, <2>1, AnalysisSupervisor, AnalysisDrops, AnalysisTake, AnalysisFinish,
       AnalysisEndsRun
    DEF Supervising
  <2> QED BY <1>1, <1>3, <2>1, AnalysisSupervisor, AnalysisDrops, AnalysisEndsRun
          DEF SupervisorNext
<1>4. CASE Cancelling BY <1>1, <1>4, AnalysisCancel, AnalysisAsk DEF Cancelling
<1>5. CASE Delivering BY <1>1, <1>5, AnalysisDeliver
<1>6. CASE Reviewing
  BY <1>1, <1>6, AnalysisRevise, AnalysisFinalize, AnalysisRecover DEF Reviewing
<1>7. CASE UNCHANGED vars
  <2>1. UNCHANGED <<run, analysis, queue, sup, outdated>>
    BY <1>7 DEF vars, work, control, procs, inputs
  <2> QED BY <1>1, <2>1, AnalysisQuiet DEF Entries, Paused
<1> QED BY <1>2, <1>3, <1>4, <1>5, <1>6, <1>7 DEF Next

-----------------------------------------------------------------------------
(* Theorems *)

\* A run that waits for its review or has completed has what it needs to show
\* for it, and every version that no delivery head selects is one death.
THEOREM EvidenceShown == Spec => []EvidenceInv
<1>1. TypeOK /\ TypeOK' /\ WorkerInv /\ Recorded /\ EvidenceInv /\ [Next]_vars => EvidenceInv'
  BY EvidenceMoves, EvidenceKept
<1> QED BY <1>1, TypeCorrect, WorkersCorrect, RecordsAgree, EvidenceInit, PTL DEF Spec

\* The queue, the runs and the summaries agree in every reachable state.
THEOREM AnalysesAgree == Spec => []AnalysisInv
BY TypeCorrect, WorkersCorrect, RecordsAgree, EvidenceShown, AnalysisInit, AnalysisStep, PTL
DEF Spec

\* An entry is the only one of its analysis, which is active with it or with
\* nothing, so no recovery loop raises ANALYSIS_BUSY halfway.
THEOREM EntriesMatch == Spec => []EntryMatchesAnalysis
BY AnalysesAgree, PTL DEF AnalysisInv

\* No revision and no change of a source gets under a run in flight.
THEOREM FrozenRuns == Spec => []FrozenInputs
BY AnalysesAgree, PTL DEF AnalysisInv

\* An analysis has at most one run that is queued, running or in review.
THEOREM OneRunLive == Spec => []OneLiveRun
<1>1. AnalysisInv => OneLiveRun
  <2> SUFFICES ASSUME AnalysisInv, NEW r \in Runs, NEW q \in Runs, Live(r), Live(q),
                      OwnerOf(r) = OwnerOf(q), r # q
               PROVE  FALSE
    BY DEF OneLiveRun
  <2>1. Paused(r) => analysis[OwnerOf(r)].active = r BY DEF AnalysisInv, ActiveWorks
  <2>2. Paused(q) => analysis[OwnerOf(r)].active = q BY DEF AnalysisInv, ActiveWorks
  <2>3. r \in Entries => CanSync(r) BY DEF AnalysisInv, EntryMatchesAnalysis
  <2>4. q \in Entries => CanSync(q) BY DEF AnalysisInv, EntryMatchesAnalysis
  <2>5. ~(r \in Entries /\ q \in Entries) BY DEF AnalysisInv, EntryMatchesAnalysis
  <2> QED BY <2>1, <2>2, <2>3, <2>4, <2>5, SchedulerAssumption DEF Live, CanSync
<1> QED BY <1>1, AnalysesAgree, PTL

\* An analysis stays active with a run that ended only while something is left
\* that will release it; the cancellation of a paused run that died halfway and
\* a completion none of whose versions can be selected are all that is left out.
THEOREM ReleasedInTime == Spec => []ReleasedLater
<1>1. TypeOK /\ EvidenceInv /\ AnalysisInv => ReleasedLater
  <2> SUFFICES ASSUME TypeOK, EvidenceInv, AnalysisInv, NEW a \in Analyses,
                      NEW r \in Runs, analysis[a].active = r, Ended(r), r \notin Entries,
                      ~CancelledHalfway(r)
               PROVE  Recoverable(r) \/ Unselectable(r)
    BY DEF ReleasedLater, TypeOK, AnalysisRecord
  <2>1. /\ OwnerOf(r) = a /\ analysis[a].latest = r /\ r \notin outdated
        /\ run[r].status = "completed"
    BY DEF AnalysisInv, ActiveWorks, Paused, Ended, Terminal
  <2>2. run[r].evidence \in {"version", "versions", "head"} BY <2>1 DEF EvidenceInv
  <2>3. CASE run[r].evidence = "versions" BY <2>1, <2>3 DEF EvidenceInv, Unselectable
  <2>4. CASE run[r].evidence # "versions"
    BY <2>1, <2>2, <2>4 DEF Recoverable, SelectsVersion
  <2> QED BY <2>3, <2>4
<1> QED BY <1>1, TypeCorrect, EvidenceShown, AnalysesAgree, PTL
==============================================================================
