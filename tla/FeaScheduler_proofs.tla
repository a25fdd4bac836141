-------------------------- MODULE FeaScheduler_proofs --------------------------
(***************************************************************************)
(* Theorems about FeaScheduler, for every workspace: any number of         *)
(* analyses, keys, runs, supervisors, clients and crashes.                 *)
(***************************************************************************)
EXTENDS FeaScheduler, TLAPS

-----------------------------------------------------------------------------
(* The helpers keep the shape of the files. *)

LEMMA SyncAllType ==
  ASSUME TypeOK, NEW S \in SUBSET Runs, NEW rn \in [Runs -> RunRecord]
  PROVE  SyncAll(S, rn) \in [Analyses -> AnalysisRecord]
<1> SUFFICES ASSUME NEW a \in Analyses PROVE SyncAll(S, rn)[a] \in AnalysisRecord
  BY DEF SyncAll
<1> DEFINE r == CHOOSE q \in S : OwnerOf(q) = a
<1>1. CASE \E q \in S : OwnerOf(q) = a
  <2>1. r \in Runs BY <1>1
  <2>2. rn[r].status \in RunStatus BY <2>1 DEF RunRecord
  <2>3. Synced(analysis[a], r, rn[r].status) \in AnalysisRecord
    <3> HIDE DEF r
    <3> QED BY <2>1, <2>2 DEF Synced, AnalysisRecord, TypeOK
  <2> QED BY <1>1, <2>3 DEF SyncAll
<1>2. CASE ~\E q \in S : OwnerOf(q) = a
  BY <1>2 DEF SyncAll, TypeOK
<1> QED BY <1>1, <1>2

LEMMA WithoutType ==
  ASSUME NEW q \in [Runs -> Entry], NEW S
  PROVE  Without(q, S) \in [Runs -> Entry]
BY DEF Without, Entry, NoEntry

LEMMA SettledType ==
  ASSUME TypeOK, NEW S, NEW st \in RunStatus
  PROVE  Settled(S, st) \in [Runs -> RunRecord]
BY DEF Settled, RunRecord, TypeOK

LEMMA NoticedType ==
  ASSUME TypeOK, NEW an, NEW replaced
  PROVE  Noticed(an, replaced) \in [Clients -> Client]
<1> SUFFICES ASSUME NEW c \in Clients PROVE Noticed(an, replaced)[c] \in Client
  BY DEF Noticed
<1>1. client[c] \in Client BY DEF TypeOK
<1>2. [client[c] EXCEPT !.fresh = FALSE] \in Client BY <1>1 DEF Client
<1> QED BY <1>1, <1>2 DEF Noticed

LEMMA AtType ==
  ASSUME NEW pc \in {"idle", "ensure", "open", "checked"}, NEW submits \in BOOLEAN
  PROVE  At(pc, submits) \in Client
BY DEF At, Client

LEMMA ReturnedType ==
  ASSUME NEW c PROVE Returned(c) \in Client
BY AtType DEF Returned

LEMMA CrashType ==
  ASSUME TypeOK, NEW finished, CrashUnless(finished)
  PROVE  crashes' \in 0..MaxCrashes
BY SchedulerAssumption DEF CrashUnless, Crash, TypeOK

LEMMA LeavesType ==
  ASSUME TypeOK, NEW c \in Clients, NEW finished, NEW to \in Client, NEW an,
         Leaves(c, finished, to, an)
  PROVE  client' \in [Clients -> Client] /\ crashes' \in 0..MaxCrashes
<1>1. crashes' \in 0..MaxCrashes BY CrashType DEF Leaves
<1>2. Noticed(an, {}) \in [Clients -> Client] BY NoticedType
<1>3. At("idle", FALSE) \in Client BY AtType
<1> QED BY <1>1, <1>2, <1>3 DEF Leaves

LEMMA BecomesType ==
  ASSUME TypeOK, NEW c \in Clients, NEW to \in Client, Becomes(c, to)
  PROVE  client' \in [Clients -> Client] /\ crashes' \in 0..MaxCrashes
BY DEF Becomes, TypeOK

LEMMA ProceedsType ==
  ASSUME TypeOK, NEW w \in Workers, NEW finished, NEW to \in Supervisor,
         to.pc = "executing" => to.run \in Runs,
         Proceeds(w, finished, to)
  PROVE  /\ sup' \in [Workers -> Supervisor]
         /\ \A v \in Workers : sup'[v].pc = "executing" => sup'[v].run \in Runs
         /\ owner' \in Workers \cup {None}
         /\ signals' \subseteq Workers \X Runs
         /\ crashes' \in 0..MaxCrashes
<1>1. crashes' \in 0..MaxCrashes BY CrashType DEF Proceeds
<1>2. Dead \in Supervisor /\ Dead.pc = "none" BY DEF Dead, Supervisor
<1>3. sup' = [sup EXCEPT ![w] = to] \/ sup' = [sup EXCEPT ![w] = Dead]
  BY DEF Proceeds
<1>4. sup \in [Workers -> Supervisor] BY DEF TypeOK
<1>5. sup' \in [Workers -> Supervisor] BY <1>2, <1>3, <1>4
<1>6. \A v \in Workers : sup'[v].pc = "executing" => sup'[v].run \in Runs
  BY <1>2, <1>3, <1>4 DEF TypeOK
<1> QED BY <1>1, <1>5, <1>6 DEF Proceeds, TypeOK

LEMMA InType ==
  ASSUME NEW pc \in {"booting", "locked", "serving", "idle", "stopping"}
  PROVE  In(pc) \in Supervisor /\ In(pc).pc = pc
BY DEF In, Supervisor

\* A supervisor moves to another state without dying.
LEMMA MovesType ==
  ASSUME TypeOK, NEW w, NEW to \in Supervisor, to.pc # "executing",
         sup' = [sup EXCEPT ![w] = to]
  PROVE  /\ sup' \in [Workers -> Supervisor]
         /\ \A v \in Workers : sup'[v].pc = "executing" => sup'[v].run \in Runs
BY DEF TypeOK

-----------------------------------------------------------------------------
(* Type correctness *)

LEMMA InitType == Init => TypeOK
<1> SUFFICES ASSUME Init PROVE TypeOK OBVIOUS
<1>1. NoEntry \in Entry /\ NoRun \in RunRecord /\ Dead \in Supervisor
  BY DEF NoEntry, Entry, NoRun, RunRecord, RunStatus, Evidence, Dead, Supervisor
<1>2. At("idle", FALSE) \in Client BY AtType
<1>3. 0 \in 0..MaxCrashes BY SchedulerAssumption
<1>4. analysis \in [Analyses -> AnalysisRecord] BY DEF Init, AnalysisRecord
<1>5. claim \in Claim BY DEF Init, Claim
<1> QED BY <1>1, <1>2, <1>3, <1>4, <1>5 DEF Init, TypeOK, Dead

LEMMA ReconcileType ==
  ASSUME TypeOK, NEW c \in Clients, NEW S \in SUBSET Runs, NEW f \in BOOLEAN,
         Reconcile(c, S, f)
  PROVE  TypeOK'
<1>1. analysis' \in [Analyses -> AnalysisRecord]
  BY SyncAllType DEF Reconcile, TypeOK
<1>2. queue' \in [Runs -> Entry] BY WithoutType DEF Reconcile, TypeOK
<1>3. client' \in [Clients -> Client] /\ crashes' \in 0..MaxCrashes
  BY LeavesType, AtType DEF Reconcile
<1> QED BY <1>1, <1>2, <1>3 DEF Reconcile, TypeOK, procs, inputs

LEMMA RepairedType ==
  ASSUME TypeOK, NEW r \in Runs, NEW n, Repaired(r, n)
  PROVE  /\ run' \in [Runs -> RunRecord]
         /\ analysis' \in [Analyses -> AnalysisRecord]
         /\ index' \in [Keys -> Runs \cup {None}]
<1>1. run' \in [Runs -> RunRecord]
  BY SettledType DEF Repaired, TypeOK, RunStatus, Terminal
<1>2. SyncAll({r}, run') \in [Analyses -> AnalysisRecord] BY <1>1, SyncAllType
<1> QED BY <1>1, <1>2 DEF Repaired, TypeOK

LEMMA ExistingType ==
  ASSUME TypeOK, NEW c \in Clients, NEW r \in Runs, NEW n,
         Resubmit(c, r, n) \/ CommitExisting(c, r, n)
  PROVE  TypeOK'
<1>1. Repaired(r, n) /\ Leaves(c, n = 3, At("ensure", FALSE), analysis')
  BY DEF Resubmit, CommitExisting
<1>2. client' \in [Clients -> Client] /\ crashes' \in 0..MaxCrashes
  BY <1>1, LeavesType, AtType
<1> QED BY <1>1, <1>2, RepairedType DEF Repaired, TypeOK, control, procs

LEMMA CommitType ==
  ASSUME TypeOK, NEW c \in Clients, NEW r \in Runs, NEW n, CommitSubmit(c, r, n)
  PROVE  TypeOK'
<1>1. run' \in [Runs -> RunRecord]
  <2>1. [NoRun EXCEPT !.status = "queued"] \in RunRecord
    BY DEF NoRun, RunRecord, RunStatus, Evidence
  <2> QED BY <2>1 DEF CommitSubmit, TypeOK
<1>2. SyncAll({r}, run') \in [Analyses -> AnalysisRecord] BY <1>1, SyncAllType
<1>3. queue' \in [Runs -> Entry]
  <2>1. [status |-> "queued", worker |-> None, after |-> Entries] \in Entry
    BY DEF Entry, Entries
  <2> QED BY <2>1 DEF CommitSubmit, Enqueued, TypeOK
<1>4. recovery' \in BOOLEAN BY DEF CommitSubmit, TypeOK
<1>5. client' \in [Clients -> Client] /\ crashes' \in 0..MaxCrashes
  BY LeavesType, AtType DEF CommitSubmit
<1> QED BY <1>1, <1>2, <1>3, <1>4, <1>5 DEF CommitSubmit, TypeOK, procs

LEMMA CheckType ==
  ASSUME TypeOK, NEW c \in Clients, NEW k \in Keys, NEW p \in Runs \cup {None},
         CheckSubmit(c, k, p)
  PROVE  TypeOK'
<1>1. [At("checked", FALSE) EXCEPT !.key = k, !.parent = p, !.fresh = TRUE] \in Client
  BY DEF At, Client
<1>2. client' \in [Clients -> Client] /\ crashes' \in 0..MaxCrashes
  BY <1>1, BecomesType DEF CheckSubmit
<1> QED BY <1>2 DEF CheckSubmit, TypeOK, work, control, procs, inputs

\* Steps of a client that write no file.
LEMMA SilentType ==
  ASSUME TypeOK, NEW c \in Clients,
         \/ EnsureNothing(c) \/ SubmitRejected(c) \/ LaunchReturns(c)
         \/ LaunchRaises(c) \/ LaunchSpared(c) \/ ClientDies(c)
  PROVE  TypeOK'
<1>1. Returned(c) \in Client /\ At("idle", FALSE) \in Client
  BY ReturnedType, AtType
<1>2. client[c] \in Client BY DEF TypeOK
<1>3. [client[c] EXCEPT !.pc = "failing"] \in Client BY <1>2 DEF Client
<1>4. client' \in [Clients -> Client] /\ crashes' \in 0..MaxCrashes
  <2>1. ASSUME NEW to \in Client, Becomes(c, to)
        PROVE  client' \in [Clients -> Client] /\ crashes' \in 0..MaxCrashes
    BY <2>1, BecomesType
  <2>2. CASE ClientDies(c)
    <3>1. crashes' \in 0..MaxCrashes
      BY <2>2, SchedulerAssumption DEF ClientDies, Crash, TypeOK
    <3>2. client' = [client EXCEPT ![c] = At("idle", FALSE)] BY <2>2 DEF ClientDies
    <3>3. client \in [Clients -> Client] BY DEF TypeOK
    <3> QED BY <1>1, <3>1, <3>2, <3>3
  <2>3. CASE EnsureNothing(c) BY <2>3, <2>1, <1>1 DEF EnsureNothing
  <2>4. CASE SubmitRejected(c) BY <2>4, <2>1, <1>1 DEF SubmitRejected
  <2>5. CASE LaunchReturns(c) BY <2>5, <2>1, <1>1 DEF LaunchReturns
  <2>6. CASE LaunchRaises(c) BY <2>6, <2>1, <1>3 DEF LaunchRaises
  <2>7. CASE LaunchSpared(c) BY <2>7, <2>1, <1>1 DEF LaunchSpared
  <2> QED BY <2>2, <2>3, <2>4, <2>5, <2>6, <2>7
<1>5. UNCHANGED <<work, control, procs, inputs>>
  BY DEF EnsureNothing, SubmitRejected, LaunchReturns, LaunchRaises, LaunchSpared,
         ClientDies
<1> QED BY <1>4, <1>5 DEF TypeOK, work, control, procs, inputs

LEMMA EnsureType ==
  ASSUME TypeOK, NEW c \in Clients, Recovering(c)
  PROVE  TypeOK'
<1>1. Claimed \in SUBSET Runs /\ Lost \in SUBSET Runs BY DEF Claimed, Lost
<1>2. ASSUME NEW n, EnsureInterrupts(c, n) PROVE TypeOK'
  <2>1. run' \in [Runs -> RunRecord]
    BY <1>2, SettledType DEF EnsureInterrupts, RunStatus, Terminal
  <2>2. analysis' \in [Analyses -> AnalysisRecord]
    BY <1>1, <1>2, <2>1, SyncAllType DEF EnsureInterrupts, TypeOK
  <2>3. queue' \in [Runs -> Entry]
    BY <1>2, WithoutType DEF EnsureInterrupts, TypeOK
  <2>4. client' \in [Clients -> Client] /\ crashes' \in 0..MaxCrashes
    BY <1>2, LeavesType, ReturnedType DEF EnsureInterrupts
  <2> QED BY <1>2, <2>1, <2>2, <2>3, <2>4
          DEF EnsureInterrupts, TypeOK, procs, inputs
<1>3. ASSUME NEW n, EnsureSettles(c, n) PROVE TypeOK'
  <2>1. analysis' \in [Analyses -> AnalysisRecord]
    BY <1>1, <1>3, SyncAllType DEF EnsureSettles, TypeOK
  <2>2. queue' \in [Runs -> Entry] BY <1>3, WithoutType DEF EnsureSettles, TypeOK
  <2>3. client' \in [Clients -> Client] /\ crashes' \in 0..MaxCrashes
    BY <1>3, LeavesType, ReturnedType DEF EnsureSettles
  <2> QED BY <1>3, <2>1, <2>2, <2>3 DEF EnsureSettles, TypeOK, procs, inputs
<1>4. ASSUME NEW w \in Workers, NEW n, EnsureLaunches(c, w, n) PROVE TypeOK'
  <2>1. analysis' \in [Analyses -> AnalysisRecord]
    BY <1>1, <1>4, SyncAllType DEF EnsureLaunches, TypeOK
  <2>2. queue' \in [Runs -> Entry] BY <1>4, WithoutType DEF EnsureLaunches, TypeOK
  <2>3. [client[c] EXCEPT !.pc = "launching", !.worker = w] \in Client
    BY DEF TypeOK, Client
  <2>4. client' \in [Clients -> Client] /\ crashes' \in 0..MaxCrashes
    BY <1>4, <2>3, LeavesType DEF EnsureLaunches
  <2>5. claim' \in Claim BY <1>4 DEF EnsureLaunches, TypeOK, Claim
  <2> QED BY <1>4, <2>1, <2>2, <2>4, <2>5 DEF EnsureLaunches, TypeOK, procs, inputs
<1> QED BY <1>2, <1>3, <1>4 DEF Recovering

LEMMA LaunchType ==
  ASSUME TypeOK, NEW c \in Clients,
         \/ LaunchSpawn(c)
         \/ \E P, S \in SUBSET Runs, f \in BOOLEAN : LaunchFailed(c, P, S, f)
  PROVE  TypeOK'
<1>1. CASE LaunchSpawn(c)
  <2>1. [client[c] EXCEPT !.pc = "waiting"] \in Client BY DEF TypeOK, Client
  <2>2. client' \in [Clients -> Client] /\ crashes' \in 0..MaxCrashes
    BY <1>1, <2>1, BecomesType DEF LaunchSpawn
  <2>3. /\ sup' \in [Workers -> Supervisor]
        /\ \A w \in Workers : sup'[w].pc = "executing" => sup'[w].run \in Runs
    <3>1. In("booting") \in Supervisor /\ In("booting").pc # "executing" BY InType
    <3>2. sup' = [sup EXCEPT ![client[c].worker] = In("booting")]
      BY <1>1 DEF LaunchSpawn
    <3> QED BY <3>1, <3>2, MovesType
  <2> QED BY <1>1, <2>2, <2>3 DEF LaunchSpawn, TypeOK, work, control, inputs
<1>2. ASSUME NEW P \in SUBSET Runs, NEW S \in SUBSET Runs, NEW f \in BOOLEAN,
             LaunchFailed(c, P, S, f)
      PROVE  TypeOK'
  <2>1. run' \in [Runs -> RunRecord]
    BY <1>2, SettledType DEF LaunchFailed, RunStatus, Terminal
  <2>2. analysis' \in [Analyses -> AnalysisRecord]
    BY <1>2, <2>1, SyncAllType DEF LaunchFailed
  <2>3. queue' \in [Runs -> Entry] BY <1>2, WithoutType DEF LaunchFailed, TypeOK
  <2>4. client' \in [Clients -> Client] /\ crashes' \in 0..MaxCrashes
    BY <1>2, LeavesType, ReturnedType DEF LaunchFailed
  <2>5. claim' \in Claim BY <1>2 DEF LaunchFailed, TypeOK, Claim
  <2> QED BY <1>2, <2>1, <2>2, <2>3, <2>4, <2>5 DEF LaunchFailed, TypeOK, procs, inputs
<1> QED BY <1>1, <1>2

\* Steps of a supervisor that write no run and no queue.
LEMMA SupervisorType ==
  ASSUME TypeOK, NEW w \in Workers,
         \/ Boot(w) \/ BootBlocked(w) \/ CheckClaim(w) \/ PublishReady(w)
         \/ Exit(w) \/ Kill(w)
  PROVE  TypeOK'
<1>1. Dead \in Supervisor /\ Dead.pc # "executing" BY DEF Dead, Supervisor
<1>2. PICK to \in Supervisor : to.pc # "executing" /\ sup' = [sup EXCEPT ![w] = to]
  BY <1>1, InType DEF Boot, BootBlocked, CheckClaim, PublishReady, Exit, Kill
<1>3. /\ sup' \in [Workers -> Supervisor]
      /\ \A v \in Workers : sup'[v].pc = "executing" => sup'[v].run \in Runs
  BY <1>2, MovesType
<1>4. owner' \in Workers \cup {None}
  BY DEF Boot, BootBlocked, CheckClaim, PublishReady, Exit, Kill, TypeOK
<1>5. claim' \in Claim
  BY DEF Boot, BootBlocked, CheckClaim, PublishReady, Exit, Kill, TypeOK, control, Claim
<1>6. crashes' \in 0..MaxCrashes
  BY SchedulerAssumption
  DEF Boot, BootBlocked, CheckClaim, PublishReady, Exit, Kill, Crash, TypeOK
<1> QED BY <1>3, <1>4, <1>5, <1>6
        DEF Boot, BootBlocked, CheckClaim, PublishReady, Exit, Kill, TypeOK,
            work, control, inputs

LEMMA TakeType ==
  ASSUME TypeOK, NEW w \in Workers, NEW r \in Runs, NEW n, Take(w, r, n)
  PROVE  TypeOK'
<1>1. run' \in [Runs -> RunRecord] BY DEF Take, TypeOK, RunRecord, RunStatus
<1>2. queue[r].after \in SUBSET Runs BY DEF TypeOK, Entry
<1>3. analysis' \in [Analyses -> AnalysisRecord]
  BY <1>1, <1>2, SyncAllType DEF Take
<1>4. queue' \in [Runs -> Entry]
  <2>1. Without(queue, queue[r].after) \in [Runs -> Entry]
    BY WithoutType DEF TypeOK
  <2> QED BY <2>1 DEF Take, Entry
<1>5. [pc |-> "executing", run |-> r, event |-> FALSE] \in Supervisor
  BY DEF Supervisor
<1>6. /\ sup' \in [Workers -> Supervisor]
      /\ \A v \in Workers : sup'[v].pc = "executing" => sup'[v].run \in Runs
      /\ owner' \in Workers \cup {None} /\ signals' \subseteq Workers \X Runs
      /\ crashes' \in 0..MaxCrashes
  BY <1>5, ProceedsType DEF Take
<1>7. client' \in [Clients -> Client] BY NoticedType DEF Take
<1> QED BY <1>1, <1>3, <1>4, <1>6, <1>7 DEF Take, TypeOK, inputs

LEMMA DropType ==
  ASSUME TypeOK, NEW w \in Workers,
         Stop(w) \/ \E P, S \in SUBSET Runs : TakeDies(w, P, S)
  PROVE  TypeOK'
<1>1. Done \in SUBSET Runs BY DEF Done, Entries
<1>2. PICK S \in SUBSET Runs : analysis' = SyncAll(S, run)
  BY <1>1 DEF Stop, TakeDies
<1>3. analysis' \in [Analyses -> AnalysisRecord] BY <1>2, SyncAllType DEF TypeOK
<1>4. queue' \in [Runs -> Entry]
  <2>1. PICK D : queue' = Without(queue, D) BY DEF Stop, TakeDies
  <2>2. queue \in [Runs -> Entry] BY DEF TypeOK
  <2> QED BY <2>1, <2>2, WithoutType
<1>5. claim' \in Claim BY DEF Stop, TakeDies, TypeOK, Claim
<1>6. /\ sup' \in [Workers -> Supervisor]
      /\ \A v \in Workers : sup'[v].pc = "executing" => sup'[v].run \in Runs
      /\ owner' \in Workers \cup {None} /\ signals' \subseteq Workers \X Runs
      /\ crashes' \in 0..MaxCrashes
  <2>1. PICK f \in BOOLEAN, to \in {In("stopping"), Dead} : Proceeds(w, f, to)
    BY DEF Stop, TakeDies
  <2>2. /\ Dead \in Supervisor /\ Dead.pc # "executing"
        /\ In("stopping") \in Supervisor /\ In("stopping").pc # "executing"
    BY DEF Dead, In, Supervisor
  <2> QED BY <2>1, <2>2, ProceedsType
<1>7. client' \in [Clients -> Client] BY NoticedType DEF Stop, TakeDies
<1> QED BY <1>3, <1>4, <1>5, <1>6, <1>7 DEF Stop, TakeDies, TypeOK, inputs

\* The record _finish leaves of a run that has not ended.
LEMMA FinishedRun ==
  ASSUME TypeOK, NEW w \in Workers, NEW o \in Outcomes,
         NEW r \in Runs, r = sup[w].run, ~Ended(r)
  PROVE  \E st \in {"cancelled", "awaiting_visual_review", "failed", "timed_out",
                    "interrupted"} :
           /\ Finished(w, o) = [run EXCEPT ![r] =
                [status |-> st, cancel |-> run[r].cancel,
                 worker |-> IF st = "awaiting_visual_review" THEN None ELSE w,
                 evidence |-> IF st = "awaiting_visual_review" THEN "sealed"
                              ELSE run[r].evidence]]
           /\ IF Asked(w) THEN st = "cancelled" ELSE st # "cancelled"
BY DEF Finished, Outcomes

LEMMA FinishedType ==
  ASSUME TypeOK, NEW w \in Workers, sup[w].pc = "executing", NEW o \in Outcomes
  PROVE  Finished(w, o) \in [Runs -> RunRecord]
<1>1. PICK r \in Runs : r = sup[w].run BY DEF TypeOK
<1>2. CASE Ended(r) BY <1>1, <1>2 DEF Finished, TypeOK
<1>3. CASE ~Ended(r)
  <2>1. PICK st \in {"cancelled", "awaiting_visual_review", "failed", "timed_out",
                     "interrupted"} :
          Finished(w, o) = [run EXCEPT ![r] =
            [status |-> st, cancel |-> run[r].cancel,
             worker |-> IF st = "awaiting_visual_review" THEN None ELSE w,
             evidence |-> IF st = "awaiting_visual_review" THEN "sealed"
                          ELSE run[r].evidence]]
    BY <1>1, <1>3, FinishedRun
  <2>2. PICK v \in Workers \cup {None}, e \in Evidence :
          Finished(w, o) = [run EXCEPT ![r] =
            [status |-> st, cancel |-> run[r].cancel, worker |-> v, evidence |-> e]]
    <3>1. run[r].evidence \in Evidence BY DEF TypeOK, RunRecord
    <3> QED BY <2>1, <3>1 DEF Evidence
  <2>3. [status |-> st, cancel |-> run[r].cancel, worker |-> v, evidence |-> e] \in RunRecord
    BY DEF TypeOK, RunRecord, RunStatus, Terminal
  <2> QED BY <2>2, <2>3 DEF TypeOK
<1> QED BY <1>2, <1>3

LEMMA FinishType ==
  ASSUME TypeOK, NEW w \in Workers, NEW o \in Outcomes, NEW n,
         Finish(w, o, n) \/ FinishBusy(w, o) \/ BudgetFail(w)
  PROVE  TypeOK'
<1>1. sup[w].pc = "executing" /\ sup[w].run \in Runs
  BY DEF Finish, FinishBusy, BudgetFail, TypeOK
<1>2. run' \in [Runs -> RunRecord]
  BY <1>1, FinishedType, SettledType
  DEF Finish, FinishBusy, BudgetFail, RunStatus, Terminal
<1>3. SyncAll({sup[w].run}, run') \in [Analyses -> AnalysisRecord]
  BY <1>1, <1>2, SyncAllType
<1>4. CASE Finish(w, o, n)
  <2>1. queue' \in [Runs -> Entry] BY <1>4, WithoutType DEF Finish, TypeOK
  <2>2. /\ sup' \in [Workers -> Supervisor]
        /\ \A v \in Workers : sup'[v].pc = "executing" => sup'[v].run \in Runs
        /\ owner' \in Workers \cup {None} /\ signals' \subseteq Workers \X Runs
        /\ crashes' \in 0..MaxCrashes
    BY <1>4, InType, ProceedsType DEF Finish
  <2>3. client' \in [Clients -> Client] BY <1>4, NoticedType DEF Finish
  <2> QED BY <1>2, <1>3, <1>4, <2>1, <2>2, <2>3 DEF Finish, TypeOK, inputs
<1>5. CASE FinishBusy(w, o)
  <2>1. /\ sup' \in [Workers -> Supervisor]
        /\ \A v \in Workers : sup'[v].pc = "executing" => sup'[v].run \in Runs
    BY <1>5, InType, MovesType DEF FinishBusy
  <2> QED BY <1>2, <1>5, <2>1 DEF FinishBusy, TypeOK, control, inputs
<1>6. CASE BudgetFail(w)
  BY <1>2, <1>6 DEF BudgetFail, TypeOK, control, procs, inputs
<1> QED BY <1>4, <1>5, <1>6

\* cancel, its packet, and the writers of analysis.json outside the scheduler.
LEMMA CancelType == TypeOK /\ (Cancelling \/ Delivering) => TypeOK'
<1>1. ASSUME TypeOK, NEW r \in Runs, NEW n \in 1..3, CancelQueued(r, n) PROVE TypeOK'
  <2>1. run' \in [Runs -> RunRecord]
    BY <1>1 DEF CancelQueued, TypeOK, RunRecord, RunStatus, Terminal
  <2>2. SyncAll({r}, run') \in [Analyses -> AnalysisRecord]
    BY <1>1, <2>1, SyncAllType
  <2>3. queue' \in [Runs -> Entry] BY <1>1, WithoutType DEF CancelQueued, TypeOK
  <2>4. client' \in [Clients -> Client] /\ crashes' \in 0..MaxCrashes
    BY <1>1, NoticedType, CrashType DEF CancelQueued
  <2> QED BY <1>1, <2>1, <2>2, <2>3, <2>4 DEF CancelQueued, TypeOK, procs, inputs
<1>2. ASSUME TypeOK, NEW r \in Runs, NEW f \in BOOLEAN, NEW n \in 1..3,
             CancelActive(r, f, n)
      PROVE  TypeOK'
  <2>1. run' \in [Runs -> RunRecord]
    <3>1. Settled({r}, "failed") \in [Runs -> RunRecord]
      BY <1>2, SettledType DEF RunStatus, Terminal
    <3>2. PICK rn \in [Runs -> RunRecord] : run' = [rn EXCEPT ![r].cancel = TRUE]
      BY <1>2, <3>1 DEF CancelActive, TypeOK
    <3> QED BY <3>2 DEF RunRecord
  <2>2. SyncAll({r}, run') \in [Analyses -> AnalysisRecord]
    BY <1>2, <2>1, SyncAllType
  <2>3. signals' \subseteq Workers \X Runs
    <3>1. claim.id # None => <<claim.id, r>> \in Workers \X Runs
      BY <1>2 DEF TypeOK, Claim
    <3> QED BY <1>2, <3>1 DEF CancelActive, TypeOK
  <2>4. client' \in [Clients -> Client] /\ crashes' \in 0..MaxCrashes
    BY <1>2, NoticedType, CrashType DEF CancelActive
  <2> QED BY <1>2, <2>1, <2>2, <2>3, <2>4 DEF CancelActive, TypeOK, control, inputs
<1>3. ASSUME TypeOK, NEW w \in Workers, NEW r \in Runs, NEW f \in BOOLEAN,
             Deliver(w, r, f)
      PROVE  TypeOK'
  <2>1. sup[w] \in Supervisor /\ sup \in [Workers -> Supervisor] BY <1>3 DEF TypeOK
  <2>2. ASSUME NEW e \in BOOLEAN PROVE [sup[w] EXCEPT !.event = e] \in Supervisor
    BY <2>1 DEF Supervisor
  <2>3. (sup[w].event \/ (f /\ sup[w].pc = "executing" /\ sup[w].run = r)) \in BOOLEAN
    BY <2>1 DEF Supervisor
  <2>4. /\ sup' \in [Workers -> Supervisor]
        /\ \A v \in Workers : sup'[v].pc = sup[v].pc /\ sup'[v].run = sup[v].run
    <3>1. PICK e \in BOOLEAN : sup' = [sup EXCEPT ![w].event = e]
      BY <1>3, <2>1, <2>3 DEF Deliver
    <3>2. sup' = [sup EXCEPT ![w] = [sup[w] EXCEPT !.event = e]] BY <3>1, <2>1
    <3> QED BY <2>1, <2>2, <3>2 DEF Supervisor
  <2>5. signals' \subseteq Workers \X Runs BY <1>3 DEF Deliver, TypeOK
  <2> QED BY <1>3, <2>4, <2>5 DEF Deliver, TypeOK, work, control, inputs
<1> QED BY <1>1, <1>2, <1>3 DEF Cancelling, Delivering

\* What the writes of finalize_visual leave of the run they publish.
LEMMA PresentedRun ==
  ASSUME TypeOK, NEW r \in Runs, NEW n \in 1..4, Finalize(r, n)
  PROVE  /\ Paused(r) /\ ~run[r].cancel /\ run' \in [Runs -> RunRecord]
         /\ \A q \in Runs \ {r} : run'[q] = run[q]
         /\ run'[r].status = IF n = 1 THEN "awaiting_visual_review" ELSE "completed"
         /\ run'[r].worker = run[r].worker /\ run'[r].cancel = run[r].cancel
         /\ run'[r].evidence = IF n >= 3 THEN "head"
                               ELSE IF run[r].evidence = "sealed" THEN "version"
                               ELSE "versions"
<1> DEFINE e == IF n >= 3 THEN "head"
                ELSE IF run[r].evidence = "sealed" THEN "version" ELSE "versions"
           st == IF n = 1 THEN "awaiting_visual_review" ELSE "completed"
<1>1. /\ Paused(r) /\ ~run[r].cancel
      /\ run' = [run EXCEPT ![r] = [run[r] EXCEPT !.status = st, !.evidence = e]]
  <2>1. Paused(r) /\ ~run[r].cancel BY DEF Finalize
  <2>2. st = IF n >= 2 THEN "completed" ELSE run[r].status BY <2>1 DEF Paused
  <2>3. Presented(run[r], n) = [run[r] EXCEPT !.status = st, !.evidence = e]
    BY <2>2 DEF Presented
  <2>4. run' = [run EXCEPT ![r] = Presented(run[r], n)] BY DEF Finalize
  <2> QED BY <2>1, <2>3, <2>4
<1>2. e \in Evidence /\ st \in RunStatus BY DEF Evidence, RunStatus, Terminal
<1> HIDE DEF e, st
<1>3. /\ run' \in [Runs -> RunRecord] /\ \A q \in Runs \ {r} : run'[q] = run[q]
      /\ run'[r].status = st /\ run'[r].evidence = e
      /\ run'[r].worker = run[r].worker /\ run'[r].cancel = run[r].cancel
  BY <1>1, <1>2 DEF TypeOK, RunRecord
<1> QED BY <1>1, <1>3 DEF e, st

LEMMA ReviewType == TypeOK /\ Reviewing => TypeOK'
<1>1. ASSUME TypeOK, NEW a \in Analyses, Revise(a) \/ Approve(a) PROVE TypeOK'
  <2>1. analysis' \in [Analyses -> AnalysisRecord]
    <3>1. analysis \in [Analyses -> AnalysisRecord] BY <1>1 DEF TypeOK
    <3>2. /\ [analysis[a] EXCEPT !.approved = FALSE, !.status = "review"]
               \in AnalysisRecord
          /\ [analysis[a] EXCEPT !.approved = TRUE, !.status = "approved"]
               \in AnalysisRecord
      BY <3>1 DEF AnalysisRecord
    <3> QED BY <1>1, <3>1, <3>2 DEF Revise, Approve
  <2>2. client' \in [Clients -> Client] BY <1>1, NoticedType DEF Revise, Approve
  <2>3. outdated' \subseteq Runs BY <1>1 DEF Revise, Approve, inputs, TypeOK
  <2> QED BY <1>1, <2>1, <2>2, <2>3 DEF Revise, Approve, TypeOK, control, procs, inputs
<1>2. ASSUME TypeOK, NEW r \in Runs, Recover(r) PROVE TypeOK'
  <2>1. "completed" = Summary("completed") /\ "completed" \in RunStatus
    BY DEF Summary, RunStatus, Terminal
  <2>2. analysis' \in [Analyses -> AnalysisRecord]
    <3>1. analysis \in [Analyses -> AnalysisRecord] BY <1>2 DEF TypeOK
    <3>2. OwnerOf(r) \in Analyses BY SchedulerAssumption DEF OwnerOf
    <3>3. [analysis[OwnerOf(r)] EXCEPT !.status = "completed", !.active = None]
            \in AnalysisRecord
      BY <2>1, <3>1, <3>2 DEF AnalysisRecord
    <3> QED BY <1>2, <3>1, <3>3 DEF Recover
  <2>3. client' \in [Clients -> Client] BY <1>2, NoticedType DEF Recover
  <2> QED BY <1>2, <2>2, <2>3 DEF Recover, TypeOK, control, procs, inputs
<1>3. ASSUME TypeOK, NEW r \in Runs, NEW n \in 1..4, Finalize(r, n) PROVE TypeOK'
  <2>1. run' \in [Runs -> RunRecord] BY <1>3, PresentedRun
  <2>2. analysis' \in [Analyses -> AnalysisRecord]
    <3>1. analysis \in [Analyses -> AnalysisRecord] BY <1>3 DEF TypeOK
    <3>2. OwnerOf(r) \in Analyses BY SchedulerAssumption DEF OwnerOf
    <3>3. "completed" \in RunStatus BY DEF RunStatus, Terminal
    <3>4. Synced(analysis[OwnerOf(r)], r, "completed") \in AnalysisRecord
      BY <3>1, <3>2, <3>3 DEF Synced, AnalysisRecord
    <3> QED BY <1>3, <3>1, <3>4 DEF Finalize
  <2>3. client' \in [Clients -> Client] /\ crashes' \in 0..MaxCrashes
    BY <1>3, NoticedType, CrashType DEF Finalize
  <2> QED BY <1>3, <2>1, <2>2, <2>3 DEF Finalize, TypeOK, control, procs, inputs
<1> QED BY <1>1, <1>2, <1>3 DEF Reviewing

LEMMA StepType == TypeOK /\ [Next]_vars => TypeOK'
<1> SUFFICES ASSUME TypeOK, [Next]_vars PROVE TypeOK' OBVIOUS
<1>1. ASSUME NEW c \in Clients, ClientNext(c) PROVE TypeOK'
  BY <1>1, ReconcileType, SilentType, EnsureType, LaunchType, ExistingType,
     CheckType, CommitType
  DEF ClientNext, Reconciling, Launching, Submitting
<1>2. ASSUME NEW w \in Workers, SupervisorNext(w) PROVE TypeOK'
  <2>1. PICK o \in Outcomes : TRUE BY DEF Outcomes
  <2> QED BY <1>2, <2>1, SupervisorType, TakeType, DropType, FinishType
          DEF SupervisorNext, Supervising
<1>3. CASE UNCHANGED vars
  BY <1>3 DEF vars, work, control, procs, inputs, TypeOK
<1> QED BY <1>1, <1>2, <1>3, CancelType, ReviewType DEF Next

\* Every record keeps the shape of its schema.
THEOREM TypeCorrect == Spec => []TypeOK
BY InitType, StepType, PTL DEF Spec

-----------------------------------------------------------------------------
(* The worker invariant                                                    *)
(*                                                                         *)
(* worker.lock has one holder, so a step either leaves every supervisor's  *)
(* hold alone (WorkerFrame), happens when nobody holds it or makes its     *)
(* holder let go (WorkerNobody), or is the holder's own (WorkerAlone).     *)

LEMMA WorkerFrame ==
  ASSUME WorkerInv,
         claim' = claim, owner' = owner, recovery' => recovery,
         \A w \in Workers : \/ sup'[w].pc = sup[w].pc /\ sup'[w].run = sup[w].run
                            \/ sup'[w].pc \in {"none", "booting"}
                            \/ sup'[w].pc = "stopping" /\ owner = w,
         \A w \in Workers : sup[w].pc = "executing" => sup[w].run \in Runs,
         \A r \in Runs :
           /\ Ended(r) => Ended(r)'
           /\ run'[r].status = "running" => run[r].status = "running"
           /\ run[r].status = "running" /\ ~Ended(r)' =>
                run'[r].status = "running" /\ run'[r].worker = run[r].worker
           /\ queue'[r].status = "claimed" => queue[r].status = "claimed"
           /\ queue[r].status = "claimed" /\ run'[r].status = "running" =>
                queue'[r].status = "claimed" /\ queue'[r].worker = queue[r].worker
  PROVE  WorkerInv'
<1>1. Claimed' \subseteq Claimed BY DEF Claimed
<1>2. \A w \in Workers : sup'[w].pc \in Holding => owner' = w
  BY DEF WorkerInv, Holding, Active
<1>3. \A w \in Workers :
        /\ sup'[w].pc = "serving" => claim' = [id |-> w, state |-> "starting"]
        /\ sup'[w].pc \in {"idle", "executing"} =>
             claim' = [id |-> w, state |-> "ready"]
        /\ sup'[w].pc = "executing" => Claimed' \subseteq {sup'[w].run}
  BY <1>1 DEF WorkerInv
<1>4. claim'.state = "starting" => Claimed' = {} BY <1>1 DEF WorkerInv
<1>5. RecoveryHalts' BY DEF WorkerInv, RecoveryHalts, Active
<1>6. OneClaimed' BY <1>1 DEF WorkerInv, OneClaimed
<1>7. ExecutionOwned' BY DEF WorkerInv, ExecutionOwned
<1>8. RunningHasEntry' BY DEF WorkerInv, RunningHasEntry
<1> QED BY <1>2, <1>3, <1>4, <1>5, <1>6, <1>7, <1>8 DEF WorkerInv

LEMMA WorkerNobody ==
  ASSUME \A w \in Workers : sup'[w].pc \notin Holding,
         claim'.state = "starting" => Claimed' = {},
         \A r, q \in Claimed' : r = q,
         RunningHasEntry'
  PROVE  WorkerInv'
BY DEF WorkerInv, RecoveryHalts, OneClaimed, ExecutionOwned, Holding, Active

LEMMA WorkerAlone ==
  ASSUME NEW w \in Workers, owner' = w,
         \A v \in Workers \ {w} : sup'[v].pc \notin Holding,
         sup'[w].pc = "serving" => claim' = [id |-> w, state |-> "starting"],
         sup'[w].pc \in {"idle", "executing"} =>
           claim' = [id |-> w, state |-> "ready"],
         claim'.state = "starting" \/ sup'[w].pc = "idle" => Claimed' = {},
         recovery' => sup'[w].pc \notin Active,
         \A r, q \in Claimed' : r = q,
         RunningHasEntry',
         sup'[w].pc = "executing" =>
           /\ Claimed' \subseteq {sup'[w].run}
           /\ run'[sup'[w].run].status \notin Terminal =>
                /\ queue'[sup'[w].run].status = "claimed"
                /\ queue'[sup'[w].run].worker = w
                /\ run'[sup'[w].run].status = "running"
                /\ run'[sup'[w].run].worker = w
  PROVE  WorkerInv'
<1>1. \A v \in Workers : sup'[v].pc \in Holding => v = w OBVIOUS
<1>2. \A v \in Workers : sup'[v].pc \in Active => v = w BY <1>1 DEF Holding
<1>3. RecoveryHalts'
  <2> SUFFICES ASSUME recovery', NEW v \in Workers PROVE sup'[v].pc \notin Active
    BY DEF RecoveryHalts
  <2> QED BY <1>2
<1>4. OneClaimed'
  <2> SUFFICES ASSUME NEW v \in Workers, sup'[v].pc = "idle" PROVE Claimed' = {}
    BY DEF OneClaimed
  <2> QED BY <1>2 DEF Active
<1>5. ExecutionOwned'
  <2> SUFFICES ASSUME NEW v \in Workers, sup'[v].pc = "executing",
                      run'[sup'[v].run].status \notin Terminal
               PROVE  /\ queue'[sup'[v].run].status = "claimed"
                      /\ queue'[sup'[v].run].worker = v
                      /\ run'[sup'[v].run].status = "running"
                      /\ run'[sup'[v].run].worker = v
    BY DEF ExecutionOwned, Ended
  <2>1. v = w BY <1>2 DEF Active
  <2> QED BY <2>1
<1>6. \A v \in Workers :
        /\ sup'[v].pc = "serving" => claim' = [id |-> v, state |-> "starting"]
        /\ sup'[v].pc \in {"idle", "executing"} =>
             claim' = [id |-> v, state |-> "ready"]
        /\ sup'[v].pc = "executing" => Claimed' \subseteq {sup'[v].run}
  BY <1>2 DEF Active
<1> QED BY <1>1, <1>3, <1>4, <1>5, <1>6 DEF WorkerInv

\* The holder of worker.lock is alone.
LEMMA OneHolder ==
  ASSUME WorkerInv, NEW w, owner = w
  PROVE  \A v \in Workers \ {w} : sup[v].pc \notin Holding
BY DEF WorkerInv

LEMMA NoHolder ==
  ASSUME WorkerInv, owner = None
  PROVE  \A v \in Workers : sup[v].pc \notin Holding
BY SchedulerAssumption DEF WorkerInv

LEMMA WorkerInit == Init => WorkerInv
<1> SUFFICES ASSUME Init PROVE WorkerInv OBVIOUS
<1>1. /\ \A w \in Workers : sup[w].pc = "none"
      /\ Claimed = {} /\ \A r \in Runs : run[r].status = "absent"
  BY DEF Init, Dead, Claimed, NoEntry, NoRun
<1> QED BY <1>1 DEF Init, WorkerInv, RecoveryHalts, OneClaimed, ExecutionOwned,
              RunningHasEntry, Holding, Active

\* A step that touches neither the workers nor the queue nor a run.
LEMMA WorkerSilent ==
  ASSUME TypeOK, WorkerInv, UNCHANGED <<run, control, owner, sup>>
  PROVE  WorkerInv'
<1> USE DEF control
<1> QED BY WorkerFrame DEF TypeOK, Ended

\* A step that closes runs, or moves ones that are not running, and nothing else.
LEMMA WorkerRunsOnly ==
  ASSUME TypeOK, WorkerInv, UNCHANGED <<control, owner, sup>>,
         \A r \in Runs : /\ Ended(r) => Ended(r)'
                         /\ run'[r].status = "running" => run[r].status = "running"
                         /\ run[r].status = "running" /\ ~Ended(r)' =>
                              /\ run'[r].status = "running"
                              /\ run'[r].worker = run[r].worker
  PROVE  WorkerInv'
<1> USE DEF control
<1> QED BY WorkerFrame DEF TypeOK

\* Dropping entries of ended runs leaves the claimed ones of running runs.
LEMMA WithoutStatus ==
  ASSUME NEW q \in [Runs -> Entry], NEW S, NEW r \in Runs
  PROVE  /\ r \in S => Without(q, S)[r] = NoEntry
         /\ r \notin S => /\ Without(q, S)[r].status = q[r].status
                          /\ Without(q, S)[r].worker = q[r].worker
         /\ NoEntry.status = "absent"
BY DEF Without, Entry, NoEntry

LEMMA SettledStatus ==
  ASSUME TypeOK, NEW S, NEW st, NEW r \in Runs
  PROVE  /\ r \in S => Settled(S, st)[r].status = st
         /\ r \notin S => Settled(S, st)[r] = run[r]
         /\ Settled(S, st)[r].worker = run[r].worker
BY DEF Settled, TypeOK, RunRecord

LEMMA WorkerReconcile ==
  ASSUME TypeOK, WorkerInv, NEW c \in Clients, NEW S \in SUBSET Runs, NEW f \in BOOLEAN,
         Reconcile(c, S, f)
  PROVE  WorkerInv'
<1>1. UNCHANGED <<run, recovery, claim, owner, sup>> BY DEF Reconcile, procs
<1>2. \A r \in Runs : Ended(r) => Ended(r)' BY <1>1 DEF Ended
<1>3. PICK D : /\ queue' = Without(queue, D) \/ queue' = queue
               /\ \A r \in D : Ended(r)
  BY DEF Reconcile
<1>4. \A r \in Runs :
        /\ queue'[r].status = "claimed" => queue[r].status = "claimed"
        /\ queue[r].status = "claimed" /\ run'[r].status = "running" =>
             queue'[r].status = "claimed" /\ queue'[r].worker = queue[r].worker
  <2> SUFFICES ASSUME NEW r \in Runs
               PROVE  /\ queue'[r].status = "claimed" => queue[r].status = "claimed"
                      /\ queue[r].status = "claimed" /\ run'[r].status = "running" =>
                           /\ queue'[r].status = "claimed"
                           /\ queue'[r].worker = queue[r].worker
    OBVIOUS
  <2>1. r \in D => run'[r].status # "running" BY <1>1, <1>3 DEF Ended, Terminal
  <2> QED BY <1>3, <2>1, WithoutStatus DEF TypeOK
<1> QED BY <1>1, <1>2, <1>4, WorkerFrame DEF TypeOK

LEMMA WorkerRepaired ==
  ASSUME TypeOK, WorkerInv, NEW r \in Runs, NEW n, Repaired(r, n)
  PROVE  WorkerInv'
<1>1. UNCHANGED <<control, owner, sup>> BY DEF Repaired, procs
<1>2. run' = run \/ (run' = Settled({r}, "interrupted") /\ ~Ended(r))
  BY DEF Repaired
<1>3. \A q \in Runs : /\ Ended(q) => Ended(q)'
                      /\ run'[q].status = "running" => run[q].status = "running"
                      /\ run[q].status = "running" /\ ~Ended(q)' =>
                           run'[q].status = "running" /\ run'[q].worker = run[q].worker
  BY <1>2, SettledStatus DEF Ended, Terminal
<1> QED BY <1>1, <1>3, WorkerRunsOnly

LEMMA WorkerCommit ==
  ASSUME TypeOK, WorkerInv, NEW c \in Clients, NEW r \in Runs, NEW n,
         CommitSubmit(c, r, n)
  PROVE  WorkerInv'
<1>1. UNCHANGED <<claim, owner, sup>> /\ (recovery' => recovery)
  BY DEF CommitSubmit, procs
<1>2. run[r].status = "absent"
  BY DEF CommitSubmit, Committable, Matches
<1>3. \A q \in Runs : q # r => run'[q] = run[q] /\ (queue'[q] = queue[q])
  BY DEF CommitSubmit, Enqueued, TypeOK
<1>4. run'[r].status = "queued" BY DEF CommitSubmit, TypeOK, NoRun
<1>5. queue'[r].status = "queued" \/ queue'[r] = queue[r]
  BY DEF CommitSubmit, Enqueued, TypeOK
<1>6. \A q \in Runs : Ended(q) => Ended(q)'
  BY <1>2, <1>3 DEF Ended, Terminal
<1> QED BY <1>1, <1>2, <1>3, <1>4, <1>5, <1>6, WorkerFrame DEF TypeOK

LEMMA WorkerEnsure ==
  ASSUME TypeOK, WorkerInv, NEW c \in Clients, Recovering(c)
  PROVE  WorkerInv'
<1>1. /\ owner = None /\ sup' = sup
      /\ queue' = queue \/ queue' = Without(queue, Claimed)
  BY DEF Recovering, EnsureInterrupts, EnsureSettles, EnsureLaunches, Unattended, procs
<1>2. \A w \in Workers : sup'[w].pc \notin Holding BY <1>1, NoHolder
<1>3. Without(queue, Claimed) = queue' => Claimed' = {}
  BY WithoutStatus DEF Claimed, TypeOK
<1>4. Claimed' \subseteq Claimed BY <1>1, <1>3 DEF Claimed
<1>5. claim' = claim \/ Claimed' = {}
  <2>1. ASSUME NEW w \in Workers, NEW n \in 1..3, EnsureLaunches(c, w, n)
        PROVE  claim' = claim \/ Claimed' = {}
    BY <1>3, <2>1 DEF EnsureLaunches
  <2> QED BY <2>1 DEF Recovering, EnsureInterrupts, EnsureSettles
<1>6. \A r \in Runs : run'[r].status = "running" =>
        run[r].status = "running" /\ r \notin Lost
  <2>1. run' = Settled(Lost, "interrupted") \/ (run' = run /\ Lost = {})
    BY DEF Recovering, EnsureInterrupts, EnsureSettles, EnsureLaunches
  <2> QED BY <2>1, SettledStatus
<1>7. \A r \in Runs : run'[r].status # "running"
  BY <1>6 DEF WorkerInv, RunningHasEntry, Lost, Claimed, Ended, Paused, Terminal
<1>8. RunningHasEntry' BY <1>7 DEF RunningHasEntry
<1>9. \A r, q \in Claimed' : r = q BY <1>4 DEF WorkerInv, OneClaimed
<1> QED BY <1>2, <1>4, <1>5, <1>8, <1>9, WorkerNobody DEF WorkerInv

LEMMA WorkerLaunch ==
  ASSUME TypeOK, WorkerInv, NEW c \in Clients,
         \/ LaunchSpawn(c)
         \/ \E P, S \in SUBSET Runs, f \in BOOLEAN : LaunchFailed(c, P, S, f)
  PROVE  WorkerInv'
<1>1. CASE LaunchSpawn(c)
  <2>1. UNCHANGED <<run, control, owner>> BY <1>1 DEF LaunchSpawn, work
  <2>2. \A w \in Workers : sup'[w].pc = "booting" \/ sup'[w] = sup[w]
    BY <1>1 DEF LaunchSpawn, In, TypeOK
  <2> USE DEF control
  <2> QED BY <2>1, <2>2, WorkerFrame DEF TypeOK, Ended
<1>2. ASSUME NEW P \in SUBSET Runs, NEW S \in SUBSET Runs, NEW f \in BOOLEAN,
             LaunchFailed(c, P, S, f)
      PROVE  WorkerInv'
  <2>1. /\ owner = None /\ sup' = sup /\ claim'.state = "failed"
        /\ queue' = queue \/ queue' = Without(queue, Entries)
    BY <1>2 DEF LaunchFailed, procs, TypeOK, Claim
  <2>2. \A w \in Workers : sup'[w].pc \notin Holding BY <2>1, NoHolder
  <2>3. Without(queue, Entries) = queue' => Claimed' = {} /\ Entries \subseteq P
    BY <1>2, <2>1, WithoutStatus DEF Claimed, Entries, TypeOK, LaunchFailed
  <2>4. \A r, q \in Claimed' : r = q
    BY <2>1, <2>3 DEF WorkerInv, OneClaimed, Claimed
  <2>5. \A r \in Runs : run'[r].status = "running" => run[r].status = "running" /\ r \notin P
    <3>1. run' = Settled({r \in P : ~Ended(r)}, "failed") BY <1>2 DEF LaunchFailed
    <3> QED BY <3>1, SettledStatus DEF Ended, Terminal
  <2>6. RunningHasEntry'
    BY <2>1, <2>3, <2>5 DEF WorkerInv, RunningHasEntry, Entries
  <2> QED BY <2>1, <2>2, <2>4, <2>6, WorkerNobody
<1> QED BY <1>1, <1>2

\* Steps of a supervisor that write no run and no queue.
LEMMA WorkerStarts ==
  ASSUME TypeOK, WorkerInv, NEW w \in Workers,
         \/ Boot(w) \/ BootBlocked(w) \/ CheckClaim(w) \/ PublishReady(w)
         \/ Exit(w) \/ Kill(w)
  PROVE  WorkerInv'
<1> USE DEF control
<1>1. /\ UNCHANGED <<run, queue, recovery>>
      /\ \A v \in Workers \ {w} : sup'[v] = sup[v]
      /\ Claimed' = Claimed
  BY DEF Boot, BootBlocked, CheckClaim, PublishReady, Exit, Kill, work, TypeOK, Claimed
<1>2. RunningHasEntry' /\ \A r, q \in Claimed' : r = q
  BY <1>1 DEF WorkerInv, RunningHasEntry, OneClaimed
<1>3. CASE Boot(w)
  <2>1. \A v \in Workers \ {w} : sup'[v].pc \notin Holding
    BY <1>1, <1>3, NoHolder DEF Boot
  <2>2. sup'[w].pc = "locked" /\ owner' = w /\ claim' = claim
    BY <1>3 DEF Boot, In, TypeOK
  <2> QED BY <1>1, <1>2, <2>1, <2>2, WorkerAlone DEF WorkerInv, Active
<1>4. CASE BootBlocked(w)
  <2>1. sup'[w].pc = "none" /\ UNCHANGED <<claim, owner>>
    BY <1>4 DEF BootBlocked, Dead, TypeOK
  <2> QED BY <1>1, <2>1, WorkerFrame DEF TypeOK, Ended
<1>5. CASE CheckClaim(w)
  <2>1. /\ owner = w /\ UNCHANGED <<claim, owner>>
        /\ \/ sup'[w].pc = "stopping"
           \/ /\ sup'[w].pc = "serving" /\ ~recovery
              /\ claim = [id |-> w, state |-> "starting"]
    BY <1>5 DEF CheckClaim, Selected, WorkerInv, Holding, In, TypeOK
  <2>2. \A v \in Workers \ {w} : sup'[v].pc \notin Holding
    BY <1>1, <2>1, OneHolder
  <2> QED BY <1>1, <1>2, <2>1, <2>2, WorkerAlone DEF WorkerInv, Active
<1>6. CASE PublishReady(w)
  <2>1. /\ owner = w /\ owner' = owner /\ sup[w].pc = "serving"
        /\ sup'[w].pc = "idle" /\ ~recovery /\ Claimed = {}
        /\ claim' = [id |-> w, state |-> "ready"]
    BY <1>6
    DEF PublishReady, WorkerInv, RecoveryHalts, Holding, Active, In, TypeOK, Claim
  <2>2. \A v \in Workers \ {w} : sup'[v].pc \notin Holding
    BY <1>1, <2>1, OneHolder
  <2> QED BY <1>1, <1>2, <2>1, <2>2, WorkerAlone
<1>7. CASE Exit(w) \/ Kill(w)
  <2>1. sup'[w].pc = "none" /\ claim' = claim
    BY <1>7 DEF Exit, Kill, Dead, TypeOK
  <2>2. CASE owner = w
    <3>1. \A v \in Workers : sup'[v].pc \notin Holding
      BY <1>1, <2>1, <2>2, OneHolder DEF Holding, Active
    <3> QED BY <1>1, <1>2, <2>1, <3>1, WorkerNobody DEF WorkerInv
  <2>3. CASE owner # w
    <3>1. owner' = owner BY <1>7, <2>3 DEF Exit, Kill, WorkerInv, Holding
    <3> QED BY <1>1, <2>1, <3>1, WorkerFrame DEF TypeOK, Ended
  <2> QED BY <2>2, <2>3
<1> QED BY <1>3, <1>4, <1>5, <1>6, <1>7

LEMMA ProceedsHold ==
  ASSUME TypeOK, WorkerInv, NEW w \in Workers, sup[w].pc \in Holding,
         NEW f \in BOOLEAN, NEW to, Proceeds(w, f, to)
  PROVE  /\ owner = w
         /\ f => /\ owner' = w /\ sup'[w] = to
                 /\ \A v \in Workers \ {w} : sup'[v].pc \notin Holding
         /\ ~f => \A v \in Workers : sup'[v].pc \notin Holding
<1>1. owner = w BY DEF WorkerInv
<1>2. \A v \in Workers \ {w} : sup[v].pc \notin Holding BY <1>1, OneHolder
<1>3. sup' = [sup EXCEPT ![w] = IF f THEN to ELSE Dead] /\ sup \in [Workers -> Supervisor]
  BY DEF Proceeds, TypeOK
<1>4. \A v \in Workers \ {w} : sup'[v].pc \notin Holding BY <1>2, <1>3
<1>5. ~f => sup'[w].pc \notin Holding BY <1>3 DEF Dead, Holding, Active
<1> QED BY <1>1, <1>3, <1>4, <1>5 DEF Proceeds

LEMMA WorkerTake ==
  ASSUME TypeOK, WorkerInv, NEW w \in Workers, NEW r \in Runs, NEW n \in 1..3,
         Take(w, r, n)
  PROVE  WorkerInv'
<1> DEFINE to == [pc |-> "executing", run |-> r, event |-> FALSE]
<1>1. /\ Proceeds(w, n = 3, to) /\ sup[w].pc = "idle" /\ sup[w].pc \in Holding
      /\ claim' = claim /\ recovery' = recovery
  BY DEF Take, Holding, Active
<1>2. /\ owner = w
      /\ n = 3 => /\ owner' = w /\ sup'[w] = to
                  /\ \A v \in Workers \ {w} : sup'[v].pc \notin Holding
      /\ n # 3 => \A v \in Workers : sup'[v].pc \notin Holding
  <2> HIDE DEF to
  <2> QED BY <1>1, ProceedsHold
<1>3. /\ claim = [id |-> w, state |-> "ready"] /\ ~recovery /\ Claimed = {}
  BY <1>1 DEF WorkerInv, OneClaimed, RecoveryHalts, Active
<1>4. Without(queue, queue[r].after) \in [Runs -> Entry]
  BY WithoutType DEF TypeOK
<1>5. \A q \in Runs : queue'[q].status = "claimed" <=> q = r
  <2>1. queue'[r].status = "claimed" BY <1>4 DEF Take, Entry
  <2>2. ASSUME NEW q \in Runs, q # r PROVE queue'[q].status # "claimed"
    <3>1. queue'[q] = Without(queue, queue[r].after)[q] BY <1>4, <2>2 DEF Take
    <3>2. queue[q].status # "claimed" BY <1>3 DEF Claimed
    <3>3. queue \in [Runs -> Entry] BY DEF TypeOK
    <3>4. \/ Without(queue, queue[r].after)[q].status = "absent"
          \/ Without(queue, queue[r].after)[q].status = queue[q].status
      BY <3>3, WithoutStatus
    <3> QED BY <3>1, <3>2, <3>4
  <2> QED BY <2>1, <2>2
<1>6. queue'[r].worker = w BY <1>4 DEF Take, Entry
<1>7. Claimed' = {r} BY <1>5 DEF Claimed
<1>8. \A q \in Runs : q # r => run'[q] = run[q] BY DEF Take, TypeOK
<1>9. RunningHasEntry'
  <2> SUFFICES ASSUME NEW q \in Runs, run'[q].status = "running" PROVE q = r
    BY <1>5 DEF RunningHasEntry
  <2> QED BY <1>3, <1>8 DEF WorkerInv, RunningHasEntry, Claimed
<1>10. CASE n = 3
  <2>1. run'[r].status = "running" /\ run'[r].worker = w
    BY <1>10 DEF Take, TypeOK, RunRecord
  <2>2. sup'[w].pc = "executing" /\ sup'[w].run = r BY <1>2, <1>10
  <2> QED BY <1>1, <1>2, <1>3, <1>5, <1>6, <1>7, <1>9, <1>10, <2>1, <2>2, WorkerAlone
<1>11. CASE n # 3
  BY <1>1, <1>2, <1>3, <1>7, <1>9, <1>11, WorkerNobody
<1> QED BY <1>10, <1>11

\* Dropping entries while nothing is claimed.
LEMMA WorkerDrop ==
  ASSUME TypeOK, WorkerInv, NEW w \in Workers,
         Stop(w) \/ \E P, S \in SUBSET Runs : TakeDies(w, P, S)
  PROVE  WorkerInv'
<1>1. /\ sup[w].pc = "idle" /\ sup[w].pc \in Holding
      /\ run' = run /\ recovery' = recovery
  BY DEF Stop, TakeDies, Holding, Active
<1>2. Claimed = {} BY <1>1 DEF WorkerInv, OneClaimed
<1>3. PICK D : queue' = Without(queue, D) BY DEF Stop, TakeDies
<1>4. Claimed' = {} BY <1>2, <1>3, WithoutStatus DEF Claimed, TypeOK
<1>5. RunningHasEntry' BY <1>1, <1>2 DEF WorkerInv, RunningHasEntry, Claimed
<1>6. CASE Stop(w)
  <2> DEFINE to == In("stopping")
  <2>1. Proceeds(w, TRUE, to) /\ to.pc = "stopping" BY <1>6 DEF Stop, In
  <2> HIDE DEF to
  <2>2. /\ owner' = w /\ sup'[w] = to
        /\ \A v \in Workers \ {w} : sup'[v].pc \notin Holding
    BY <1>1, <2>1, ProceedsHold
  <2> QED BY <1>4, <1>5, <2>1, <2>2, WorkerAlone DEF Active
<1>7. ASSUME NEW P \in SUBSET Runs, NEW S \in SUBSET Runs, TakeDies(w, P, S)
      PROVE  WorkerInv'
  <2>1. Proceeds(w, FALSE, Dead) BY <1>7 DEF TakeDies
  <2>2. \A v \in Workers : sup'[v].pc \notin Holding BY <1>1, <2>1, ProceedsHold
  <2> QED BY <1>4, <1>5, <2>2, WorkerNobody
<1> QED BY <1>6, <1>7
LEMMA FinishedStatus ==
  ASSUME TypeOK, NEW w \in Workers, sup[w].run \in Runs, NEW o \in Outcomes
  PROVE  /\ \A q \in Runs : q # sup[w].run => Finished(w, o)[q] = run[q]
         /\ Ended(sup[w].run) => Finished(w, o) = run
         /\ ~Ended(sup[w].run) =>
              Finished(w, o)[sup[w].run].status \in Terminal \cup {"awaiting_visual_review"}
BY DEF Finished, Asked, Outcomes, TypeOK, RunRecord, RunStatus, Terminal, Ended

LEMMA WorkerFinish ==
  ASSUME TypeOK, WorkerInv, NEW w \in Workers, NEW o \in Outcomes, NEW n \in 1..3,
         Finish(w, o, n)
  PROVE  WorkerInv'
<1> DEFINE r == sup[w].run
           to == In("idle")
<1>1. /\ sup[w].pc = "executing" /\ sup[w].pc \in Holding /\ r \in Runs
      /\ run' = Finished(w, o) /\ claim' = claim /\ recovery' = recovery
      /\ Proceeds(w, n = 3, to) /\ to.pc = "idle"
  BY DEF Finish, Holding, Active, TypeOK, In
<1>2. /\ owner = w
      /\ n = 3 => /\ owner' = w /\ sup'[w] = to
                  /\ \A v \in Workers \ {w} : sup'[v].pc \notin Holding
      /\ n # 3 => \A v \in Workers : sup'[v].pc \notin Holding
  <2> HIDE DEF r, to
  <2> QED BY <1>1, ProceedsHold
<1>3. Claimed \subseteq {r} /\ claim = [id |-> w, state |-> "ready"] /\ ~recovery
  BY <1>1 DEF WorkerInv, RecoveryHalts, Active
<1>4. \A q \in Runs : run'[q].status # "running"
  <2> SUFFICES ASSUME NEW q \in Runs, run'[q].status = "running" PROVE FALSE
    OBVIOUS
  <2>1. q = r
    BY <1>1, <1>3, FinishedStatus DEF WorkerInv, RunningHasEntry, Claimed
  <2> QED BY <1>1, <2>1, FinishedStatus DEF Terminal, Ended
<1>5. RunningHasEntry' BY <1>4 DEF RunningHasEntry
<1>6. queue' = IF n = 3 THEN Without(queue, {r}) ELSE queue BY DEF Finish
<1>7. Claimed' \subseteq {r} /\ (n = 3 => Claimed' = {})
  <2> HIDE DEF r
  <2>1. \A q \in Claimed' : q \in Claimed /\ (n = 3 => q # r)
    BY <1>1, <1>6, WithoutStatus DEF Claimed, TypeOK
  <2> QED BY <1>3, <2>1
<1>8. CASE n = 3
  BY <1>1, <1>2, <1>3, <1>5, <1>7, <1>8, WorkerAlone
<1>9. CASE n # 3
  BY <1>1, <1>2, <1>3, <1>5, <1>7, <1>9, WorkerNobody
<1> QED BY <1>8, <1>9

LEMMA WorkerFinishBusy ==
  ASSUME TypeOK, WorkerInv, NEW w \in Workers, NEW o \in Outcomes, FinishBusy(w, o)
  PROVE  WorkerInv'
<1> USE DEF control
<1>1. PICK r \in Runs : r = sup[w].run BY DEF FinishBusy, TypeOK
<1>2. /\ owner = w /\ owner' = w /\ UNCHANGED control
      /\ claim = [id |-> w, state |-> "ready"] /\ Claimed \subseteq {r}
  BY <1>1 DEF FinishBusy, WorkerInv, Holding, Active
<1>3. sup'[w].pc = "stopping" /\ \A v \in Workers \ {w} : sup'[v].pc \notin Holding
  BY <1>2, OneHolder DEF FinishBusy, In, TypeOK
<1>4. \A q \in Runs : run'[q].status # "running"
  <2> SUFFICES ASSUME NEW q \in Runs, run'[q].status = "running" PROVE FALSE
    OBVIOUS
  <2>1. run' = Finished(w, o) BY DEF FinishBusy
  <2>2. q = r
    BY <1>1, <1>2, <2>1, FinishedStatus DEF WorkerInv, RunningHasEntry, Claimed
  <2> QED BY <1>1, <2>1, <2>2, FinishedStatus DEF Terminal, Ended
<1>5. RunningHasEntry' BY <1>4 DEF RunningHasEntry
<1>6. Claimed' \subseteq {r} BY <1>2 DEF Claimed
<1> QED BY <1>2, <1>3, <1>5, <1>6, WorkerAlone DEF Active

LEMMA WorkerBudget ==
  ASSUME TypeOK, WorkerInv, NEW w \in Workers, BudgetFail(w)
  PROVE  WorkerInv'
<1>1. PICK r \in Runs : r = sup[w].run BY DEF BudgetFail, TypeOK
<1>2. UNCHANGED <<control, owner, sup>> /\ run' = Settled({r}, "failed") /\ ~Ended(r)
  BY <1>1 DEF BudgetFail, procs
<1>3. \A q \in Runs : /\ Ended(q) => Ended(q)'
                      /\ run'[q].status = "running" => run[q].status = "running"
                      /\ run[q].status = "running" /\ ~Ended(q)' =>
                           run'[q].status = "running" /\ run'[q].worker = run[q].worker
  BY <1>2, SettledStatus DEF Ended, Terminal
<1> QED BY <1>2, <1>3, WorkerRunsOnly

LEMMA WorkerCancel ==
  ASSUME TypeOK, WorkerInv, Cancelling \/ Delivering
  PROVE  WorkerInv'
<1>1. ASSUME NEW r \in Runs, NEW n \in 1..3, CancelQueued(r, n) PROVE WorkerInv'
  <2>1. /\ UNCHANGED <<recovery, claim, owner, sup>>
        /\ run[r].status \notin Terminal \cup {"running"}
        /\ run' = [run EXCEPT ![r].status = "cancelled", ![r].cancel = TRUE]
        /\ queue' = Without(queue, {r}) \/ queue' = queue
    BY <1>1 DEF CancelQueued, Cancellable, NoWorker, procs
  <2>2. run'[r].status = "cancelled" /\ \A q \in Runs : q # r => run'[q] = run[q]
    BY <2>1 DEF TypeOK, RunRecord
  <2>3. \A q \in Runs :
           /\ Ended(q) => Ended(q)'
           /\ run'[q].status = "running" => run[q].status = "running"
           /\ run[q].status = "running" /\ ~Ended(q)' =>
                run'[q].status = "running" /\ run'[q].worker = run[q].worker
    BY <2>1, <2>2 DEF Ended, Terminal
  <2>4. \A q \in Runs :
           /\ queue'[q].status = "claimed" => queue[q].status = "claimed"
           /\ queue[q].status = "claimed" /\ run'[q].status = "running" =>
                queue'[q].status = "claimed" /\ queue'[q].worker = queue[q].worker
    BY <2>1, <2>2, WithoutStatus DEF TypeOK
  <2> QED BY <2>1, <2>3, <2>4, WorkerFrame DEF TypeOK
<1>2. ASSUME NEW r \in Runs, NEW full \in BOOLEAN, NEW n \in 1..3,
             CancelActive(r, full, n)
      PROVE  WorkerInv'
  <2>1. UNCHANGED <<control, owner, sup>> /\ run[r].status \notin Terminal
    BY <1>2 DEF CancelActive, Cancellable
  <2>2. PICK rn : /\ rn = run \/ rn = Settled({r}, "failed")
                  /\ run' = [rn EXCEPT ![r].cancel = TRUE]
    BY <1>2 DEF CancelActive
  <2>3. rn \in [Runs -> RunRecord]
    BY <2>2, SettledType DEF TypeOK, RunStatus, Terminal
  <2>4. \A q \in Runs : run'[q].status = rn[q].status /\ run'[q].worker = rn[q].worker
    BY <2>2, <2>3 DEF RunRecord
  <2>5. \A q \in Runs : \/ run'[q].status = run[q].status /\ run'[q].worker = run[q].worker
                        \/ run'[q].status = "failed" /\ q = r
    BY <2>2, <2>4, SettledStatus
  <2>6. \A q \in Runs :
           /\ Ended(q) => Ended(q)'
           /\ run'[q].status = "running" => run[q].status = "running"
           /\ run[q].status = "running" /\ ~Ended(q)' =>
                run'[q].status = "running" /\ run'[q].worker = run[q].worker
    BY <2>1, <2>5 DEF Ended, Terminal
  <2> QED BY <2>1, <2>6, WorkerRunsOnly
<1>3. ASSUME NEW w \in Workers, NEW r \in Runs, NEW ok \in BOOLEAN, Deliver(w, r, ok)
      PROVE  WorkerInv'
  <2> USE DEF control
  <2>1. UNCHANGED <<run, control, owner>> BY <1>3 DEF Deliver, work
  <2>2. \A v \in Workers : sup'[v].pc = sup[v].pc /\ sup'[v].run = sup[v].run
    BY <1>3 DEF Deliver, TypeOK, Supervisor
  <2> QED BY <2>1, <2>2, WorkerFrame DEF TypeOK, Ended
<1> QED BY <1>1, <1>2, <1>3 DEF Cancelling, Delivering

LEMMA WorkerReview ==
  ASSUME TypeOK, WorkerInv, Reviewing
  PROVE  WorkerInv'
<1>1. ASSUME NEW a \in Analyses, Revise(a) \/ Approve(a) PROVE WorkerInv'
  BY <1>1, WorkerSilent DEF Revise, Approve, procs
<1>2. ASSUME NEW r \in Runs, Recover(r) PROVE WorkerInv'
  BY <1>2, WorkerSilent DEF Recover, procs
<1>3. ASSUME NEW r \in Runs, NEW n \in 1..4, Finalize(r, n) PROVE WorkerInv'
  <2>1. UNCHANGED <<control, owner, sup>> BY <1>3 DEF Finalize, procs
  <2>2. \A q \in Runs : /\ Ended(q) => Ended(q)'
                        /\ run'[q].status = "running" => run[q].status = "running"
                        /\ run[q].status = "running" /\ ~Ended(q)' =>
                             run'[q].status = "running" /\ run'[q].worker = run[q].worker
    BY <1>3, PresentedRun DEF Ended, Terminal, Paused
  <2> QED BY <2>1, <2>2, WorkerRunsOnly
<1> QED BY <1>1, <1>2, <1>3 DEF Reviewing

\* Client steps that only move the client.
LEMMA WorkerMoves ==
  ASSUME TypeOK, WorkerInv, NEW c \in Clients,
         \/ EnsureNothing(c) \/ LaunchReturns(c) \/ LaunchRaises(c) \/ LaunchSpared(c)
         \/ SubmitRejected(c) \/ ClientDies(c)
         \/ \E k \in Keys, p \in Runs \cup {None} : CheckSubmit(c, k, p)
  PROVE  WorkerInv'
<1>1. UNCHANGED <<run, control, owner, sup>>
  BY DEF EnsureNothing, LaunchReturns, LaunchRaises, LaunchSpared, SubmitRejected,
         ClientDies, CheckSubmit, work, procs
<1> QED BY <1>1, WorkerSilent

LEMMA WorkerStep == TypeOK /\ WorkerInv /\ [Next]_vars => WorkerInv'
<1> SUFFICES ASSUME TypeOK, WorkerInv, [Next]_vars PROVE WorkerInv' OBVIOUS
<1>1. ASSUME NEW c \in Clients, ClientNext(c) PROVE WorkerInv'
  <2>1. ASSUME NEW r \in Runs, NEW n \in 1..3, Resubmit(c, r, n) \/ CommitExisting(c, r, n)
        PROVE  WorkerInv'
    BY <2>1, WorkerRepaired DEF Resubmit, CommitExisting
  <2> QED BY <1>1, <2>1, WorkerReconcile, WorkerEnsure, WorkerLaunch, WorkerCommit,
             WorkerMoves
          DEF ClientNext, Reconciling, Launching, Submitting
<1>2. ASSUME NEW w \in Workers, SupervisorNext(w) PROVE WorkerInv'
  BY <1>2, WorkerStarts, WorkerTake, WorkerDrop, WorkerFinish, WorkerFinishBusy,
     WorkerBudget
  DEF SupervisorNext, Supervising
<1>3. CASE UNCHANGED vars
  BY <1>3, WorkerSilent DEF vars, work, procs
<1> QED BY <1>1, <1>2, <1>3, WorkerCancel, WorkerReview DEF Next

-----------------------------------------------------------------------------
(* Theorems *)

\* The worker invariant, for any number of workers, clients, runs and crashes.
THEOREM WorkersCorrect == Spec => []WorkerInv
BY TypeCorrect, WorkerInit, WorkerStep, PTL DEF Spec

\* A supervisor that got past its claim check holds worker.lock alone, and the
\* claim cannot be pulled from under it.
THEOREM ClaimStaysPinned == Spec => []ClaimPinned
<1>1. WorkerInv => ClaimPinned
  BY DEF WorkerInv, ClaimPinned, RecoveryHalts, Holding, Active
<1> QED BY <1>1, WorkersCorrect, PTL

\* While the queue demands recovery nothing executes.
THEOREM RecoveryStopsWork == Spec => []RecoveryHalts
<1>1. WorkerInv => RecoveryHalts BY DEF WorkerInv
<1> QED BY <1>1, WorkersCorrect, PTL

\* One run at most is claimed, and none while the supervisor is idle.
THEOREM OneRunClaimed == Spec => []OneClaimed
<1>1. WorkerInv => OneClaimed BY DEF WorkerInv
<1> QED BY <1>1, WorkersCorrect, PTL

\* What executes is claimed by, and stamped with, the worker executing it.
THEOREM ExecutionIsOwned == Spec => []ExecutionOwned
<1>1. WorkerInv => ExecutionOwned BY DEF WorkerInv
<1> QED BY <1>1, WorkersCorrect, PTL

\* A run that says running has the claimed entry recovery goes by.
THEOREM RunningRunsAreFound == Spec => []RunningHasEntry
<1>1. WorkerInv => RunningHasEntry BY DEF WorkerInv
<1> QED BY <1>1, WorkersCorrect, PTL
================================================================================
