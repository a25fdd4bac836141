----------------------- MODULE FeaSchedulerRuns_proofs -----------------------
(***************************************************************************)
(* Theorems about the run records of FeaScheduler: run.json only takes the *)
(* steps of a RunLedger, from which it inherits what is promised about     *)
(* cancellations, and a key gets one run.                                  *)
(***************************************************************************)
EXTENDS FeaScheduler_proofs

\* What the files say of each other beside the analyses: only a run that
\* exists has an entry, an index, a cancellation or a packet, and only one that
\* was started has a worker.
Recorded ==
  /\ \A r \in Runs : run[r].status = "absent" =>
       ~run[r].cancel /\ r \notin Entries /\ r \notin outdated
  /\ \A r \in Runs : run[r].status \in {"queued", "awaiting_visual_review"} =>
       run[r].worker = None
  /\ \A r \in Runs : Paused(r) => queue[r].status # "queued"
  /\ \A k \in Keys : index[k] # None =>
       KeyOf[index[k]] = k /\ run[index[k]].status # "absent"
  /\ \A w \in Workers, r \in Runs : <<w, r>> \in signals => run[r].cancel
  /\ \A w \in Workers : sup[w].event =>
       sup[w].pc = "executing" /\ run[sup[w].run].cancel
  /\ \A c \in Clients : client[c].pc = "checked" => client[c].key \in Keys

-----------------------------------------------------------------------------
(* The holder of the ledger is the run of the one executing supervisor. *)

LEMMA HolderNone ==
  ASSUME \A w \in Workers : sup[w].pc # "executing"
  PROVE  Holder = None
BY DEF Holder, Executing

LEMMA HolderIs ==
  ASSUME WorkerInv, NEW w \in Workers, sup[w].pc = "executing"
  PROVE  Holder = sup[w].run
<1>1. \A v \in Executing : v = w BY DEF Executing, WorkerInv, Holding, Active
<1>2. w \in Executing BY DEF Executing
<1>3. (CHOOSE v \in Executing : TRUE) = w BY <1>1, <1>2
<1> QED BY <1>2, <1>3 DEF Holder

LEMMA HolderKept ==
  ASSUME \A w \in Workers : /\ sup'[w].pc = "executing" <=> sup[w].pc = "executing"
                            /\ sup[w].pc = "executing" => sup'[w].run = sup[w].run
  PROVE  Holder' = Holder
<1>1. Executing' = Executing BY DEF Executing
<1>2. Executing # {} => (CHOOSE w \in Executing : TRUE) \in Executing OBVIOUS
<1>3. CASE Executing = {} BY <1>1, <1>3 DEF Holder
<1>4. CASE Executing # {}
  <2> DEFINE w == CHOOSE v \in Executing : TRUE
  <2>1. w \in Workers /\ sup[w].pc = "executing" BY <1>2, <1>4 DEF Executing
  <2>2. Holder = sup[w].run /\ Holder' = sup'[w].run BY <1>1, <1>4 DEF Holder
  <2> QED BY <2>1, <2>2
<1> QED BY <1>3, <1>4

\* Nobody executes when worker.lock is free, or when its holder does not.
LEMMA HolderIdle ==
  ASSUME WorkerInv, owner = None \/ \E w \in Workers : owner = w /\ sup[w].pc # "executing"
  PROVE  Holder = None
<1>1. \A w \in Workers : sup[w].pc # "executing"
  BY SchedulerAssumption DEF WorkerInv, Holding, Active
<1> QED BY <1>1, HolderNone

-----------------------------------------------------------------------------
(* The steps of the ledger, record by record. *)

LEMMA LedgerStutter ==
  ASSUME \A r \in Runs : run'[r].status = run[r].status /\ run'[r].cancel = run[r].cancel,
         Holder' = Holder \/ Holder' = None
  PROVE  [Ledger!Next]_(Ledger!vars)
<1>1. [r \in Runs |-> run'[r].status] = [r \in Runs |-> run[r].status] OBVIOUS
<1>2. {r \in Runs : run'[r].cancel} = {r \in Runs : run[r].cancel} OBVIOUS
<1>3. CASE Holder' = Holder BY <1>1, <1>2, <1>3 DEF Ledger!vars
<1>4. CASE Holder' = None BY <1>1, <1>2, <1>4 DEF Ledger!Next, Ledger!Drop
<1> QED BY <1>3, <1>4

LEMMA LedgerSubmit ==
  ASSUME NEW r \in Runs, run[r].status = "absent", run'[r].status = "queued",
         \A q \in Runs \ {r} : run'[q] = run[q], run'[r].cancel = run[r].cancel,
         Holder' = Holder
  PROVE  [Ledger!Next]_(Ledger!vars)
<1>1. [q \in Runs |-> run'[q].status] = [[q \in Runs |-> run[q].status] EXCEPT ![r] = "queued"]
  OBVIOUS
<1>2. {q \in Runs : run'[q].cancel} = {q \in Runs : run[q].cancel} OBVIOUS
<1>3. Ledger!Submit(r) BY <1>1, <1>2 DEF Ledger!Submit
<1> QED BY <1>3 DEF Ledger!Next

LEMMA LedgerStart ==
  ASSUME NEW r \in Runs, run[r].status = "queued", run'[r].status = "running",
         \A q \in Runs \ {r} : run'[q] = run[q], run'[r].cancel = run[r].cancel,
         Holder = None, Holder' \in {None, r}
  PROVE  [Ledger!Next]_(Ledger!vars)
<1>1. [q \in Runs |-> run'[q].status] = [[q \in Runs |-> run[q].status] EXCEPT ![r] = "running"]
  OBVIOUS
<1>2. {q \in Runs : run'[q].cancel} = {q \in Runs : run[q].cancel} OBVIOUS
<1>3. Ledger!Start(r) BY <1>1, <1>2 DEF Ledger!Start
<1> QED BY <1>3 DEF Ledger!Next

LEMMA LedgerEnd ==
  ASSUME NEW r \in Runs, run[r].status = "running", Holder = r, Holder' = None,
         \A q \in Runs \ {r} : run'[q] = run[q], run'[r].cancel = run[r].cancel,
         IF run[r].cancel THEN run'[r].status = "cancelled"
         ELSE run'[r].status \in {"awaiting_visual_review", "failed", "timed_out", "interrupted"}
  PROVE  [Ledger!Next]_(Ledger!vars)
<1>1. PICK st \in {"awaiting_visual_review"} \cup Ledger!Unsuccessful :
        st = run'[r].status
  BY DEF Ledger!Unsuccessful
<1>2. [q \in Runs |-> run'[q].status] = [[q \in Runs |-> run[q].status] EXCEPT ![r] = st]
  BY <1>1
<1>3. {q \in Runs : run'[q].cancel} = {q \in Runs : run[q].cancel} OBVIOUS
<1>4. IF run[r].cancel THEN st = "cancelled"
      ELSE st \in {"awaiting_visual_review", "failed", "timed_out", "interrupted"}
  BY <1>1
<1>5. Ledger!End(r, st) BY <1>2, <1>3, <1>4 DEF Ledger!End
<1> QED BY <1>5 DEF Ledger!Next

LEMMA LedgerClose ==
  ASSUME NEW S \in SUBSET Runs, NEW st \in {"failed", "interrupted"},
         \A r \in S : ~Ended(r) /\ run[r].status # "absent",
         TypeOK, run' = Settled(S, st), Holder' = Holder
  PROVE  [Ledger!Next]_(Ledger!vars)
<1>1. \A r \in Runs : /\ r \in S => run'[r].status = st
                      /\ r \notin S => run'[r].status = run[r].status
                      /\ run'[r].cancel = run[r].cancel
  BY DEF Settled, TypeOK, RunRecord
<1>2. [q \in Runs |-> run'[q].status]
        = [q \in Runs |-> IF q \in S THEN st ELSE [p \in Runs |-> run[p].status][q]]
  BY <1>1
<1>3. {q \in Runs : run'[q].cancel} = {q \in Runs : run[q].cancel} BY <1>1
<1>4. \A r \in S : [p \in Runs |-> run[p].status][r] \in Ledger!Unfinished
  BY DEF Ledger!Unfinished, Ended, Terminal, TypeOK, RunRecord, RunStatus
<1>5. Ledger!Close(S, st) BY <1>2, <1>3, <1>4 DEF Ledger!Close
<1> QED BY <1>5 DEF Ledger!Next

LEMMA LedgerAsk ==
  ASSUME NEW r \in Runs, \A q \in Runs \ {r} : run'[q] = run[q], run'[r].cancel,
         run[r].status \in {"queued", "running", "awaiting_visual_review"},
         \/ run[r].status = "running" /\ run'[r].status = "running"
         \/ run'[r].status = "cancelled" /\ Holder # r
         \/ run'[r].status = "failed",
         Holder' = Holder
  PROVE  [Ledger!Next]_(Ledger!vars)
<1> DEFINE status == [q \in Runs |-> run[q].status]
           after == [q \in Runs |-> run'[q].status]
<1>1. {q \in Runs : run'[q].cancel} = {q \in Runs : run[q].cancel} \cup {r} OBVIOUS
<1>2. \/ after = status /\ status[r] = "running"
      \/ after = [status EXCEPT ![r] = "cancelled"] /\ Holder # r
      \/ after = [status EXCEPT ![r] = "failed"]
  OBVIOUS
<1>3. Ledger!Ask(r) BY <1>1, <1>2 DEF Ledger!Ask, Ledger!Unfinished
<1> QED BY <1>3 DEF Ledger!Next

LEMMA LedgerComplete ==
  ASSUME NEW r \in Runs, Paused(r), ~run[r].cancel,
         run'[r].status = "completed", run'[r].cancel = run[r].cancel,
         \A q \in Runs \ {r} : run'[q] = run[q], Holder' = Holder
  PROVE  [Ledger!Next]_(Ledger!vars)
<1>1. \A q \in Runs : /\ q = r => run'[q].status = "completed"
                      /\ q # r => run'[q].status = run[q].status
                      /\ run'[q].cancel = run[q].cancel
  OBVIOUS
<1>2. [q \in Runs |-> run'[q].status] = [[q \in Runs |-> run[q].status] EXCEPT ![r] = "completed"]
  BY <1>1
<1>3. {q \in Runs : run'[q].cancel} = {q \in Runs : run[q].cancel} BY <1>1
<1>4. Ledger!Complete(r) BY <1>2, <1>3 DEF Ledger!Complete, Paused
<1> QED BY <1>4 DEF Ledger!Next

-----------------------------------------------------------------------------
(* Every step of the scheduler is a step of the ledger. *)

LEMMA EntryExists ==
  ASSUME Recorded, NEW r \in Runs, r \in Entries \/ queue[r].status \in {"queued", "claimed"}
  PROVE  run[r].status # "absent"
BY DEF Recorded, Entries

\* What a call finds under a key was created for it.
LEMMA FoundExists ==
  ASSUME TypeOK, Recorded, NEW c \in Clients, NEW r \in Runs, NEW n,
         Resubmit(c, r, n) \/ CommitExisting(c, r, n)
  PROVE  /\ r \in Matches(KeyOf[r]) /\ run[r].status # "absent" /\ Repaired(r, n)
         /\ Leaves(c, n = 3, At("ensure", FALSE), analysis')
<1>1. PICK k \in Keys : r \in Matches(k)
  BY SchedulerAssumption DEF Resubmit, CommitExisting, Recorded
<1>2. KeyOf[r] = k /\ run[r].status # "absent" BY <1>1 DEF Matches, Recorded
<1> QED BY <1>1, <1>2 DEF Resubmit, CommitExisting

\* Clients that do not write a run, and the writers of analysis.json.
LEMMA LedgerClientMoves ==
  ASSUME TypeOK, WorkerInv, Recorded,
         \/ \E c \in Clients : \/ Reconciling(c) \/ EnsureNothing(c) \/ SubmitRejected(c)
                               \/ LaunchReturns(c) \/ LaunchRaises(c) \/ LaunchSpared(c)
                               \/ ClientDies(c)
                               \/ \E k \in Keys, p \in Runs \cup {None} : CheckSubmit(c, k, p)
                               \/ \E n \in 1..2 : EnsureSettles(c, n)
                               \/ \E w \in Workers, n \in 1..3 : EnsureLaunches(c, w, n)
         \/ \E a \in Analyses : Revise(a) \/ Approve(a)
         \/ \E r \in Runs : Recover(r)
  PROVE  [Ledger!Next]_(Ledger!vars)
<1>1. run' = run /\ sup' = sup
  BY DEF Reconciling, Reconcile, EnsureNothing, SubmitRejected, LaunchReturns, LaunchRaises,
         LaunchSpared, ClientDies, CheckSubmit, EnsureSettles, EnsureLaunches, Revise,
         Approve, Recover, work, procs
<1>2. Holder' = Holder BY <1>1, HolderKept
<1> QED BY <1>1, <1>2, LedgerStutter

LEMMA LedgerRepaired ==
  ASSUME TypeOK, WorkerInv, Recorded, NEW r \in Runs, NEW n,
         run[r].status # "absent", Repaired(r, n)
  PROVE  [Ledger!Next]_(Ledger!vars)
<1>1. Holder' = Holder BY HolderKept DEF Repaired, procs
<1>2. CASE run' = run BY <1>1, <1>2, LedgerStutter
<1>3. CASE run' = Settled({r}, "interrupted") /\ ~Ended(r)
  BY <1>1, <1>3, LedgerClose
<1> QED BY <1>2, <1>3 DEF Repaired

LEMMA LedgerCommit ==
  ASSUME TypeOK, WorkerInv, Recorded, NEW c \in Clients, NEW r \in Runs, NEW n,
         CommitSubmit(c, r, n)
  PROVE  [Ledger!Next]_(Ledger!vars)
<1>1. Holder' = Holder BY HolderKept DEF CommitSubmit, procs
<1>2. run[r].status = "absent" BY DEF CommitSubmit, Committable, Matches
<1>3. ~run[r].cancel BY <1>2 DEF Recorded
<1>4. run[r] \in RunRecord BY DEF TypeOK
<1>5. /\ \A q \in Runs \ {r} : run'[q] = run[q]
      /\ run'[r].status = "queued" /\ run'[r].cancel = FALSE
  BY DEF CommitSubmit, TypeOK, NoRun
<1>6. run'[r].cancel = run[r].cancel BY <1>3, <1>4, <1>5 DEF RunRecord
<1> QED BY <1>1, <1>2, <1>5, <1>6, LedgerSubmit

LEMMA LedgerInterrupts ==
  ASSUME TypeOK, WorkerInv, Recorded, NEW c \in Clients, NEW n, EnsureInterrupts(c, n)
  PROVE  [Ledger!Next]_(Ledger!vars)
<1>1. Holder' = Holder BY HolderKept DEF EnsureInterrupts, procs
<1>2. Lost \subseteq Runs /\ \A r \in Lost : ~Ended(r) /\ run[r].status # "absent"
  BY EntryExists DEF Lost, Claimed
<1> QED BY <1>1, <1>2, LedgerClose DEF EnsureInterrupts

LEMMA LedgerLaunch ==
  ASSUME TypeOK, WorkerInv, Recorded, NEW c \in Clients,
         \/ LaunchSpawn(c)
         \/ \E P, S \in SUBSET Runs, f \in BOOLEAN : LaunchFailed(c, P, S, f)
  PROVE  [Ledger!Next]_(Ledger!vars)
<1>1. CASE LaunchSpawn(c)
  <2>1. run' = run /\ sup' = [sup EXCEPT ![client[c].worker] = In("booting")]
    BY <1>1 DEF LaunchSpawn, work
  <2>2. CASE \E w \in Workers : sup[w].pc = "executing" /\ sup'[w].pc # "executing"
    <3>1. PICK w \in Workers : sup[w].pc = "executing" /\ sup'[w].pc # "executing"
      BY <2>2
    <3>2. \A v \in Workers : sup'[v].pc # "executing"
      <4>1. sup'[w].pc = "booting" /\ \A v \in Workers \ {w} : sup'[v] = sup[v]
        BY <2>1, <3>1 DEF TypeOK, In
      <4>2. \A v \in Workers \ {w} : sup[v].pc # "executing"
        BY <3>1 DEF WorkerInv, Holding, Active
      <4> QED BY <4>1, <4>2
    <3>3. Holder' = None BY <3>2 DEF Holder, Executing
    <3> QED BY <2>1, <3>3, LedgerStutter
  <2>3. CASE \A w \in Workers : sup[w].pc = "executing" => sup'[w].pc = "executing"
    <3>1. \A w \in Workers : sup'[w] = sup[w] \/ sup'[w].pc = "booting"
      BY <2>1 DEF TypeOK, In
    <3>2. Holder' = Holder BY <2>3, <3>1, HolderKept
    <3> QED BY <2>1, <3>2, LedgerStutter
  <2> QED BY <2>2, <2>3
<1>2. ASSUME NEW P \in SUBSET Runs, NEW S \in SUBSET Runs, NEW f \in BOOLEAN,
             LaunchFailed(c, P, S, f)
      PROVE  [Ledger!Next]_(Ledger!vars)
  <2>1. Holder' = Holder BY <1>2, HolderKept DEF LaunchFailed, procs
  <2>2. \A r \in P : run[r].status # "absent"
    BY <1>2, EntryExists DEF LaunchFailed, Prefixes
  <2> QED BY <1>2, <2>1, <2>2, LedgerClose DEF LaunchFailed
<1> QED BY <1>1, <1>2

\* Steps of a supervisor that write no run: what it executed, if anything, is
\* executed no more.
LEMMA LedgerSupervisor ==
  ASSUME TypeOK, WorkerInv, NEW w \in Workers,
         \/ Boot(w) \/ BootBlocked(w) \/ CheckClaim(w) \/ PublishReady(w)
         \/ Exit(w) \/ Kill(w) \/ Stop(w)
         \/ \E P, S \in SUBSET Runs : TakeDies(w, P, S)
  PROVE  [Ledger!Next]_(Ledger!vars)
<1>1. run' = run
  BY DEF Boot, BootBlocked, CheckClaim, PublishReady, Exit, Kill, Stop, TakeDies, work
<1>2. sup'[w].pc # "executing" /\ \A v \in Workers \ {w} : sup'[v] = sup[v]
  <2>1. PICK to : to.pc # "executing" /\ sup' = [sup EXCEPT ![w] = to]
    BY DEF Boot, BootBlocked, CheckClaim, PublishReady, Exit, Kill, Stop, TakeDies,
           Proceeds, In, Dead
  <2> QED BY <2>1 DEF TypeOK
<1>3. CASE sup[w].pc = "executing"
  <2>1. \A v \in Workers \ {w} : sup[v].pc # "executing"
    BY <1>3 DEF WorkerInv, Holding, Active
  <2>2. Holder' = None BY <1>2, <2>1 DEF Holder, Executing
  <2> QED BY <1>1, <2>2, LedgerStutter
<1>4. CASE sup[w].pc # "executing"
  <2>1. Holder' = Holder BY <1>2, <1>4, HolderKept
  <2> QED BY <1>1, <2>1, LedgerStutter
<1> QED BY <1>3, <1>4

LEMMA LedgerTake ==
  ASSUME TypeOK, WorkerInv, Recorded, NEW w \in Workers, NEW r \in Runs, NEW n \in 1..3,
         Take(w, r, n)
  PROVE  [Ledger!Next]_(Ledger!vars)
<1>1. sup[w].pc = "idle" /\ sup[w].pc \in Holding BY DEF Take, Holding, Active
<1>2. \A v \in Workers : sup[v].pc # "executing"
  BY <1>1 DEF WorkerInv, Holding, Active
<1>3. Holder = None BY <1>2, HolderNone
<1>4. Holder' \in {None, r}
  <2>1. \/ sup' = [sup EXCEPT ![w] = Dead]
        \/ sup' = [sup EXCEPT ![w] = [pc |-> "executing", run |-> r, event |-> FALSE]]
    BY DEF Take, Proceeds
  <2>2. \A v \in Workers : sup'[v].pc = "executing" => v = w /\ sup'[v].run = r
    BY <1>2, <2>1 DEF Dead, TypeOK
  <2>3. Executing' # {} => (CHOOSE v \in Executing' : TRUE) \in Executing' OBVIOUS
  <2> QED BY <2>2, <2>3 DEF Holder, Executing
<1>5. run[r].status = "queued"
  BY EntryExists DEF Take, WorkerInv, RunningHasEntry, Recorded, Paused, Ended, TypeOK,
                     RunRecord, RunStatus
<1>6. CASE n = 1
  <2>1. run' = run /\ sup' = [sup EXCEPT ![w] = Dead] BY <1>6 DEF Take, Proceeds
  <2>2. \A v \in Workers : sup'[v].pc # "executing" BY <1>2, <2>1 DEF Dead, TypeOK
  <2>3. Holder' = None BY <2>2 DEF Holder, Executing
  <2> QED BY <2>1, <2>3, LedgerStutter
<1>7. CASE run' = [run EXCEPT ![r].status = "running", ![r].worker = w]
  <2>1. /\ run'[r].status = "running" /\ run'[r].cancel = run[r].cancel
        /\ \A q \in Runs \ {r} : run'[q] = run[q]
    BY <1>7 DEF TypeOK, RunRecord
  <2> QED BY <1>3, <1>4, <1>5, <2>1, LedgerStart
<1> QED BY <1>6, <1>7 DEF Take

LEMMA LedgerFinish ==
  ASSUME TypeOK, WorkerInv, Recorded, NEW w \in Workers, NEW o \in Outcomes,
         FinishBusy(w, o) \/ \E n \in 1..3 : Finish(w, o, n)
  PROVE  [Ledger!Next]_(Ledger!vars)
<1>1. PICK r \in Runs : r = sup[w].run BY DEF Finish, FinishBusy, TypeOK
<1>2. sup[w].pc = "executing" /\ run' = Finished(w, o) BY DEF Finish, FinishBusy
<1>3. Holder = r BY <1>1, <1>2, HolderIs
<1>4. Holder' = None
  <2>1. PICK to : to.pc # "executing" /\ sup' = [sup EXCEPT ![w] = to]
    BY DEF Finish, FinishBusy, Proceeds, In, Dead
  <2>2. \A v \in Workers \ {w} : sup[v].pc # "executing"
    BY <1>2 DEF WorkerInv, Holding, Active
  <2>3. \A v \in Workers : sup'[v].pc # "executing" BY <2>1, <2>2 DEF TypeOK
  <2> QED BY <2>3 DEF Holder, Executing
<1>5. CASE Ended(r)
  <2>1. run' = run BY <1>1, <1>2, <1>5 DEF Finished
  <2> QED BY <1>4, <2>1, LedgerStutter
<1>6. CASE ~Ended(r)
  <2>1. run[r].status = "running" BY <1>1, <1>2, <1>6 DEF WorkerInv, ExecutionOwned
  <2>2. Asked(w) <=> run[r].cancel BY <1>1 DEF Asked, Recorded
  <2>3. PICK st \in {"cancelled", "awaiting_visual_review", "failed", "timed_out",
                     "interrupted"} :
          /\ Finished(w, o) = [run EXCEPT ![r] =
               [status |-> st, cancel |-> run[r].cancel,
                worker |-> IF st = "awaiting_visual_review" THEN None ELSE w,
                evidence |-> IF st = "awaiting_visual_review" THEN "sealed"
                             ELSE run[r].evidence]]
          /\ IF Asked(w) THEN st = "cancelled" ELSE st # "cancelled"
    BY <1>1, <1>6, FinishedRun
  <2>4. /\ run'[r].status = st /\ run'[r].cancel = run[r].cancel
        /\ \A q \in Runs \ {r} : run'[q] = run[q]
    BY <1>2, <2>3 DEF TypeOK
  <2> QED BY <1>3, <1>4, <2>1, <2>2, <2>3, <2>4, LedgerEnd
<1> QED BY <1>5, <1>6

LEMMA LedgerBudget ==
  ASSUME TypeOK, WorkerInv, NEW w \in Workers, BudgetFail(w)
  PROVE  [Ledger!Next]_(Ledger!vars)
<1>1. PICK r \in Runs : r = sup[w].run BY DEF BudgetFail, TypeOK
<1>2. run' = Settled({r}, "failed") /\ ~Ended(r) /\ run[r].status # "absent"
  BY <1>1 DEF BudgetFail, WorkerInv, ExecutionOwned
<1>3. Holder' = Holder BY HolderKept DEF BudgetFail, procs
<1> QED BY <1>2, <1>3, LedgerClose

LEMMA LedgerCancel ==
  ASSUME TypeOK, WorkerInv, Recorded, Cancelling \/ Delivering
  PROVE  [Ledger!Next]_(Ledger!vars)
<1>1. ASSUME NEW r \in Runs, NEW n \in 1..3, CancelQueued(r, n)
      PROVE  [Ledger!Next]_(Ledger!vars)
  <2>1. Holder' = Holder BY <1>1, HolderKept DEF CancelQueued, procs
  <2>2. run[r].status \in {"queued", "awaiting_visual_review"}
    BY <1>1 DEF CancelQueued, NoWorker
  <2>3. Holder # r
    <3>1. \A w \in Workers : sup[w].pc = "executing" => sup[w].run # r
      BY <2>2 DEF WorkerInv, ExecutionOwned, Ended, Terminal
    <3>2. Executing # {} => (CHOOSE w \in Executing : TRUE) \in Executing OBVIOUS
    <3> QED BY <3>1, <3>2, SchedulerAssumption DEF Holder, Executing
  <2>4. /\ run'[r].status = "cancelled" /\ run'[r].cancel
        /\ \A q \in Runs \ {r} : run'[q] = run[q]
    BY <1>1 DEF CancelQueued, TypeOK, RunRecord
  <2> QED BY <2>1, <2>2, <2>3, <2>4, LedgerAsk
<1>2. ASSUME NEW r \in Runs, NEW full \in BOOLEAN, NEW n \in 1..3,
             CancelActive(r, full, n)
      PROVE  [Ledger!Next]_(Ledger!vars)
  <2>1. Holder' = Holder BY <1>2, HolderKept DEF CancelActive
  <2>2. run[r].status = "running"
    BY <1>2 DEF CancelActive, Cancellable, NoWorker, Recorded, TypeOK, RunRecord, RunStatus
  <2>3. PICK rn : /\ rn = run \/ rn = Settled({r}, "failed")
                  /\ run' = [rn EXCEPT ![r].cancel = TRUE]
    BY <1>2 DEF CancelActive
  <2>4. rn \in [Runs -> RunRecord]
    BY <2>3, SettledType DEF TypeOK, RunStatus, Terminal
  <2>5. /\ run'[r].status = rn[r].status /\ run'[r].cancel
        /\ \A q \in Runs \ {r} : run'[q] = rn[q]
    BY <2>3, <2>4 DEF RunRecord
  <2>6. /\ rn[r].status \in {"running", "failed"} /\ \A q \in Runs \ {r} : rn[q] = run[q]
    BY <2>2, <2>3, SettledStatus
  <2> QED BY <2>1, <2>2, <2>5, <2>6, LedgerAsk
<1>3. ASSUME NEW w \in Workers, NEW r \in Runs, NEW ok \in BOOLEAN, Deliver(w, r, ok)
      PROVE  [Ledger!Next]_(Ledger!vars)
  <2>1. run' = run BY <1>3 DEF Deliver, work
  <2>2. \A v \in Workers : sup'[v].pc = sup[v].pc /\ sup'[v].run = sup[v].run
    BY <1>3 DEF Deliver, TypeOK, Supervisor
  <2> QED BY <2>1, <2>2, HolderKept, LedgerStutter
<1> QED BY <1>1, <1>2, <1>3 DEF Cancelling, Delivering

LEMMA LedgerStep ==
  TypeOK /\ WorkerInv /\ Recorded /\ [Next]_vars => [Ledger!Next]_(Ledger!vars)
<1> SUFFICES ASSUME TypeOK, WorkerInv, Recorded, [Next]_vars
             PROVE  [Ledger!Next]_(Ledger!vars)
  OBVIOUS
<1>1. ASSUME NEW c \in Clients, ClientNext(c) PROVE [Ledger!Next]_(Ledger!vars)
  <2>1. ASSUME NEW r \in Runs, NEW n \in 1..3, Resubmit(c, r, n) \/ CommitExisting(c, r, n)
        PROVE  [Ledger!Next]_(Ledger!vars)
    BY <2>1, FoundExists, LedgerRepaired
  <2> QED BY <1>1, <2>1, LedgerClientMoves, LedgerCommit, LedgerInterrupts, LedgerLaunch
          DEF ClientNext, Recovering, Launching, Submitting
<1>2. ASSUME NEW w \in Workers, SupervisorNext(w) PROVE [Ledger!Next]_(Ledger!vars)
  BY <1>2, LedgerSupervisor, LedgerTake, LedgerFinish, LedgerBudget
  DEF SupervisorNext, Supervising
<1>3. CASE Reviewing
  <2>1. ASSUME NEW r \in Runs, NEW n \in 1..4, Finalize(r, n)
        PROVE  [Ledger!Next]_(Ledger!vars)
    <3>1. Holder' = Holder BY <2>1, HolderKept DEF Finalize, procs
    <3>2. /\ Paused(r) /\ ~run[r].cancel /\ run'[r].cancel = run[r].cancel
          /\ \A q \in Runs \ {r} : run'[q] = run[q]
          /\ run'[r].status = IF n = 1 THEN "awaiting_visual_review" ELSE "completed"
      BY <2>1, PresentedRun
    <3>3. CASE n = 1 BY <3>1, <3>2, <3>3, LedgerStutter DEF Paused
    <3>4. CASE n # 1 BY <3>1, <3>2, <3>4, LedgerComplete
    <3> QED BY <3>3, <3>4
  <2> QED BY <1>3, <2>1, LedgerClientMoves DEF Reviewing
<1>4. CASE UNCHANGED vars
  BY <1>4, HolderKept, LedgerStutter DEF vars, work, procs
<1> QED BY <1>1, <1>2, <1>3, <1>4, LedgerCancel DEF Next

-----------------------------------------------------------------------------
(* Recorded is kept. *)

LEMMA RecordedInit == Init => Recorded
BY DEF Init, Recorded, NoRun, NoEntry, Entries, Dead, Paused, At

\* What a step of the ledger may do to a status and a cancellation.
LEMMA LedgerKeeps ==
  ASSUME [Ledger!Next]_(Ledger!vars), NEW r \in Runs
  PROVE  /\ run[r].status # "absent" => run'[r].status # "absent"
         /\ run[r].cancel => run'[r].cancel
         /\ run'[r].cancel /\ ~run[r].cancel =>
              run[r].status \in {"queued", "running", "awaiting_visual_review"}
         /\ run'[r].cancel /\ run'[r].status \in {"awaiting_visual_review", "completed"} =>
              /\ run[r].cancel
              /\ run[r].status \in {"absent", "awaiting_visual_review", "completed"}
         /\ run'[r].status = "cancelled" => run'[r].cancel \/ run[r].status = "cancelled"
<1> DEFINE status == [q \in Runs |-> run[q].status]
           after == [q \in Runs |-> run'[q].status]
           asked == {q \in Runs : run[q].cancel}
           askedAfter == {q \in Runs : run'[q].cancel}
<1>1. ASSUME status[r] # "absent" => after[r] # "absent",
             r \in asked => r \in askedAfter,
             r \in askedAfter /\ r \notin asked =>
               status[r] \in {"queued", "running", "awaiting_visual_review"},
             r \in askedAfter /\ after[r] \in {"awaiting_visual_review", "completed"} =>
               r \in asked /\ status[r] \in {"absent", "awaiting_visual_review", "completed"},
             after[r] = "cancelled" => r \in askedAfter \/ status[r] = "cancelled"
      PROVE  /\ run[r].status # "absent" => run'[r].status # "absent"
             /\ run[r].cancel => run'[r].cancel
             /\ run'[r].cancel /\ ~run[r].cancel =>
                  run[r].status \in {"queued", "running", "awaiting_visual_review"}
             /\ run'[r].cancel /\ run'[r].status \in {"awaiting_visual_review", "completed"} =>
                  /\ run[r].cancel
                  /\ run[r].status \in {"absent", "awaiting_visual_review", "completed"}
             /\ run'[r].status = "cancelled" => run'[r].cancel \/ run[r].status = "cancelled"
  BY <1>1
<1>2. CASE after = status /\ askedAfter = asked BY <1>1, <1>2
<1>3. ASSUME NEW q \in Runs, Ledger!Submit(q)
      PROVE  after = [status EXCEPT ![q] = "queued"] /\ askedAfter = asked
  BY <1>3 DEF Ledger!Submit
<1>4. ASSUME NEW q \in Runs, Ledger!Start(q)
      PROVE  after = [status EXCEPT ![q] = "running"] /\ askedAfter = asked
  BY <1>4 DEF Ledger!Start
<1>5. ASSUME NEW q \in Runs, Ledger!Complete(q)
      PROVE  /\ after = [status EXCEPT ![q] = "completed"] /\ askedAfter = asked
             /\ q \notin asked
  BY <1>5 DEF Ledger!Complete
<1>6. ASSUME NEW q \in Runs, Ledger!Ask(q)
      PROVE  /\ askedAfter = asked \cup {q}
             /\ status[q] \in {"queued", "running", "awaiting_visual_review"}
             /\ \/ after = status /\ status[q] = "running"
                \/ after = [status EXCEPT ![q] = "cancelled"]
                \/ after = [status EXCEPT ![q] = "failed"]
  BY <1>6 DEF Ledger!Ask, Ledger!Unfinished
<1>7. ASSUME NEW q \in Runs, NEW st \in {"awaiting_visual_review"} \cup Ledger!Unsuccessful,
             Ledger!End(q, st)
      PROVE  /\ after = [status EXCEPT ![q] = st] /\ askedAfter = asked
             /\ IF q \in asked THEN st = "cancelled"
                ELSE st \in {"awaiting_visual_review", "failed", "timed_out", "interrupted"}
  BY <1>7 DEF Ledger!End
<1>8. ASSUME NEW S \in SUBSET Runs, NEW st \in {"failed", "interrupted"}, Ledger!Close(S, st)
      PROVE  /\ after = [q \in Runs |-> IF q \in S THEN st ELSE status[q]]
             /\ askedAfter = asked
  BY <1>8 DEF Ledger!Close
<1>9. Ledger!Drop => after = status /\ askedAfter = asked BY DEF Ledger!Drop
<1>10. UNCHANGED Ledger!vars => after = status /\ askedAfter = asked BY DEF Ledger!vars
<1> HIDE DEF status, after, asked, askedAfter
<1>11. status \in [Runs -> {status[q] : q \in Runs}] BY DEF status
<1> QED BY <1>1, <1>2, <1>3, <1>4, <1>5, <1>6, <1>7, <1>8, <1>9, <1>10, <1>11 DEF Ledger!Next

\* A step by which no entry is queued and no run is started, closed or reviewed
\* other than the ledger allows.
LEMMA RecordedFrame ==
  ASSUME TypeOK, TypeOK', WorkerInv, Recorded, [Ledger!Next]_(Ledger!vars),
         \A r \in Runs : /\ queue'[r].status # "absent" =>
                              queue[r].status # "absent" \/ run'[r].status # "absent"
                         /\ run'[r].status \in {"queued", "awaiting_visual_review"} =>
                              run'[r].worker = None
                         /\ run'[r].status = "awaiting_visual_review" =>
                              queue'[r].status # "queued"
                         /\ r \in outdated' => r \in outdated \/ run[r].status # "absent",
         \A k \in Keys : \/ index'[k] = index[k]
                         \/ KeyOf[index'[k]] = k /\ run'[index'[k]].status # "absent",
         \A w \in Workers, r \in Runs :
           <<w, r>> \in signals' => <<w, r>> \in signals \/ run'[r].cancel,
         \A w \in Workers : sup'[w].event =>
           /\ sup'[w].pc = "executing"
           /\ run'[sup'[w].run].cancel \/ (sup'[w].run = sup[w].run /\ sup[w].event),
         \A c \in Clients : client'[c].pc = "checked" =>
           client'[c].key \in Keys \/ (client[c].pc = "checked" /\ client'[c].key = client[c].key)
  PROVE  Recorded'
<1>1. \A r \in Runs : /\ run[r].status # "absent" => run'[r].status # "absent"
                      /\ run[r].cancel => run'[r].cancel
                      /\ run'[r].cancel /\ ~run[r].cancel =>
                           run[r].status \in {"queued", "running", "awaiting_visual_review"}
  BY LedgerKeeps
<1>2. \A r \in Runs : run'[r].status = "absent" =>
        ~run'[r].cancel /\ r \notin Entries' /\ r \notin outdated'
  BY <1>1 DEF Recorded, Entries
<1>3. \A r \in Runs : Paused(r)' => queue'[r].status # "queued" BY DEF Paused
<1>4. \A k \in Keys : index'[k] # None =>
        KeyOf[index'[k]] = k /\ run'[index'[k]].status # "absent"
  BY <1>1 DEF Recorded, TypeOK
<1>5. \A w \in Workers, r \in Runs : <<w, r>> \in signals' => run'[r].cancel
  BY <1>1 DEF Recorded
<1>6. \A w \in Workers : sup'[w].event => sup'[w].pc = "executing" /\ run'[sup'[w].run].cancel
  BY <1>1 DEF Recorded, TypeOK
<1>7. \A c \in Clients : client'[c].pc = "checked" => client'[c].key \in Keys
  BY DEF Recorded
<1> QED BY <1>2, <1>3, <1>4, <1>5, <1>6, <1>7 DEF Recorded

\* A client that has checked its submission quotes a key.
KeysKept ==
  \A c \in Clients : client'[c].pc = "checked" =>
    client'[c].key \in Keys \/ (client[c].pc = "checked" /\ client'[c].key = client[c].key)

LEMMA KeysNoticed ==
  ASSUME TypeOK, NEW an, NEW replaced, client' = Noticed(an, replaced)
  PROVE  KeysKept
<1> SUFFICES ASSUME NEW c \in Clients, client'[c].pc = "checked"
             PROVE  client[c].pc = "checked" /\ client'[c].key = client[c].key
  BY DEF KeysKept
<1>1. client[c] \in Client BY DEF TypeOK
<1>2. client'[c] = client[c] \/ client'[c] = [client[c] EXCEPT !.fresh = FALSE]
  BY DEF Noticed
<1> QED BY <1>1, <1>2 DEF Client

LEMMA KeysLeaves ==
  ASSUME TypeOK, NEW c \in Clients, NEW f, NEW to, to.pc # "checked", NEW an,
         Leaves(c, f, to, an)
  PROVE  KeysKept
<1> SUFFICES ASSUME NEW d \in Clients, client'[d].pc = "checked"
             PROVE  client[d].pc = "checked" /\ client'[d].key = client[d].key
  BY DEF KeysKept
<1>1. client' = [Noticed(an, {}) EXCEPT ![c] = IF f THEN to ELSE At("idle", FALSE)]
  BY DEF Leaves
<1>2. Noticed(an, {}) \in [Clients -> Client] BY NoticedType
<1>3. d # c BY <1>1, <1>2 DEF At
<1>4. client'[d] = Noticed(an, {})[d] BY <1>1, <1>2, <1>3
<1>5. client'[d] = client[d] \/ client'[d] = [client[d] EXCEPT !.fresh = FALSE]
  BY <1>4 DEF Noticed
<1> QED BY <1>5 DEF TypeOK, Client

LEMMA KeysMoved ==
  ASSUME TypeOK, NEW c \in Clients, NEW to, to.pc = "checked" => to.key \in Keys,
         client' = [client EXCEPT ![c] = to]
  PROVE  KeysKept
BY DEF KeysKept, TypeOK

\* A step that writes no run, no index and no revision.
LEMMA RecordedQuiet ==
  ASSUME TypeOK, TypeOK', WorkerInv, Recorded, [Ledger!Next]_(Ledger!vars), KeysKept,
         UNCHANGED <<run, index, outdated, signals>>,
         sup' = sup \/ \A w \in Workers : ~sup'[w].event \/ sup'[w] = sup[w],
         \A r \in Runs : queue'[r].status \in {queue[r].status, "absent"}
  PROVE  Recorded'
<1>1. \A r \in Runs : /\ queue'[r].status # "absent" =>
                           queue[r].status # "absent" \/ run'[r].status # "absent"
                      /\ run'[r].status \in {"queued", "awaiting_visual_review"} =>
                           run'[r].worker = None
                      /\ run'[r].status = "awaiting_visual_review" =>
                           queue'[r].status # "queued"
                      /\ r \in outdated' => r \in outdated \/ run[r].status # "absent"
  BY DEF Recorded, Paused
<1>2. \A w \in Workers : sup'[w].event =>
        /\ sup'[w].pc = "executing"
        /\ run'[sup'[w].run].cancel \/ (sup'[w].run = sup[w].run /\ sup[w].event)
  BY DEF Recorded
<1> QED BY <1>1, <1>2, RecordedFrame DEF KeysKept

LEMMA DroppedStatus ==
  ASSUME TypeOK, NEW S, queue' = queue \/ queue' = Without(queue, S)
  PROVE  \A r \in Runs : queue'[r].status \in {queue[r].status, "absent"}
BY WithoutStatus DEF TypeOK

LEMMA ReturnedPlace ==
  ASSUME NEW c PROVE Returned(c).pc # "checked"
BY DEF Returned, At

LEMMA RecordedClientMoves ==
  ASSUME TypeOK, TypeOK', WorkerInv, Recorded, [Ledger!Next]_(Ledger!vars),
         \/ \E c \in Clients : \/ Reconciling(c) \/ EnsureNothing(c) \/ SubmitRejected(c)
                               \/ LaunchReturns(c) \/ LaunchRaises(c) \/ LaunchSpared(c)
                               \/ ClientDies(c) \/ LaunchSpawn(c)
                               \/ \E k \in Keys, p \in Runs \cup {None} : CheckSubmit(c, k, p)
                               \/ \E n \in 1..2 : EnsureSettles(c, n)
                               \/ \E w \in Workers, n \in 1..3 : EnsureLaunches(c, w, n)
         \/ \E a \in Analyses : Approve(a)
         \/ \E r \in Runs : Recover(r)
  PROVE  Recorded'
<1>1. UNCHANGED <<run, index, outdated, signals>>
  BY DEF Reconciling, Reconcile, EnsureNothing, SubmitRejected, LaunchReturns, LaunchRaises,
         LaunchSpared, ClientDies, LaunchSpawn, CheckSubmit, EnsureSettles, EnsureLaunches,
         Approve, Recover, work, procs, inputs
<1>2. \A r \in Runs : queue'[r].status \in {queue[r].status, "absent"}
  <2>1. PICK S : queue' = queue \/ queue' = Without(queue, S)
    BY DEF Reconciling, Reconcile, EnsureNothing, SubmitRejected, LaunchReturns,
           LaunchRaises, LaunchSpared, ClientDies, LaunchSpawn, CheckSubmit, EnsureSettles,
           EnsureLaunches, Approve, Recover, control
  <2> QED BY <2>1, DroppedStatus
<1>3. sup' = sup \/ \A w \in Workers : ~sup'[w].event \/ sup'[w] = sup[w]
  <2>1. sup' = sup \/ \E w : sup' = [sup EXCEPT ![w] = In("booting")]
    BY DEF Reconciling, Reconcile, EnsureNothing, SubmitRejected, LaunchReturns,
           LaunchRaises, LaunchSpared, ClientDies, LaunchSpawn, CheckSubmit, EnsureSettles,
           EnsureLaunches, Approve, Recover, procs
  <2> QED BY <2>1 DEF In, TypeOK
<1>4. KeysKept
  <2>1. ASSUME NEW c \in Clients, NEW to, Becomes(c, to), to.pc # "checked" PROVE KeysKept
    BY <2>1, KeysMoved DEF Becomes
  <2>2. ASSUME NEW c \in Clients, Reconciling(c) PROVE KeysKept
    BY <2>2, KeysLeaves DEF Reconciling, Reconcile, At
  <2>3. ASSUME NEW c \in Clients,
               EnsureNothing(c) \/ LaunchReturns(c) \/ LaunchSpared(c) \/ SubmitRejected(c)
        PROVE KeysKept
    BY <2>1, <2>3, ReturnedPlace
    DEF EnsureNothing, LaunchReturns, LaunchSpared, SubmitRejected, At
  <2>4. ASSUME NEW c \in Clients, LaunchRaises(c) \/ LaunchSpawn(c) PROVE KeysKept
    <3>1. /\ [client[c] EXCEPT !.pc = "failing"].pc # "checked"
          /\ [client[c] EXCEPT !.pc = "waiting"].pc # "checked"
      BY DEF TypeOK, Client
    <3> QED BY <2>1, <2>4, <3>1 DEF LaunchRaises, LaunchSpawn
  <2>5. ASSUME NEW c \in Clients, ClientDies(c) PROVE KeysKept
    BY <2>5, KeysMoved DEF ClientDies, At
  <2>6. ASSUME NEW c \in Clients, NEW k \in Keys, NEW p, CheckSubmit(c, k, p) PROVE KeysKept
    <3>1. [At("checked", FALSE) EXCEPT !.key = k, !.parent = p, !.fresh = TRUE].key = k
      BY DEF At
    <3> QED BY <2>6, <3>1, KeysMoved DEF CheckSubmit, Becomes
  <2>7. ASSUME NEW c \in Clients, NEW n, EnsureSettles(c, n) PROVE KeysKept
    BY <2>7, KeysLeaves, ReturnedPlace DEF EnsureSettles
  <2>8. ASSUME NEW c \in Clients, NEW w, NEW n, EnsureLaunches(c, w, n) PROVE KeysKept
    <3>1. [client[c] EXCEPT !.pc = "launching", !.worker = w].pc # "checked"
      BY DEF TypeOK, Client
    <3> QED BY <2>8, <3>1, KeysLeaves DEF EnsureLaunches
  <2>9. ASSUME NEW a \in Analyses, Approve(a) PROVE KeysKept
    BY <2>9, KeysNoticed DEF Approve
  <2>10. ASSUME NEW r \in Runs, Recover(r) PROVE KeysKept
    BY <2>10, KeysNoticed DEF Recover
  <2> QED BY <2>2, <2>3, <2>4, <2>5, <2>6, <2>7, <2>8, <2>9, <2>10
<1> QED BY <1>1, <1>2, <1>3, <1>4, RecordedQuiet

LEMMA KeysSame == ASSUME client' = client PROVE KeysKept
BY DEF KeysKept

\* A step that closes runs, beside what RecordedQuiet allows.
LEMMA RecordedCloses ==
  ASSUME TypeOK, TypeOK', WorkerInv, Recorded, [Ledger!Next]_(Ledger!vars), KeysKept,
         UNCHANGED <<outdated, sup, signals>>,
         NEW S, NEW st \in Terminal, run' = run \/ run' = Settled(S, st),
         \A r \in Runs : queue'[r].status \in {queue[r].status, "absent"},
         \A k \in Keys : \/ index'[k] = index[k]
                         \/ /\ index'[k] \in Runs /\ KeyOf[index'[k]] = k
                            /\ run[index'[k]].status # "absent"
  PROVE  Recorded'
<1>1. \A r \in Runs : run'[r] = run[r] \/ run'[r].status \in Terminal BY SettledStatus
<1>2. \A r \in Runs : /\ queue'[r].status # "absent" =>
                           queue[r].status # "absent" \/ run'[r].status # "absent"
                      /\ run'[r].status \in {"queued", "awaiting_visual_review"} =>
                           run'[r].worker = None
                      /\ run'[r].status = "awaiting_visual_review" =>
                           queue'[r].status # "queued"
                      /\ r \in outdated' => r \in outdated \/ run[r].status # "absent"
  BY <1>1 DEF Recorded, Paused, Terminal
<1>3. \A w \in Workers : sup'[w].event =>
        /\ sup'[w].pc = "executing"
        /\ run'[sup'[w].run].cancel \/ (sup'[w].run = sup[w].run /\ sup[w].event)
  BY DEF Recorded
<1>4. \A k \in Keys : \/ index'[k] = index[k]
                      \/ KeyOf[index'[k]] = k /\ run'[index'[k]].status # "absent"
  BY LedgerKeeps
<1> QED BY <1>2, <1>3, <1>4, RecordedFrame DEF KeysKept

LEMMA RecordedExisting ==
  ASSUME TypeOK, TypeOK', WorkerInv, Recorded, [Ledger!Next]_(Ledger!vars),
         NEW c \in Clients, NEW r \in Runs, NEW n \in 1..3,
         Resubmit(c, r, n) \/ CommitExisting(c, r, n)
  PROVE  Recorded'
<1>1. /\ Repaired(r, n) /\ Leaves(c, n = 3, At("ensure", FALSE), analysis')
      /\ run[r].status # "absent"
  BY FoundExists
<1>2. KeysKept BY <1>1, KeysLeaves DEF At
<1>3. KeyOf[r] \in Keys BY SchedulerAssumption
<1>4. \A k \in Keys : \/ index'[k] = index[k]
                      \/ /\ index'[k] \in Runs /\ KeyOf[index'[k]] = k
                         /\ run[index'[k]].status # "absent"
  BY <1>1, <1>3 DEF Repaired, TypeOK
<1>5. /\ run' = run \/ run' = Settled({r}, "interrupted")
      /\ "interrupted" \in Terminal
      /\ UNCHANGED <<queue, outdated, sup, signals>>
  BY <1>1 DEF Repaired, control, procs, Terminal
<1> QED BY <1>2, <1>4, <1>5, RecordedCloses DEF Terminal

LEMMA RecordedCommit ==
  ASSUME TypeOK, TypeOK', WorkerInv, Recorded, [Ledger!Next]_(Ledger!vars),
         NEW c \in Clients, NEW r \in Runs, NEW n \in 1..4, CommitSubmit(c, r, n)
  PROVE  Recorded'
<1>1. KeysKept BY KeysLeaves DEF CommitSubmit, At
<1>2. /\ run'[r] = [NoRun EXCEPT !.status = "queued"]
      /\ \A q \in Runs \ {r} : run'[q] = run[q] /\ queue'[q] = queue[q]
      /\ KeyOf[r] = client[c].key /\ UNCHANGED <<outdated, signals, sup>>
  BY DEF CommitSubmit, Enqueued, TypeOK, procs
<1>3. run'[r].status = "queued" /\ run'[r].worker = None BY <1>2 DEF NoRun
<1>4. \A q \in Runs : /\ queue'[q].status # "absent" =>
                           queue[q].status # "absent" \/ run'[q].status # "absent"
                      /\ run'[q].status \in {"queued", "awaiting_visual_review"} =>
                           run'[q].worker = None
                      /\ run'[q].status = "awaiting_visual_review" =>
                           queue'[q].status # "queued"
                      /\ q \in outdated' => q \in outdated \/ run[q].status # "absent"
  <2>1. ASSUME NEW q \in Runs \ {r}
        PROVE  /\ run'[q].status \in {"queued", "awaiting_visual_review"} =>
                    run'[q].worker = None
               /\ run'[q].status = "awaiting_visual_review" => queue'[q].status # "queued"
    BY <1>2 DEF Recorded, Paused
  <2> QED BY <1>2, <1>3, <2>1
<1>5. \A k \in Keys : \/ index'[k] = index[k]
                      \/ KeyOf[index'[k]] = k /\ run'[index'[k]].status # "absent"
  BY <1>2, <1>3 DEF CommitSubmit, TypeOK
<1>6. \A w \in Workers : sup'[w].event =>
        /\ sup'[w].pc = "executing"
        /\ run'[sup'[w].run].cancel \/ (sup'[w].run = sup[w].run /\ sup[w].event)
  BY <1>2 DEF Recorded
<1> QED BY <1>1, <1>2, <1>4, <1>5, <1>6, RecordedFrame DEF KeysKept

LEMMA RecordedFails ==
  ASSUME TypeOK, TypeOK', WorkerInv, Recorded, [Ledger!Next]_(Ledger!vars),
         NEW c \in Clients,
         \/ \E n \in 1..4 : EnsureInterrupts(c, n)
         \/ \E P, S \in SUBSET Runs, f \in BOOLEAN : LaunchFailed(c, P, S, f)
  PROVE  Recorded'
<1>1. UNCHANGED <<outdated, index, sup, signals>>
  BY DEF EnsureInterrupts, LaunchFailed, procs, inputs
<1>2. \E S : run' = Settled(S, "interrupted") \/ run' = Settled(S, "failed")
  BY DEF EnsureInterrupts, LaunchFailed
<1>3. PICK D : queue' = queue \/ queue' = Without(queue, D)
  BY DEF EnsureInterrupts, LaunchFailed
<1>4. KeysKept BY KeysLeaves, ReturnedPlace DEF EnsureInterrupts, LaunchFailed
<1>5. \A r \in Runs : queue'[r].status \in {queue[r].status, "absent"}
  BY <1>3, DroppedStatus
<1>6. "interrupted" \in Terminal /\ "failed" \in Terminal BY DEF Terminal
<1> QED BY <1>1, <1>2, <1>4, <1>5, <1>6, RecordedCloses

LEMMA RecordedSupervisor ==
  ASSUME TypeOK, TypeOK', WorkerInv, Recorded, [Ledger!Next]_(Ledger!vars),
         NEW w \in Workers,
         \/ Boot(w) \/ BootBlocked(w) \/ CheckClaim(w) \/ PublishReady(w)
         \/ Exit(w) \/ Kill(w) \/ Stop(w)
         \/ \E P, S \in SUBSET Runs : TakeDies(w, P, S)
  PROVE  Recorded'
<1>1. UNCHANGED <<run, index, outdated, signals>>
  BY DEF Boot, BootBlocked, CheckClaim, PublishReady, Exit, Kill, Stop, TakeDies, work,
         inputs, Proceeds
<1>2. \A v \in Workers : ~sup'[v].event \/ sup'[v] = sup[v]
  <2>1. PICK to : to.event = FALSE /\ sup' = [sup EXCEPT ![w] = to]
    BY DEF Boot, BootBlocked, CheckClaim, PublishReady, Exit, Kill, Stop, TakeDies,
           Proceeds, In, Dead
  <2> QED BY <2>1 DEF TypeOK
<1>3. PICK D : queue' = queue \/ queue' = Without(queue, D)
  BY DEF Boot, BootBlocked, CheckClaim, PublishReady, Exit, Kill, Stop, TakeDies, control
<1>4. KeysKept
  BY KeysSame, KeysNoticed
  DEF Boot, BootBlocked, CheckClaim, PublishReady, Exit, Kill, Stop, TakeDies
<1> QED BY <1>1, <1>2, <1>3, <1>4, DroppedStatus, RecordedQuiet

LEMMA RecordedTake ==
  ASSUME TypeOK, TypeOK', WorkerInv, Recorded, [Ledger!Next]_(Ledger!vars),
         NEW w \in Workers, NEW r \in Runs, NEW n \in 1..3, Take(w, r, n)
  PROVE  Recorded'
<1>1. KeysKept BY KeysNoticed DEF Take
<1>2. /\ \A q \in Runs : run'[q] = run[q] \/ run'[q].status = "running"
      /\ UNCHANGED <<index, outdated, signals>>
  BY DEF Take, TypeOK, RunRecord, inputs, Proceeds
<1>3. queue'[r].status = "claimed"
      /\ \A q \in Runs \ {r} : queue'[q].status \in {queue[q].status, "absent"}
  <2>1. Without(queue, queue[r].after) \in [Runs -> Entry] BY WithoutType DEF TypeOK
  <2>2. queue'[r].status = "claimed" BY <2>1 DEF Take, Entry
  <2>3. \A q \in Runs \ {r} : queue'[q] = Without(queue, queue[r].after)[q]
    BY <2>1 DEF Take
  <2> QED BY <2>2, <2>3, WithoutStatus DEF TypeOK
<1>4. \A q \in Runs : /\ queue'[q].status # "absent" =>
                           queue[q].status # "absent" \/ run'[q].status # "absent"
                      /\ run'[q].status \in {"queued", "awaiting_visual_review"} =>
                           run'[q].worker = None
                      /\ run'[q].status = "awaiting_visual_review" =>
                           queue'[q].status # "queued"
                      /\ q \in outdated' => q \in outdated \/ run[q].status # "absent"
  <2>1. queue[r].status # "absent" BY DEF Take
  <2> QED BY <1>2, <1>3, <2>1 DEF Recorded, Paused
<1>5. \A v \in Workers : sup'[v].event =>
        /\ sup'[v].pc = "executing"
        /\ run'[sup'[v].run].cancel \/ (sup'[v].run = sup[v].run /\ sup[v].event)
  <2>1. PICK to : to.event = FALSE /\ sup' = [sup EXCEPT ![w] = to]
    BY DEF Take, Proceeds, Dead
  <2>2. \A v \in Workers : ~sup'[v].event \/ sup'[v] = sup[v] BY <2>1 DEF TypeOK
  <2> QED BY <2>2 DEF Recorded
<1> QED BY <1>1, <1>2, <1>4, <1>5, RecordedFrame DEF KeysKept

LEMMA RecordedFinish ==
  ASSUME TypeOK, TypeOK', WorkerInv, Recorded, [Ledger!Next]_(Ledger!vars),
         NEW w \in Workers, NEW o \in Outcomes,
         FinishBusy(w, o) \/ \E n \in 1..3 : Finish(w, o, n)
  PROVE  Recorded'
<1>1. PICK r \in Runs : r = sup[w].run BY DEF Finish, FinishBusy, TypeOK
<1>2. /\ sup[w].pc = "executing" /\ run' = Finished(w, o)
      /\ UNCHANGED <<index, outdated, signals>>
  BY DEF Finish, FinishBusy, inputs, Proceeds
<1>3. KeysKept BY KeysNoticed, KeysSame DEF Finish, FinishBusy
<1>4. \A q \in Runs : queue'[q].status \in {queue[q].status, "absent"}
  BY <1>1, DroppedStatus DEF Finish, FinishBusy, control
<1>5. /\ \A q \in Runs \ {r} : run'[q] = run[q]
      /\ Ended(r) => run' = run
      /\ ~Ended(r) => /\ queue[r].status = "claimed" /\ run'[r].status # "queued"
                      /\ run'[r].status = "awaiting_visual_review" => run'[r].worker = None
  <2>1. CASE Ended(r) BY <1>1, <1>2, <2>1 DEF Finished
  <2>2. CASE ~Ended(r)
    <3>1. queue[r].status = "claimed" BY <1>1, <1>2, <2>2 DEF WorkerInv, ExecutionOwned
    <3>2. PICK st \in {"cancelled", "awaiting_visual_review", "failed", "timed_out",
                       "interrupted"} :
            Finished(w, o) = [run EXCEPT ![r] =
              [status |-> st, cancel |-> run[r].cancel,
               worker |-> IF st = "awaiting_visual_review" THEN None ELSE w,
               evidence |-> IF st = "awaiting_visual_review" THEN "sealed"
                            ELSE run[r].evidence]]
      BY <1>1, <2>2, FinishedRun
    <3>3. /\ run'[r].status = st /\ \A q \in Runs \ {r} : run'[q] = run[q]
          /\ run'[r].worker = IF st = "awaiting_visual_review" THEN None ELSE w
      BY <1>2, <3>2 DEF TypeOK
    <3> QED BY <2>2, <3>1, <3>3
  <2> QED BY <2>1, <2>2
<1>6. \A q \in Runs : /\ queue'[q].status # "absent" =>
                           queue[q].status # "absent" \/ run'[q].status # "absent"
                      /\ run'[q].status \in {"queued", "awaiting_visual_review"} =>
                           run'[q].worker = None
                      /\ run'[q].status = "awaiting_visual_review" =>
                           queue'[q].status # "queued"
                      /\ q \in outdated' => q \in outdated \/ run[q].status # "absent"
  BY <1>2, <1>4, <1>5 DEF Recorded, Paused
<1>7. \A v \in Workers : sup'[v].event =>
        /\ sup'[v].pc = "executing"
        /\ run'[sup'[v].run].cancel \/ (sup'[v].run = sup[v].run /\ sup[v].event)
  <2>1. PICK to : to.event = FALSE /\ sup' = [sup EXCEPT ![w] = to]
    BY DEF Finish, FinishBusy, Proceeds, In, Dead
  <2>2. \A v \in Workers : ~sup'[v].event \/ sup'[v] = sup[v] BY <2>1 DEF TypeOK
  <2> QED BY <2>2 DEF Recorded
<1> QED BY <1>2, <1>3, <1>6, <1>7, RecordedFrame DEF KeysKept

LEMMA RecordedBudget ==
  ASSUME TypeOK, TypeOK', WorkerInv, Recorded, [Ledger!Next]_(Ledger!vars),
         NEW w \in Workers, BudgetFail(w)
  PROVE  Recorded'
<1>1. /\ run' = Settled({sup[w].run}, "failed") /\ "failed" \in Terminal
      /\ UNCHANGED <<queue, index, outdated, sup, signals, client>>
  BY DEF BudgetFail, Terminal, control, procs, inputs
<1> QED BY <1>1, KeysSame, RecordedCloses

LEMMA RecordedCancel ==
  ASSUME TypeOK, TypeOK', WorkerInv, Recorded, [Ledger!Next]_(Ledger!vars),
         NEW r \in Runs, NEW n \in 1..3,
         CancelQueued(r, n) \/ \E full \in BOOLEAN : CancelActive(r, full, n)
  PROVE  Recorded'
<1>1. KeysKept BY KeysNoticed DEF CancelQueued, CancelActive
<1>2. UNCHANGED <<index, outdated, sup>>
  BY DEF CancelQueued, CancelActive, procs, inputs
<1>3. \A q \in Runs : queue'[q].status \in {queue[q].status, "absent"}
  BY DroppedStatus DEF CancelQueued, CancelActive, control
<1>4. /\ \A q \in Runs \ {r} : run'[q] = run[q]
      /\ run'[r].status \in {"cancelled", "running", "failed"} /\ run'[r].cancel
  <2>1. CASE CancelQueued(r, n) BY <2>1 DEF CancelQueued, TypeOK, RunRecord
  <2>2. ASSUME NEW full \in BOOLEAN, CancelActive(r, full, n)
        PROVE  /\ \A q \in Runs \ {r} : run'[q] = run[q]
               /\ run'[r].status \in {"running", "failed"} /\ run'[r].cancel
    <3>1. run[r].status = "running"
      BY <2>2
      DEF CancelActive, Cancellable, NoWorker, Recorded, TypeOK, RunRecord, RunStatus
    <3>2. PICK rn : /\ rn = run \/ rn = Settled({r}, "failed")
                    /\ run' = [rn EXCEPT ![r].cancel = TRUE]
      BY <2>2 DEF CancelActive
    <3>3. rn \in [Runs -> RunRecord]
      BY <3>2, SettledType DEF TypeOK, RunStatus, Terminal
    <3>4. /\ run'[r].status = rn[r].status /\ run'[r].cancel
          /\ \A q \in Runs \ {r} : run'[q] = rn[q]
      BY <3>2, <3>3 DEF RunRecord
    <3> QED BY <3>1, <3>2, <3>4, SettledStatus
  <2> QED BY <2>1, <2>2
<1>5. \A q \in Runs : /\ queue'[q].status # "absent" =>
                           queue[q].status # "absent" \/ run'[q].status # "absent"
                      /\ run'[q].status \in {"queued", "awaiting_visual_review"} =>
                           run'[q].worker = None
                      /\ run'[q].status = "awaiting_visual_review" =>
                           queue'[q].status # "queued"
                      /\ q \in outdated' => q \in outdated \/ run[q].status # "absent"
  BY <1>2, <1>3, <1>4 DEF Recorded, Paused
<1>6. \A w \in Workers, q \in Runs :
        <<w, q>> \in signals' => <<w, q>> \in signals \/ run'[q].cancel
  BY <1>4 DEF CancelQueued, CancelActive, procs
<1>7. \A v \in Workers : sup'[v].event =>
        /\ sup'[v].pc = "executing"
        /\ run'[sup'[v].run].cancel \/ (sup'[v].run = sup[v].run /\ sup[v].event)
  BY <1>2 DEF Recorded
<1> QED BY <1>1, <1>2, <1>5, <1>6, <1>7, RecordedFrame DEF KeysKept

LEMMA RecordedDeliver ==
  ASSUME TypeOK, TypeOK', WorkerInv, Recorded, [Ledger!Next]_(Ledger!vars),
         NEW w \in Workers, NEW r \in Runs, NEW ok \in BOOLEAN, Deliver(w, r, ok)
  PROVE  Recorded'
<1>1. /\ UNCHANGED <<run, queue, index, outdated, client>>
      /\ signals' \subseteq signals /\ <<w, r>> \in signals
  BY DEF Deliver, work, control, inputs
<1>2. \A v \in Workers : /\ sup'[v].pc = sup[v].pc /\ sup'[v].run = sup[v].run
                         /\ sup'[v].event => \/ sup[v].event
                                             \/ sup[v].pc = "executing" /\ sup[v].run = r
  BY DEF Deliver, TypeOK, Supervisor
<1>3. run[r].cancel BY <1>1 DEF Recorded
<1>4. \A v \in Workers : sup'[v].event =>
        /\ sup'[v].pc = "executing"
        /\ run'[sup'[v].run].cancel \/ (sup'[v].run = sup[v].run /\ sup[v].event)
  BY <1>1, <1>2, <1>3 DEF Recorded
<1>5. \A q \in Runs : /\ queue'[q].status # "absent" =>
                           queue[q].status # "absent" \/ run'[q].status # "absent"
                      /\ run'[q].status \in {"queued", "awaiting_visual_review"} =>
                           run'[q].worker = None
                      /\ run'[q].status = "awaiting_visual_review" =>
                           queue'[q].status # "queued"
                      /\ q \in outdated' => q \in outdated \/ run[q].status # "absent"
  BY <1>1 DEF Recorded, Paused
<1> QED BY <1>1, <1>4, <1>5, KeysSame, RecordedFrame DEF KeysKept

LEMMA RecordedReview ==
  ASSUME TypeOK, TypeOK', WorkerInv, Recorded, [Ledger!Next]_(Ledger!vars), Reviewing
  PROVE  Recorded'
<1>1. ASSUME NEW a \in Analyses, Revise(a) PROVE Recorded'
  <2>1. /\ UNCHANGED <<run, queue, index, sup, signals>> /\ KeysKept
        /\ \A r \in Runs : r \in outdated' => r \in outdated \/ run[r].status # "absent"
    BY <1>1, KeysNoticed DEF Revise, control, procs
  <2>2. \A q \in Runs : /\ queue'[q].status # "absent" =>
                             queue[q].status # "absent" \/ run'[q].status # "absent"
                        /\ run'[q].status \in {"queued", "awaiting_visual_review"} =>
                             run'[q].worker = None
                        /\ run'[q].status = "awaiting_visual_review" =>
                             queue'[q].status # "queued"
                        /\ q \in outdated' => q \in outdated \/ run[q].status # "absent"
    BY <2>1 DEF Recorded, Paused
  <2>3. \A v \in Workers : sup'[v].event =>
          /\ sup'[v].pc = "executing"
          /\ run'[sup'[v].run].cancel \/ (sup'[v].run = sup[v].run /\ sup[v].event)
    BY <2>1 DEF Recorded
  <2> QED BY <2>1, <2>2, <2>3, RecordedFrame DEF KeysKept
<1>2. ASSUME NEW r \in Runs, NEW n \in 1..4, Finalize(r, n) PROVE Recorded'
  <2>1. KeysKept /\ UNCHANGED <<queue, index, outdated, sup, signals>>
    BY <1>2, KeysNoticed DEF Finalize, control, procs, inputs
  <2>2. /\ Paused(r) /\ \A q \in Runs \ {r} : run'[q] = run[q]
        /\ run'[r].status \in {"awaiting_visual_review", "completed"}
        /\ run'[r].worker = run[r].worker
    BY <1>2, PresentedRun
  <2>3. \A q \in Runs : /\ queue'[q].status # "absent" =>
                             queue[q].status # "absent" \/ run'[q].status # "absent"
                        /\ run'[q].status \in {"queued", "awaiting_visual_review"} =>
                             run'[q].worker = None
                        /\ run'[q].status = "awaiting_visual_review" =>
                             queue'[q].status # "queued"
                        /\ q \in outdated' => q \in outdated \/ run[q].status # "absent"
    BY <2>1, <2>2 DEF Recorded, Paused
  <2>4. \A v \in Workers : sup'[v].event =>
          /\ sup'[v].pc = "executing"
          /\ run'[sup'[v].run].cancel \/ (sup'[v].run = sup[v].run /\ sup[v].event)
    BY <2>1 DEF Recorded
  <2> QED BY <2>1, <2>3, <2>4, RecordedFrame DEF KeysKept
<1> QED BY <1>1, <1>2, RecordedClientMoves DEF Reviewing

LEMMA RecordedStep ==
  TypeOK /\ TypeOK' /\ WorkerInv /\ Recorded /\ [Next]_vars => Recorded'
<1> SUFFICES ASSUME TypeOK, TypeOK', WorkerInv, Recorded, [Next]_vars PROVE Recorded'
  OBVIOUS
<1>1. [Ledger!Next]_(Ledger!vars) BY LedgerStep
<1>2. ASSUME NEW c \in Clients, ClientNext(c) PROVE Recorded'
  BY <1>1, <1>2, RecordedClientMoves, RecordedExisting, RecordedCommit, RecordedFails
  DEF ClientNext, Recovering, Launching, Submitting
<1>3. ASSUME NEW w \in Workers, SupervisorNext(w) PROVE Recorded'
  BY <1>1, <1>3, RecordedSupervisor, RecordedTake, RecordedFinish, RecordedBudget
  DEF SupervisorNext, Supervising
<1>4. CASE Cancelling \/ Delivering
  BY <1>1, <1>4, RecordedCancel, RecordedDeliver DEF Cancelling, Delivering
<1>5. CASE UNCHANGED vars
  BY <1>1, <1>5, KeysSame, RecordedQuiet DEF vars, work, control, procs, inputs
<1> QED BY <1>1, <1>2, <1>3, <1>4, <1>5, RecordedReview DEF Next

-----------------------------------------------------------------------------
(* Theorems *)

\* Only a run that exists has an entry, an index, a cancellation or a packet.
THEOREM RecordsAgree == Spec => []Recorded
BY TypeCorrect, WorkersCorrect, RecordedInit, RecordedStep, PTL DEF Spec

\* The run records are a ledger: whatever clients, supervisors and crashes do,
\* run.json takes the steps of RunLedger and no others.
THEOREM LedgerImplemented == Spec => LedgerSpec
<1>1. Init => Ledger!Init
  <2> SUFFICES ASSUME Init PROVE Ledger!Init OBVIOUS
  <2>1. /\ \A r \in Runs : run[r].status = "absent" /\ ~run[r].cancel
        /\ \A w \in Workers : sup[w].pc # "executing"
    BY DEF Init, NoRun, Dead
  <2> QED BY <2>1, HolderNone DEF Ledger!Init
<1> QED BY <1>1, LedgerStep, RecordsAgree, TypeCorrect, WorkersCorrect, PTL
        DEF Spec, LedgerSpec, Ledger!Spec

\* An accepted cancellation is never overtaken by a result: the ledger lets a
\* run asked to stop end in no review and no completion.
THEOREM CancellationsWin == Spec => []CancelHonoured
<1>1. Init => CancelHonoured BY DEF Init, CancelHonoured, NoRun
<1>2. Recorded /\ CancelHonoured /\ [Ledger!Next]_(Ledger!vars) => CancelHonoured'
  BY LedgerKeeps DEF CancelHonoured, Recorded
<1> QED BY <1>1, <1>2, LedgerStep, RecordsAgree, TypeCorrect, WorkersCorrect, PTL DEF Spec

\* Only what a caller named is cancelled, though a packet may come late.
THEOREM OnlySelectedCancelled == Spec => []CancelOnlySelected
<1> DEFINE Flagged == \A r \in Runs : run[r].status = "cancelled" => run[r].cancel
<1>1. Init => Flagged BY DEF Init, NoRun
<1>2. Recorded /\ Flagged /\ [Ledger!Next]_(Ledger!vars) => Flagged'
  BY LedgerKeeps
<1>3. Recorded /\ Flagged => CancelOnlySelected BY DEF CancelOnlySelected, Recorded
<1> QED BY <1>1, <1>2, <1>3, LedgerStep, RecordsAgree, TypeCorrect, WorkersCorrect, PTL
        DEF Spec

-----------------------------------------------------------------------------
(* One run for each key *)

\* A run that does not exist is only made by commit_submit.
LEMMA OnlyCommitCreates ==
  ASSUME TypeOK, WorkerInv, Recorded, [Next]_vars, NEW r \in Runs,
         run[r].status = "absent", run'[r].status # "absent"
  PROVE  \E c \in Clients, n \in 1..4 : CommitSubmit(c, r, n)
<1>1. run' # run OBVIOUS
<1>2. ASSUME NEW S, NEW st, run' = Settled(S, st) PROVE r \in S
  BY <1>2, SettledStatus
<1>3. ASSUME NEW c \in Clients, ClientNext(c) PROVE \E n \in 1..4 : CommitSubmit(c, r, n)
  <2>1. ASSUME NEW q \in Runs, NEW n \in 1..3, Resubmit(c, q, n) \/ CommitExisting(c, q, n)
        PROVE  FALSE
    <3>1. run[q].status # "absent" /\ run' = Settled({q}, "interrupted")
      BY <1>1, <2>1, FoundExists DEF Repaired
    <3> QED BY <1>2, <3>1
  <2>2. ASSUME NEW q \in Runs, NEW n \in 1..4, CommitSubmit(c, q, n) PROVE q = r
    BY <2>2 DEF CommitSubmit, TypeOK
  <2>3. ASSUME NEW n, EnsureInterrupts(c, n) PROVE FALSE
    BY <1>2, <2>3, EntryExists DEF EnsureInterrupts, Lost, Claimed
  <2>4. ASSUME NEW P \in SUBSET Runs, NEW S \in SUBSET Runs, NEW f, LaunchFailed(c, P, S, f)
        PROVE  FALSE
    <3>1. r \in P BY <1>2, <2>4 DEF LaunchFailed
    <3> QED BY <2>4, <3>1, EntryExists DEF LaunchFailed, Prefixes
  <2> QED BY <1>1, <1>3, <2>1, <2>2, <2>3, <2>4
          DEF ClientNext, Reconciling, Reconcile, EnsureNothing, Recovering, EnsureSettles,
              EnsureLaunches, Launching, LaunchSpawn, LaunchReturns, LaunchRaises,
              LaunchSpared, Submitting, CheckSubmit, SubmitRejected, ClientDies, work
<1>4. ASSUME NEW w \in Workers, SupervisorNext(w) PROVE FALSE
  <2>1. ASSUME NEW q \in Runs, NEW n \in 1..3, Take(w, q, n) PROVE FALSE
    BY <2>1, EntryExists DEF Take, TypeOK
  <2>2. ASSUME NEW o \in Outcomes, FinishBusy(w, o) \/ \E n \in 1..3 : Finish(w, o, n)
        PROVE  FALSE
    <3>1. sup[w].run \in Runs /\ run' = Finished(w, o) /\ sup[w].pc = "executing"
      BY <2>2 DEF Finish, FinishBusy, TypeOK
    <3>2. r = sup[w].run /\ ~Ended(r) BY <1>1, <3>1, FinishedStatus
    <3> QED BY <3>1, <3>2 DEF WorkerInv, ExecutionOwned
  <2>3. ASSUME BudgetFail(w) PROVE FALSE
    BY <1>2, <2>3 DEF BudgetFail, WorkerInv, ExecutionOwned
  <2> QED BY <1>1, <1>4, <2>1, <2>2, <2>3
          DEF SupervisorNext, Supervising, Boot, BootBlocked, CheckClaim, PublishReady, Stop,
              Exit, Kill, TakeDies, work
<1>5. ASSUME NEW q \in Runs, NEW n \in 1..3,
             CancelQueued(q, n) \/ \E full \in BOOLEAN : CancelActive(q, full, n)
      PROVE  FALSE
  <2>1. run[q].status # "absent"
    BY <1>5 DEF CancelQueued, CancelActive, Cancellable
  <2>2. q # r BY <2>1
  <2>3. CASE CancelQueued(q, n) BY <2>2, <2>3 DEF CancelQueued, TypeOK
  <2>4. ASSUME NEW full \in BOOLEAN, CancelActive(q, full, n) PROVE FALSE
    <3>1. PICK rn : /\ rn = run \/ rn = Settled({q}, "failed")
                    /\ run' = [rn EXCEPT ![q].cancel = TRUE]
      BY <2>4 DEF CancelActive
    <3>2. rn \in [Runs -> RunRecord] BY <3>1, SettledType DEF TypeOK, RunStatus, Terminal
    <3> QED BY <2>2, <3>1, <3>2, SettledStatus
  <2> QED BY <1>5, <2>3, <2>4
<1>6. ASSUME Reviewing PROVE FALSE
  <2>1. ASSUME NEW q \in Runs, NEW n \in 1..4, Finalize(q, n) PROVE FALSE
    BY <1>1, <1>2, <2>1, PresentedRun DEF Paused
  <2> QED BY <1>1, <1>2, <1>6, <2>1 DEF Reviewing, Revise, Approve, Recover
<1>7. ASSUME Delivering PROVE FALSE BY <1>1, <1>7 DEF Delivering, Deliver, work
<1>8. ASSUME UNCHANGED vars PROVE FALSE BY <1>1, <1>8 DEF vars, work
<1> QED BY <1>3, <1>4, <1>5, <1>6, <1>7, <1>8 DEF Next, Cancelling

\* An idempotency key gets one run, whatever died between the run and the index.
THEOREM KeysGetOneRun == Spec => []OneRunPerKey
<1>1. Init => OneRunPerKey BY DEF Init, OneRunPerKey, NoRun
<1>2. TypeOK /\ WorkerInv /\ Recorded /\ OneRunPerKey /\ [Next]_vars => OneRunPerKey'
  <2> SUFFICES ASSUME TypeOK, WorkerInv, Recorded, OneRunPerKey, [Next]_vars,
                      NEW r \in Runs, NEW q \in Runs, run'[r].status # "absent",
                      run'[q].status # "absent", KeyOf[r] = KeyOf[q], r # q
               PROVE  FALSE
    BY DEF OneRunPerKey
  <2>1. ASSUME NEW p \in Runs, NEW o \in Runs, p # o, run[p].status = "absent",
               run'[p].status # "absent", run'[o].status # "absent", KeyOf[p] = KeyOf[o]
        PROVE  FALSE
    <3>1. PICK c \in Clients, n \in 1..4 : CommitSubmit(c, p, n)
      BY <2>1, OnlyCommitCreates
    <3>2. run'[o] = run[o] BY <2>1, <3>1 DEF CommitSubmit, TypeOK
    <3>3. Matches(KeyOf[p]) = {} BY <3>1 DEF CommitSubmit, Committable
    <3> QED BY <2>1, <3>2, <3>3 DEF Matches
  <2>2. run[r].status # "absent" /\ run[q].status # "absent" BY <2>1
  <2> QED BY <2>2 DEF OneRunPerKey
<1> QED BY <1>1, <1>2, RecordsAgree, TypeCorrect, WorkersCorrect, PTL DEF Spec
==============================================================================
