------------------------------ MODULE RunExecution ------------------------------
(***************************************************************************)
(* The execution of one run by its supervisor: analysis_execution,         *)
(* analysis_pipeline, analysis_native_transaction, analysis_solver,        *)
(* analysis_gui, analysis_process with its guardian, and analysis_budget.  *)
(*                                                                         *)
(* Levels of meshes and the declared load cases are worked through in a    *)
(* transaction that verifies the whole native runtime when it is entered   *)
(* and when it is sealed; every native phase is one owned process, with    *)
(* checks of its tool before and after.  The sealed attempt is bound to    *)
(* the run and rebuilt in the native GUI, in a second transaction.         *)
(* Checkpoints look at cancellation, deadline, disk and memory budgets and *)
(* the installed package.                                                  *)
(*                                                                         *)
(* A file that was changed does not become what it was again.  Left out:   *)
(* what the native tools compute; an observed value is 0, as at level 0,   *)
(* or 1; equal values agree within the declared tolerance.                 *)
(*                                                                         *)
(* Definitions marked "Wrong" are slips, not the model.                    *)
(***************************************************************************)
EXTENDS Naturals, Sequences, FiniteSets

CONSTANTS
  Cases,       \* declared load cases, worked through in order: 1..Cases
  Levels,      \* mesh levels of the specification
  MaxChanges,  \* bound: how many kinds of reviewed things are changed
  None

ASSUME ExecutionAssumption == Cases \in Nat \ {0} /\ Levels \in Nat /\ Levels >= 3

VARIABLES
  changed,     \* what is no longer as it was reviewed
  stops,       \* why the run should stop: cancelled, expired, excess
  scratch,     \* who holds the root lock of the native scratch: "run", "other", None
  at,          \* where the supervisor is
  process,     \* the owned native process with its descendants
  rows,        \* the validated levels of every case, in the order they were validated
  spoiled,     \* the kinds of evidence something changed is part of
  files,       \* attempt.json, failure.json, receipt.json, execution.json
  bound,       \* the run record names the attempt
  outcome      \* what the run record says at the end, or None

evidence == <<rows, spoiled, files, bound>>
vars == <<changed, stops, scratch, at, process, evidence, outcome>>

-----------------------------------------------------------------------------
(* Vocabulary *)

\* executor: the installed package; tools: the executables and native modules
\* pinned by every phase; inventory: the rest of the isolated runtime;
\* attempt: the files of the sealed attempt.
Reviewed == {"executor", "tools", "inventory", "attempt"}
Reasons == {"cancelled", "expired", "excess"}
\* The native phases of one level of one case; a mesh is shared by the cases.
Stages == <<"mesh", "deck", "solve", "fields">>
FirstStage(case) == IF case = 1 THEN 1 ELSE 2
Files == {"attempt", "failure", "receipt", "execution"}

\* attempting: within the try of execute_attempt.
Place(step, stage, case, level) ==
  [at EXCEPT !.step = step, !.stage = stage, !.case = case, !.level = level]
Is(step) == at.step = step
Goes(step) == at' = [at EXCEPT !.step = step]
Raises(code) == at' = [at EXCEPT !.step = "raising", !.code = code]
NoProcess == [alive |-> FALSE, asked |-> FALSE, code |-> None]

\* require_process_exit and the supervisor's mapping of codes to statuses:
\* what is not cancelled, timed out or interrupted has failed.
Codes == {"cancelled", "timed_out", "interrupted", "failed"}
ASSUME NoneAssumption == None \notin Codes \cup {"awaiting_visual_review"}
CodeOf(reason) ==
  CASE reason = "cancelled" -> "cancelled" [] reason = "expired" -> "timed_out" [] OTHER -> "failed"

-----------------------------------------------------------------------------
(* BudgetGuard.checkpoint *)

\* Cancellation and the deadline are looked at every time.
Halted == stops \cap {"cancelled", "expired"}
\* The budgets and the package are probed when it is forced, and otherwise
\* when half a second has passed since the last probe.
Exceeded == stops \cap {"excess"} # {} \/ "executor" \in changed
CodesOf(reasons) == {CodeOf(reason) : reason \in reasons}
\* A forced checkpoint: raises, or lets pass.
Forced(pass) ==
  IF Halted # {} THEN \E code \in CodesOf(Halted) : Raises(code)
  ELSE IF Exceeded THEN Raises("failed") ELSE pass
\* One that may find its probe not due yet.
Checkpoint(pass) ==
  IF Halted # {} THEN \E code \in CodesOf(Halted) : Raises(code)
  ELSE pass \/ (Exceeded /\ Raises("failed"))

-----------------------------------------------------------------------------
(* NativeTransaction *)

\* (Wrong: the end of a transaction only looks at the pinned executables.)
VerifiedTools == "tools" \notin changed
\* verify_settings: the complete isolated inventory.
Verified == changed \cap {"tools", "inventory"} = {}

\* execute_run, execution_settings, _load_inputs: the exact approved tools.
Load ==
  /\ Is("loading")
  /\ IF Verified THEN Forced(at' = [at EXCEPT !.step = "entering", !.attempting = TRUE])
     ELSE Raises("failed")
  /\ UNCHANGED <<changed, stops, scratch, process, evidence, outcome>>
\* __enter__: verified again, and the scratch root locked; the wait for the
\* lock runs checkpoints.
Enter(kind, to) ==
  /\ Is(kind)
  /\ IF ~Verified THEN Raises("failed") /\ UNCHANGED scratch
     ELSE \/ Forced(FALSE) /\ UNCHANGED scratch
          \/ Halted = {} /\ ~Exceeded /\ scratch = None /\ scratch' = "run" /\ at' = to
  /\ UNCHANGED <<changed, stops, process, evidence, outcome>>
EnterAttempt == Enter("entering", Place("ready", FirstStage(1), 1, 0))
EnterGui == Enter("gui_entering", Place("ready", 5, 1, 0))

\* seal and __exit__: the inventory again between two forced checkpoints, the
\* scratch cleared and its lock given up.
Seal(kind, to) ==
  /\ Is(kind)
  /\ IF Verified
     THEN \/ Forced(Goes(to))
          \/ Raises("failed")
     ELSE Raises("failed")
  /\ scratch' = None
  /\ UNCHANGED <<changed, stops, process, evidence, outcome>>
SealAttempt == Seal("sealing", "recording")
SealGui == Seal("gui_sealing", "receipting")

-----------------------------------------------------------------------------
(* One native phase: NativeTransaction._run, solve_native, _launch_gui *)

\* verify_tool_identity and verify_native_modules, then the process.
StartProcess ==
  /\ Is("ready")
  /\ IF "tools" \in changed THEN Raises("failed") /\ UNCHANGED process
     ELSE \/ Checkpoint(FALSE) /\ UNCHANGED process
          \/ /\ Halted = {}
             /\ process' = [alive |-> TRUE, asked |-> FALSE, code |-> None]
             /\ Goes("running")
  /\ UNCHANGED <<changed, stops, scratch, evidence, outcome>>
\* The child ends; its guardian or Job ends what is left of its group.
ChildExits ==
  /\ process.alive /\ ~process.asked
  /\ \E code \in {"ok", "bad"} : process' = [process EXCEPT !.alive = FALSE, !.code = code]
  /\ UNCHANGED <<changed, stops, scratch, at, evidence, outcome>>
\* A checkpoint between two polls raises, or poll finds the stage's timeout or
\* the log budget passed: the child is terminated.
Interrupt ==
  /\ Is("running") /\ process.alive
  /\ process' = [process EXCEPT !.asked = TRUE]
  /\ \/ Checkpoint(FALSE)
     \/ \E code \in {"timed_out", "failed"} : Raises(code)
  /\ UNCHANGED <<changed, stops, scratch, evidence, outcome>>
\* (Wrong: a guardian that waits for its child only.)
EndsWithOwnerNever == FALSE
\* The guardian reads end of file when the owner closes its pipe or is gone
\* (on Windows the last handle of the Job is closed) and kills the group.
EndsWithOwner == process.asked \/ Is("dead")
GroupKilled ==
  /\ process.alive /\ EndsWithOwner
  /\ process' = [process EXCEPT !.alive = FALSE, !.code = "bad"]
  /\ UNCHANGED <<changed, stops, scratch, at, evidence, outcome>>
\* poll returned an outcome: checked after the process as before it.
Accepts == process.code = "ok" /\ "tools" \notin changed
Kind == IF at.stage = 5 THEN "gui" ELSE "numerical"
Spoils == IF changed \cap {"tools", "inventory", "executor"} = {} THEN spoiled ELSE spoiled \cup {Kind}
AfterProcess ==
  /\ Is("running") /\ ~process.alive
  /\ process' = NoProcess
  /\ IF Accepts
     THEN \/ Checkpoint(FALSE) /\ UNCHANGED spoiled
          \/ Halted = {} /\ Goes("done") /\ spoiled' = Spoils
          \/ Raises("failed") /\ UNCHANGED spoiled
     ELSE Raises("failed") /\ UNCHANGED spoiled
  /\ UNCHANGED <<changed, stops, scratch, rows, files, bound, outcome>>
NextStage ==
  /\ Is("done") /\ at.stage < 4
  /\ Forced(at' = [at EXCEPT !.step = "ready", !.stage = @ + 1])
  /\ UNCHANGED <<changed, stops, scratch, process, evidence, outcome>>

-----------------------------------------------------------------------------
(* run_case_level, _run_cases, evaluate_convergence *)

Row == [level : 0..Levels - 1, passed : BOOLEAN, outside : BOOLEAN, value : {0, 1}]
\* (Wrong: only the last two levels are compared.)
AgreesLast(mine) == mine[Len(mine)].value = mine[Len(mine) - 1].value
\* The mandatory observations of the last three levels, each with the next.
Agrees(mine) ==
  \A i \in {Len(mine) - 2, Len(mine) - 1} : mine[i].value = mine[i + 1].value
\* The levels of one case: at least three that passed, from the coarsest on.
Complete(mine) ==
  /\ Len(mine) >= 3
  /\ \A i \in 1..Len(mine) : mine[i].passed /\ mine[i].level = i - 1
\* evaluate_convergence; whether what has not passed has failed or is
\* inconclusive makes no difference to the run.
Converged(done) == \A case \in 1..Cases : Complete(done[case]) /\ Agrees(done[case])
OutsideScope(done) ==
  \E case \in 1..Cases : \E i \in 1..Len(done[case]) : done[case][i].outside
NumericalPassed == Converged(rows) /\ ~OutsideScope(rows)

\* (Wrong: the number of the last level is one too high.)
LastLevelNext == Levels
LastLevel == Levels - 1
\* validate_level, and where _run_cases goes from there.
Finished(row, done) ==
  \/ ~row.passed \/ row.outside
  \/ at.case = Cases /\ at.level >= 2 /\ Converged(done)
  \/ at.case = Cases /\ at.level = LastLevel
Onward ==
  IF at.case < Cases
  THEN Place("ready", FirstStage(at.case + 1), at.case + 1, at.level)
  ELSE Place("ready", FirstStage(1), 1, at.level + 1)
ValidateLevel ==
  /\ Is("done") /\ at.stage = 4
  /\ \E passed, outside \in BOOLEAN, value \in {0, 1} :
       LET row == [level |-> at.level, passed |-> passed, outside |-> outside, value |-> value]
       IN /\ (passed /\ ~outside /\ at.level > 0) \/ value = 0
          /\ rows' = [rows EXCEPT ![at.case] = Append(@, row)]
          /\ Forced(IF Finished(row, rows') THEN Goes("sealing") ELSE at' = Onward)
  /\ UNCHANGED <<changed, stops, scratch, process, spoiled, files, bound, outcome>>
\* validate_level refuses the mesh, the fields or an empty region.
ValidationRaises ==
  /\ Is("done") /\ at.stage = 4
  /\ Raises("failed")
  /\ UNCHANGED <<changed, stops, scratch, process, evidence, outcome>>

-----------------------------------------------------------------------------
(* The end of execute_attempt, publish_attempt *)

Writes(file) == files' = files \cup {file}
\* attempt.json, with the inventory of what the attempt wrote.
RecordAttempt ==
  /\ Is("recording")
  /\ Writes("attempt")
  /\ Goes("recorded")
  /\ UNCHANGED <<changed, stops, scratch, process, rows, spoiled, bound, outcome>>
\* One more forced checkpoint: an attempt may be left beside a failure.
Recorded ==
  /\ Is("recorded")
  /\ Forced(at' = [at EXCEPT !.step = "binding", !.attempting = FALSE])
  /\ UNCHANGED <<changed, stops, scratch, process, evidence, outcome>>
BindAttempt ==
  /\ Is("binding")
  /\ IF "cancelled" \in stops THEN Raises("cancelled") /\ UNCHANGED bound
     ELSE IF "attempt" \in changed THEN Raises("failed") /\ UNCHANGED bound
     ELSE /\ bound' = TRUE
          /\ IF NumericalPassed THEN Goes("gui_request")
             ELSE at' = [at EXCEPT !.step = "returning", !.code = "failed"]
  /\ UNCHANGED <<changed, stops, scratch, process, rows, spoiled, files, outcome>>

-----------------------------------------------------------------------------
(* AnalysisGuiService: issue_request, execute_request, verify_receipt *)

\* _attempt: the complete inventory of the sealed attempt.
Intact == "attempt" \notin changed
IssueRequest ==
  /\ Is("gui_request")
  /\ IF Intact THEN Goes("gui_entering") ELSE Raises("failed")
  /\ UNCHANGED <<changed, stops, scratch, process, evidence, outcome>>
NextGuiCase ==
  /\ Is("done") /\ at.stage = 5
  /\ Checkpoint(IF at.case < Cases THEN at' = Place("ready", 5, at.case + 1, 0)
                ELSE Goes("gui_sealing"))
  /\ UNCHANGED <<changed, stops, scratch, process, evidence, outcome>>
\* The receipt of all declared cases, which is verified.
WriteReceipt ==
  /\ Is("receipting")
  /\ Writes("receipt")
  /\ IF Intact THEN Forced(Goes("executed")) ELSE Raises("failed")
  /\ UNCHANGED <<changed, stops, scratch, process, rows, spoiled, bound, outcome>>
\* execution.json, a forced checkpoint and verify_execution.
WriteExecution ==
  /\ Is("executed")
  /\ Writes("execution")
  /\ IF Intact THEN Forced(at' = [at EXCEPT !.step = "returning", !.code = "awaiting_visual_review"])
     ELSE Raises("failed")
  /\ UNCHANGED <<changed, stops, scratch, process, rows, spoiled, bound, outcome>>

-----------------------------------------------------------------------------
(* The end of the run *)

\* Exits of the transactions and finally clauses: what still runs is
\* terminated, a failed attempt keeps its scratch and writes failure.json;
\* the verification of __exit__ may raise in place of what was raised.
Unwind ==
  /\ Is("raising") /\ ~process.alive
  /\ \E code \in {at.code} \cup CodesOf(stops) \cup (IF Verified THEN {} ELSE {"failed"}) :
       at' = [at EXCEPT !.step = "returned", !.code = code]
  /\ scratch' = IF scratch = "run" THEN None ELSE scratch
  /\ files' = IF at.attempting THEN files \cup {"failure"} ELSE files
  /\ process' = NoProcess
  /\ UNCHANGED <<changed, stops, rows, spoiled, bound, outcome>>
\* (Wrong: an execution that is complete is published although it was to stop.)
OutcomeKept(code) == code
\* _finish: cancellation and completion linearize at the locks.
Outcome(code) == IF "cancelled" \in stops THEN "cancelled" ELSE code
\* _finish, before it locks: verify_execution again.
Verify ==
  /\ Is("returning")
  /\ at' = [at EXCEPT !.step = "returned",
                     !.code = IF @ = "awaiting_visual_review" /\ ~Intact THEN "failed" ELSE @]
  /\ UNCHANGED <<changed, stops, scratch, process, evidence, outcome>>
Finish ==
  /\ Is("returned")
  /\ outcome' = Outcome(at.code)
  /\ Goes("finished")
  /\ UNCHANGED <<changed, stops, scratch, process, evidence>>
\* The supervisor is killed; its lock is released by the system.
Die ==
  /\ at.step \notin {"finished", "dead"}
  /\ Goes("dead")
  /\ scratch' = IF scratch = "run" THEN None ELSE scratch
  /\ UNCHANGED <<changed, stops, process, evidence, outcome>>

-----------------------------------------------------------------------------
(* Around the supervisor *)

Change(what) ==
  /\ what \notin changed /\ Cardinality(changed) < MaxChanges
  /\ what = "attempt" => "attempt" \in files
  /\ changed' = changed \cup {what}
  /\ UNCHANGED <<stops, scratch, at, process, evidence, outcome>>
Stop(reason) ==
  /\ reason \notin stops
  /\ stops' = stops \cup {reason}
  /\ UNCHANGED <<changed, scratch, at, process, evidence, outcome>>
\* A qualification or a viewer uses the same scratch root.
OtherOwner ==
  /\ \/ scratch = None /\ scratch' = "other"
     \/ scratch = "other" /\ scratch' = None
  /\ UNCHANGED <<changed, stops, at, process, evidence, outcome>>
\* What has ended stays as it is.
Rest ==
  /\ at.step \in {"finished", "dead"} /\ ~process.alive
  /\ UNCHANGED vars

-----------------------------------------------------------------------------
Init ==
  /\ changed = {} /\ stops = {} /\ scratch = None
  /\ at = [step |-> "loading", stage |-> 1, case |-> 1, level |-> 0,
           attempting |-> FALSE, code |-> None]
  /\ process = NoProcess
  /\ rows = [case \in 1..Cases |-> << >>] /\ spoiled = {} /\ files = {} /\ bound = FALSE
  /\ outcome = None

Supervising ==
  \/ Load \/ EnterAttempt \/ EnterGui \/ SealAttempt \/ SealGui
  \/ StartProcess \/ AfterProcess \/ NextStage \/ ValidateLevel \/ ValidationRaises
  \/ RecordAttempt \/ Recorded \/ BindAttempt
  \/ IssueRequest \/ NextGuiCase \/ WriteReceipt \/ WriteExecution
  \/ Unwind \/ Verify \/ Finish
Around ==
  \/ (\E what \in Reviewed : Change(what)) \/ (\E reason \in Reasons : Stop(reason))
  \/ OtherOwner \/ Die
Next == Supervising \/ Interrupt \/ ChildExits \/ GroupKilled \/ Around \/ Rest
Spec == Init /\ [][Next]_vars

\* The supervisor goes on, a child is interrupted in the end (every stage has
\* a timeout), time passes and the guardian is scheduled.  Nothing is assumed
\* of the child itself or of the other owner of the scratch.
FairSpec ==
  /\ Spec
  /\ WF_vars(Supervising) /\ WF_vars(Interrupt)
  /\ WF_vars(GroupKilled) /\ WF_vars(Stop("expired"))

-----------------------------------------------------------------------------
(* Properties *)

Steps ==
  {"loading", "entering", "ready", "running", "done", "sealing", "recording", "recorded",
   "binding", "gui_request", "gui_entering", "gui_sealing", "receipting", "executed",
   "raising", "returning", "returned", "finished", "dead"}
TypeOK ==
  /\ changed \subseteq Reviewed /\ stops \subseteq Reasons
  /\ scratch \in {"run", "other", None}
  /\ at \in [step : Steps, stage : 1..5, case : 1..Cases, level : 0..Levels - 1,
             attempting : BOOLEAN, code : Codes \cup {"awaiting_visual_review", None}]
  /\ process \in [alive : BOOLEAN, asked : BOOLEAN, code : {"ok", "bad", None}]
  /\ rows \in [1..Cases -> Seq(Row)]
  /\ files \subseteq Files /\ spoiled \subseteq {"numerical", "gui"} /\ bound \in BOOLEAN
  /\ outcome \in Codes \cup {"awaiting_visual_review", None}

\* A run that waits for its visual review rests on evidence nothing changed is
\* part of: every case was solved on the same levels 0, 1, 2, ..., passed at
\* each within its declared scope, gave the same value on the last three, the
\* attempt did not fail afterwards, and GUI receipt and execution are there.
Refined(mine) ==
  /\ Len(mine) >= 3
  /\ \A i \in 1..Len(mine) :
       /\ mine[i].level = i - 1 /\ mine[i].passed /\ ~mine[i].outside
       /\ i > Len(mine) - 3 => mine[i].value = mine[Len(mine)].value
ReviewableSound ==
  outcome = "awaiting_visual_review" =>
    /\ spoiled = {} /\ bound
    /\ files = {"attempt", "receipt", "execution"}
    /\ \A case \in 1..Cases : Refined(rows[case]) /\ Len(rows[case]) = Len(rows[1])

\* No run is left for review once cancellation was requested, and while one of
\* its processes lives nothing else of it is started, sealed or finished.
StopHonoured ==
  [][/\ outcome' = "awaiting_visual_review" /\ outcome = None => "cancelled" \notin stops
     /\ process.alive /\ at' # at => at'.step \in {"raising", "dead"}]_vars

\* Every execution ends: with an outcome or with the death of the supervisor,
\* also when a native process hangs or the scratch is never given up; and then
\* no native process of it is left.
RunEnds == <>[](at.step \in {"finished", "dead"} /\ ~process.alive /\ scratch # "run")
=============================================================================
