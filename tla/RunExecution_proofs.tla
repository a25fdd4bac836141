-------------------------- MODULE RunExecution_proofs --------------------------
(***************************************************************************)
(* Theorems about the execution of a run: what its review may rest on, and *)
(* that a request to stop wins over whatever was achieved.                 *)
(***************************************************************************)
EXTENDS RunExecution, SequenceTheorems, TLAPS

\* The levels of a case that were validated one after the other, none of which
\* ended the loops.
Ordered(mine) ==
  \A i \in 1..Len(mine) : mine[i].passed /\ ~mine[i].outside /\ mine[i].level = i - 1
\* The loops have come to this level of this case.
Worked(case, level) ==
  \A other \in 1..Cases :
    /\ Ordered(rows[other])
    /\ Len(rows[other]) = IF other < case THEN level + 1 ELSE level
\* All cases, on the same levels.
AllRefined ==
  \A case \in 1..Cases : Refined(rows[case]) /\ Len(rows[case]) = Len(rows[1])
Even == NumericalPassed => \A case \in 1..Cases : Len(rows[case]) = Len(rows[1])

InPhase == at.step \in {"ready", "running", "done"}
Awaiting == "awaiting_visual_review"
Before == at.step \in {"loading", "entering"}
Computing == InPhase /\ at.stage \in 1..4
Sealing == at.step \in {"sealing", "recording", "recorded", "binding"}
InGui ==
  \/ at.step \in {"gui_request", "gui_entering", "gui_sealing", "receipting", "executed"}
  \/ InPhase /\ at.stage = 5

\* The loops over levels and cases: where they are is what has been validated,
\* and the native GUI is only started on what has converged.
LoopInv ==
  /\ Before => Worked(1, 0)
  /\ Computing => Worked(at.case, at.level)
  /\ Sealing => Even
  /\ InGui => bound /\ AllRefined
\* The files tell how far the execution has come.
FilesInv ==
  /\ Before \/ Computing \/ at.step \in {"sealing", "recording"} => files = {}
  /\ at.step \in {"recorded", "binding"} => files = {"attempt"}
  /\ InGui => files = IF Is("executed") THEN {"attempt", "receipt"} ELSE {"attempt"}
\* Evidence was spoiled only by a change that a seal would find.
SpoilInv ==
  /\ spoiled # {} => changed \cap {"tools", "inventory", "executor"} # {}
  /\ at.step \in {"receipting", "executed"} => spoiled = {}
\* How the execution returns, and when it may still own a process.
EndInv ==
  /\ at.code = Awaiting => at.step \in {"returning", "returned", "finished", "dead"}
  /\ Is("raising") => at.code \in Codes
  /\ at.step \in {"returning", "returned"} => at.code \in Codes \cup {Awaiting}
  /\ outcome # None => Is("finished")
  /\ process.alive => at.step \in {"running", "raising", "dead"}
Sound ==
  /\ spoiled = {} /\ bound
  /\ files = {"attempt", "receipt", "execution"}
  /\ AllRefined
ExecutionInv ==
  /\ TypeOK /\ LoopInv /\ FilesInv /\ SpoilInv /\ EndInv
  /\ at.code = Awaiting \/ outcome = Awaiting => Sound

-----------------------------------------------------------------------------
(* How the supervisor moves *)

Places ==
  [step : Steps, stage : 1..5, case : 1..Cases, level : 0..Levels - 1,
   attempting : BOOLEAN, code : Codes \cup {Awaiting, None}]
ProcessStates == [alive : BOOLEAN, asked : BOOLEAN, code : {"ok", "bad", None}]

LEMMA AtType == TypeOK => at \in Places /\ process \in ProcessStates
BY DEF TypeOK, Places, ProcessStates, Awaiting

LEMMA GoesTo ==
  ASSUME TypeOK, NEW step \in Steps, Goes(step)
  PROVE  /\ at' \in Places /\ at'.step = step /\ at'.stage = at.stage /\ at'.case = at.case
         /\ at'.level = at.level /\ at'.code = at.code
BY AtType DEF Goes, Places

LEMMA RaisesWith ==
  ASSUME TypeOK, NEW code \in Codes, Raises(code)
  PROVE  at' \in Places /\ at'.step = "raising" /\ at'.code = code
BY AtType DEF Raises, Places, Steps

\* What a step must leave in place for the types to stay.
Typed ==
  /\ changed' \subseteq Reviewed /\ stops' \subseteq Reasons
  /\ scratch' \in {"run", "other", None}
  /\ process' \in ProcessStates /\ rows' \in [1..Cases -> Seq(Row)]
  /\ files' \subseteq Files /\ spoiled' \subseteq {"numerical", "gui"} /\ bound' \in BOOLEAN
  /\ outcome' \in Codes \cup {Awaiting, None}

LEMMA TypeStays == ASSUME Typed, at' \in Places PROVE TypeOK'
BY DEF Typed, TypeOK, Places, ProcessStates, Awaiting

LEMMA TypeFrame ==
  ASSUME TypeOK, UNCHANGED <<changed, stops, scratch, process, evidence, outcome>>
  PROVE  Typed
BY DEF Typed, TypeOK, ProcessStates, Awaiting, evidence

\* Whatever raises leaves nothing to be sound.
LEMMA RaisesKeeps ==
  ASSUME ExecutionInv, outcome = None, NEW code \in Codes, Raises(code), Typed,
         UNCHANGED <<changed, spoiled, outcome>>
  PROVE  ExecutionInv'
<1>1. at' \in Places /\ at'.step = "raising" /\ at'.code = code
  BY RaisesWith DEF ExecutionInv
<1>2. TypeOK' BY <1>1, TypeStays
<1>3. code # Awaiting /\ outcome' # Awaiting
  BY NoneAssumption DEF Codes, Awaiting
<1>4. LoopInv' BY <1>1 DEF LoopInv, Before, Computing, Sealing, InGui, InPhase
<1>5. FilesInv' BY <1>1 DEF FilesInv, Before, Computing, InGui, InPhase
<1>6. SpoilInv' BY <1>1 DEF ExecutionInv, SpoilInv
<1>7. EndInv' BY <1>1, <1>3 DEF EndInv, Is
<1> QED BY <1>1, <1>2, <1>3, <1>4, <1>5, <1>6, <1>7 DEF ExecutionInv

LEMMA StillOpen ==
  ASSUME ExecutionInv, at.step # "finished" PROVE outcome = None
BY DEF ExecutionInv, EndInv, Is

\* A forced checkpoint raises, or nothing is to be stopped.
LEMMA ForcedPasses ==
  ASSUME TypeOK, NEW ACTION pass, Forced(pass)
  PROVE  (\E code \in Codes : Raises(code)) \/ (Halted = {} /\ ~Exceeded /\ pass)
<1>1. "failed" \in Codes /\ \A reason : CodeOf(reason) \in Codes
  BY DEF Codes, CodeOf
<1> QED BY <1>1 DEF Forced, CodesOf

LEMMA CheckpointPasses ==
  ASSUME TypeOK, NEW ACTION pass, Checkpoint(pass)
  PROVE  (\E code \in Codes : Raises(code)) \/ (Halted = {} /\ pass)
<1>1. "failed" \in Codes /\ \A reason : CodeOf(reason) \in Codes
  BY DEF Codes, CodeOf
<1> QED BY <1>1 DEF Checkpoint, CodesOf

\* What depends on the evidence stays with it.
LEMMA EvidenceStays ==
  ASSUME rows' = rows
  PROVE  /\ AllRefined' = AllRefined /\ Even' = Even
         /\ \A case, level : Worked(case, level)' = Worked(case, level)
BY DEF AllRefined, Refined, Even, NumericalPassed, Converged, Complete, Agrees, OutsideScope,
       Worked, Ordered

LEMMA SoundStays ==
  ASSUME UNCHANGED evidence PROVE Sound' = Sound
BY EvidenceStays DEF Sound, evidence

\* A step within the execution that keeps the three parts about its progress.
LEMMA Advances ==
  ASSUME ExecutionInv, at.step \notin {"raising", "returning", "returned", "finished", "dead"},
         Typed, UNCHANGED outcome, at' \in Places, at'.code = at.code,
         at'.step \notin {"raising", "returning", "returned"},
         process'.alive => at'.step = "running",
         LoopInv', FilesInv', SpoilInv'
  PROVE  ExecutionInv'
<1>1. at.code # Awaiting BY DEF ExecutionInv, EndInv
<1>2. outcome = None BY StillOpen
<1>3. EndInv' BY <1>1, <1>2 DEF EndInv, Is
<1>4. outcome' # Awaiting BY <1>2, NoneAssumption DEF Awaiting
<1> QED BY <1>1, <1>3, <1>4, TypeStays DEF ExecutionInv

LEMMA FailedIsCode == "failed" \in Codes
BY DEF Codes

-----------------------------------------------------------------------------
(* The native transaction *)

LEMMA LoadKeeps == ASSUME ExecutionInv, Load PROVE ExecutionInv'
<1> USE DEF ExecutionInv
<1>1. outcome = None BY StillOpen DEF Load, Is
<1>2. Typed BY TypeFrame DEF Load
<1>3. CASE \E code \in Codes : Raises(code)
  BY <1>1, <1>2, <1>3, RaisesKeeps DEF Load, evidence
<1>4. CASE at' = [at EXCEPT !.step = "entering", !.attempting = TRUE]
  <2>1. at' \in Places /\ at'.step = "entering" /\ at'.code = at.code
    BY <1>4, AtType DEF Places, Steps
  <2>2. LoopInv'
    BY <2>1, EvidenceStays
    DEF Load, Is, evidence, LoopInv, Before, Computing, Sealing, InGui, InPhase
  <2>3. FilesInv' /\ SpoilInv' /\ ~process'.alive
    BY <2>1
    DEF Load, Is, evidence, FilesInv, SpoilInv, EndInv, Before, Computing, InGui, InPhase
  <2> QED BY <1>2, <2>1, <2>2, <2>3, Advances DEF Load, Is
<1> QED BY <1>3, <1>4, FailedIsCode, ForcedPasses DEF Load

LEMMA EnterKeeps ==
  ASSUME ExecutionInv, NEW kind \in {"entering", "gui_entering"},
         NEW stage \in 1..5, stage = IF kind = "entering" THEN 1 ELSE 5,
         Enter(kind, Place("ready", stage, 1, 0))
  PROVE  ExecutionInv'
<1> USE DEF ExecutionInv
<1>1. outcome = None BY StillOpen DEF Enter, Is
<1>2. Typed BY DEF Enter, Typed, TypeOK, ProcessStates, Awaiting, evidence
<1>3. CASE \E code \in Codes : Raises(code)
  BY <1>1, <1>2, <1>3, RaisesKeeps DEF Enter, evidence
<1>4. CASE at' = Place("ready", stage, 1, 0)
  <2>1. /\ at' \in Places /\ at'.step = "ready" /\ at'.code = at.code
        /\ at'.stage = stage /\ at'.case = 1 /\ at'.level = 0
    <3>1. at \in Places /\ 1 \in 1..Cases /\ 0 \in 0..Levels - 1 /\ "ready" \in Steps
      BY AtType, ExecutionAssumption DEF Steps
    <3> QED BY <1>4, <3>1 DEF Place, Places
  <2>2. LoopInv'
    BY <2>1, EvidenceStays
    DEF Enter, Is, evidence, LoopInv, Before, Computing, Sealing, InGui, InPhase
  <2>3. FilesInv' /\ SpoilInv' /\ ~process'.alive
    BY <2>1
    DEF Enter, Is, evidence, FilesInv, SpoilInv, EndInv, Before, Computing, InGui, InPhase
  <2> QED BY <1>2, <2>1, <2>2, <2>3, Advances DEF Enter, Is
<1>5. Forced(FALSE) => \E code \in Codes : Raises(code) BY ForcedPasses
<1> QED BY <1>3, <1>4, <1>5, FailedIsCode DEF Enter

\* What a seal lets through was spoiled by nothing.
LEMMA SealFinds ==
  ASSUME ExecutionInv, Verified, ~Exceeded PROVE spoiled = {}
BY DEF ExecutionInv, SpoilInv, Verified, Exceeded

LEMMA SealKeeps ==
  ASSUME ExecutionInv, NEW kind \in {"sealing", "gui_sealing"}, NEW to \in Steps,
         to = IF kind = "sealing" THEN "recording" ELSE "receipting", Seal(kind, to)
  PROVE  ExecutionInv'
<1> USE DEF ExecutionInv
<1>1. outcome = None BY StillOpen DEF Seal, Is
<1>2. Typed BY DEF Seal, Typed, TypeOK, ProcessStates, Awaiting, evidence
<1>3. CASE \E code \in Codes : Raises(code)
  BY <1>1, <1>2, <1>3, RaisesKeeps DEF Seal, evidence
<1>4. CASE Goes(to) /\ Verified /\ ~Exceeded
  <2>1. at' \in Places /\ at'.step = to /\ at'.code = at.code BY <1>4, GoesTo
  <2>2. LoopInv'
    BY <2>1, EvidenceStays
    DEF Seal, Is, evidence, LoopInv, Before, Computing, Sealing, InGui, InPhase
  <2>3. FilesInv' /\ ~process'.alive
    BY <2>1
    DEF Seal, Is, evidence, FilesInv, EndInv, Before, Computing, InGui, InPhase
  <2>4. SpoilInv' BY <1>4, SealFinds DEF Seal, evidence, SpoilInv
  <2> QED BY <1>2, <2>1, <2>2, <2>3, <2>4, Advances DEF Seal, Is
<1> QED BY <1>3, <1>4, FailedIsCode, ForcedPasses DEF Seal

-----------------------------------------------------------------------------
(* One native phase *)

LEMMA StartKeeps == ASSUME ExecutionInv, StartProcess PROVE ExecutionInv'
<1> USE DEF ExecutionInv
<1>1. outcome = None BY StillOpen DEF StartProcess, Is
<1>2. process' \in ProcessStates
  <2>1. process' = process \/ process' = [alive |-> TRUE, asked |-> FALSE, code |-> None]
    BY DEF StartProcess
  <2>2. [alive |-> TRUE, asked |-> FALSE, code |-> None] \in ProcessStates
    BY DEF ProcessStates
  <2> QED BY <2>1, <2>2, AtType
<1>3. Typed BY <1>2 DEF StartProcess, Typed, TypeOK, Awaiting, evidence
<1>4. CASE \E code \in Codes : Raises(code)
  BY <1>1, <1>4, <1>3, RaisesKeeps DEF StartProcess, evidence
<1>5. CASE Goes("running")
  <2>1. /\ at' \in Places /\ at'.step = "running" /\ at'.code = at.code
        /\ at'.stage = at.stage /\ at'.case = at.case /\ at'.level = at.level
    BY <1>5, GoesTo DEF Steps
  <2>2. LoopInv'
    BY <2>1, EvidenceStays
    DEF StartProcess, Is, evidence, LoopInv, Before, Computing, Sealing, InGui, InPhase
  <2>3. FilesInv' /\ SpoilInv'
    BY <2>1
    DEF StartProcess, Is, evidence, FilesInv, SpoilInv, Before, Computing, InGui, InPhase
  <2> QED BY <1>3, <2>1, <2>2, <2>3, Advances DEF StartProcess, Is
<1>6. Checkpoint(FALSE) => \E code \in Codes : Raises(code) BY CheckpointPasses
<1> QED BY <1>4, <1>5, <1>6, FailedIsCode DEF StartProcess

LEMMA InterruptKeeps == ASSUME ExecutionInv, Interrupt PROVE ExecutionInv'
<1> USE DEF ExecutionInv
<1>1. outcome = None BY StillOpen DEF Interrupt, Is
<1>2. process' \in ProcessStates BY AtType DEF Interrupt, ProcessStates
<1>3. Typed BY <1>2 DEF Interrupt, Typed, TypeOK, Awaiting, evidence
<1>4. "timed_out" \in Codes BY DEF Codes
<1>5. \E code \in Codes : Raises(code)
  BY <1>4, FailedIsCode, CheckpointPasses DEF Interrupt
<1> QED BY <1>1, <1>3, <1>5, RaisesKeeps DEF Interrupt, evidence

\* Evidence that is spoiled is spoiled by what has changed.
LEMMA SpoilsFound ==
  ASSUME ExecutionInv
  PROVE  /\ Spoils \subseteq {"numerical", "gui"}
         /\ Spoils # {} => changed \cap {"tools", "inventory", "executor"} # {}
BY DEF ExecutionInv, TypeOK, SpoilInv, Spoils, Kind

LEMMA AfterKeeps == ASSUME ExecutionInv, AfterProcess PROVE ExecutionInv'
<1> USE DEF ExecutionInv
<1>1. outcome = None BY StillOpen DEF AfterProcess, Is
<1>2. process' \in ProcessStates /\ ~process'.alive
  BY DEF AfterProcess, NoProcess, ProcessStates
<1>3. Typed
  BY <1>2, SpoilsFound DEF AfterProcess, Typed, TypeOK, Awaiting, evidence
<1>4. CASE (\E code \in Codes : Raises(code)) /\ UNCHANGED spoiled
  BY <1>1, <1>3, <1>4, RaisesKeeps DEF AfterProcess
<1>5. CASE Goes("done") /\ spoiled' = Spoils
  <2>1. /\ at' \in Places /\ at'.step = "done" /\ at'.code = at.code
        /\ at'.stage = at.stage /\ at'.case = at.case /\ at'.level = at.level
    BY <1>5, GoesTo DEF Steps
  <2>2. LoopInv'
    BY <2>1, EvidenceStays
    DEF AfterProcess, Is, LoopInv, Before, Computing, Sealing, InGui, InPhase
  <2>3. FilesInv'
    BY <2>1 DEF AfterProcess, Is, FilesInv, Before, Computing, InGui, InPhase
  <2>4. SpoilInv' BY <1>5, <2>1, SpoilsFound DEF AfterProcess, SpoilInv
  <2> QED BY <1>2, <1>3, <2>1, <2>2, <2>3, <2>4, Advances DEF AfterProcess, Is
<1>6. Checkpoint(FALSE) => \E code \in Codes : Raises(code) BY CheckpointPasses
<1> QED BY <1>4, <1>5, <1>6, FailedIsCode DEF AfterProcess

LEMMA NextStageKeeps == ASSUME ExecutionInv, NextStage PROVE ExecutionInv'
<1> USE DEF ExecutionInv
<1>1. outcome = None BY StillOpen DEF NextStage, Is
<1>2. Typed BY TypeFrame DEF NextStage
<1>3. CASE \E code \in Codes : Raises(code)
  BY <1>1, <1>2, <1>3, RaisesKeeps DEF NextStage, evidence
<1>4. CASE at' = [at EXCEPT !.step = "ready", !.stage = @ + 1]
  <2>1. /\ at' \in Places /\ at'.step = "ready" /\ at'.code = at.code
        /\ at'.stage \in 1..4 /\ at.stage \in 1..4 /\ at'.case = at.case /\ at'.level = at.level
    <3> DEFINE next == at.stage + 1
    <3>1. at \in Places /\ next \in 1..4 /\ next \in 1..5 /\ at.stage \in 1..4
      BY AtType DEF NextStage, Places
    <3>2. at' = [at EXCEPT !.step = "ready", !.stage = next] BY <1>4
    <3> HIDE DEF next
    <3> QED BY <3>1, <3>2 DEF Places, Steps
  <2>2. LoopInv'
    BY <2>1, EvidenceStays
    DEF NextStage, Is, evidence, LoopInv, Before, Computing, Sealing, InGui, InPhase
  <2>3. FilesInv' /\ SpoilInv' /\ ~process'.alive
    BY <2>1
    DEF NextStage, Is, evidence, FilesInv, SpoilInv, EndInv, Before, Computing, InGui, InPhase
  <2> QED BY <1>2, <2>1, <2>2, <2>3, Advances DEF NextStage, Is
<1> QED BY <1>3, <1>4, ForcedPasses DEF NextStage

-----------------------------------------------------------------------------
(* The loops over levels and cases *)

\* One more row of the case the loops are at.
LEMMA RowAppended ==
  ASSUME TypeOK, NEW row \in Row, rows' = [rows EXCEPT ![at.case] = Append(@, row)]
  PROVE  /\ rows' \in [1..Cases -> Seq(Row)]
         /\ Len(rows'[at.case]) = Len(rows[at.case]) + 1
         /\ rows'[at.case][Len(rows[at.case]) + 1] = row
         /\ \A i \in 1..Len(rows[at.case]) : rows'[at.case][i] = rows[at.case][i]
         /\ \A case \in 1..Cases \ {at.case} : rows'[case] = rows[case]
<1>1. at.case \in 1..Cases /\ rows \in [1..Cases -> Seq(Row)]
  BY AtType DEF TypeOK, Places
<1>2. rows[at.case] \in Seq(Row) BY <1>1
<1>3. rows'[at.case] = Append(rows[at.case], row) BY <1>1
<1>4. /\ Append(rows[at.case], row) \in Seq(Row)
      /\ Len(Append(rows[at.case], row)) = Len(rows[at.case]) + 1
      /\ \A i \in 1..Len(rows[at.case]) + 1 :
           Append(rows[at.case], row)[i] =
             IF i <= Len(rows[at.case]) THEN rows[at.case][i] ELSE row
  BY <1>2
<1>5. Len(rows[at.case]) \in Nat BY <1>2
<1>6. rows'[at.case][Len(rows[at.case]) + 1] = row BY <1>3, <1>4, <1>5
<1>7. \A i \in 1..Len(rows[at.case]) : rows'[at.case][i] = rows[at.case][i]
  BY <1>3, <1>4, <1>5
<1> QED BY <1>1, <1>3, <1>4, <1>6, <1>7

\* A row that lets the loops go on is in order with those before it.
LEMMA WorkedOn ==
  ASSUME ExecutionInv, Computing, NEW row \in Row, row.passed, ~row.outside,
         row.level = at.level, rows' = [rows EXCEPT ![at.case] = Append(@, row)]
  PROVE  \A case \in 1..Cases :
           /\ Ordered(rows'[case])
           /\ Len(rows'[case]) = IF case <= at.case THEN at.level + 1 ELSE at.level
<1>1. TypeOK /\ at.case \in 1..Cases /\ at.level \in Nat
  BY AtType, ExecutionAssumption DEF ExecutionInv, Places
<1>2. Worked(at.case, at.level) BY DEF ExecutionInv, LoopInv
<1> SUFFICES ASSUME NEW case \in 1..Cases
             PROVE  /\ Ordered(rows'[case])
                    /\ Len(rows'[case]) = IF case <= at.case THEN at.level + 1 ELSE at.level
  OBVIOUS
<1>3. Ordered(rows[case]) /\ Len(rows[case]) = IF case < at.case THEN at.level + 1 ELSE at.level
  BY <1>2 DEF Worked
<1>4. CASE case # at.case
  <2>1. rows'[case] = rows[case] BY <1>1, <1>4, RowAppended
  <2>2. case <= at.case <=> case < at.case BY <1>1, <1>4
  <2> QED BY <1>3, <2>1, <2>2
<1>5. CASE case = at.case
  <2>1. Len(rows[case]) = at.level BY <1>1, <1>3, <1>5
  <2>2. /\ Len(rows'[case]) = at.level + 1 /\ rows'[case][at.level + 1] = row
        /\ \A i \in 1..at.level : rows'[case][i] = rows[case][i]
    BY <1>1, <1>5, <2>1, RowAppended
  <2>3. \A i \in 1..at.level + 1 : i \in 1..at.level \/ i = at.level + 1 BY <1>1
  <2>4. Ordered(rows'[case]) BY <1>1, <1>3, <2>1, <2>2, <2>3 DEF Ordered
  <2> QED BY <1>1, <1>5, <2>2, <2>4
<1> QED BY <1>4, <1>5

\* What converged within scope was not ended by its last row, so that it ended
\* with the last case of a level.
LEMMA EndsEven ==
  ASSUME ExecutionInv, Computing, NEW row \in Row, row.level = at.level,
         rows' = [rows EXCEPT ![at.case] = Append(@, row)], Finished(row, rows')
  PROVE  Even'
<1> SUFFICES ASSUME NumericalPassed' PROVE \A case \in 1..Cases : Len(rows'[case]) = Len(rows'[1])
  BY DEF Even
<1> DEFINE n == Len(rows[at.case]) + 1
<1>1. TypeOK /\ at.case \in 1..Cases /\ at.level \in Nat /\ 1 \in 1..Cases
  BY AtType, ExecutionAssumption DEF ExecutionInv, Places
<1>2. rows'[at.case][n] = row /\ Len(rows'[at.case]) = n BY <1>1, RowAppended
<1>3. rows[at.case] \in Seq(Row) BY <1>1 DEF TypeOK
<1>4. n \in 1..n BY <1>3
<1>5. Converged(rows') /\ ~OutsideScope(rows') BY DEF NumericalPassed
<1>6. row.passed BY <1>1, <1>2, <1>4, <1>5 DEF Converged, Complete
<1>7. ~row.outside BY <1>1, <1>2, <1>4, <1>5 DEF OutsideScope
<1>8. at.case = Cases BY <1>6, <1>7 DEF Finished
<1>9. \A case \in 1..Cases : Len(rows'[case]) = at.level + 1
  <2>1. \A case \in 1..Cases : case <= at.case BY <1>8, ExecutionAssumption
  <2>2. \A case \in 1..Cases :
          Len(rows'[case]) = IF case <= at.case THEN at.level + 1 ELSE at.level
    BY <1>6, <1>7, WorkedOn
  <2> QED BY <2>1, <2>2
<1> QED BY <1>1, <1>9

LEMMA ValidateKeeps == ASSUME ExecutionInv, ValidateLevel PROVE ExecutionInv'
<1> USE DEF ExecutionInv
<1>1. outcome = None /\ Computing /\ at \in Places
  BY StillOpen, AtType DEF ValidateLevel, Is, Computing, InPhase
<1>2. PICK row \in Row :
        /\ row.level = at.level
        /\ rows' = [rows EXCEPT ![at.case] = Append(@, row)]
        /\ Forced(IF Finished(row, rows') THEN Goes("sealing") ELSE at' = Onward)
  BY <1>1 DEF ValidateLevel, Row, Places
<1>3. UNCHANGED <<changed, stops, scratch, process, spoiled, files, bound, outcome>>
  BY DEF ValidateLevel
<1>4. Typed
  <2>1. rows' \in [1..Cases -> Seq(Row)] BY <1>2, RowAppended
  <2> QED BY <1>3, <2>1, AtType DEF Typed, TypeOK, Awaiting
<1>5. CASE \E code \in Codes : Raises(code)
  BY <1>1, <1>3, <1>4, <1>5, RaisesKeeps
<1>6. CASE Finished(row, rows') /\ Goes("sealing")
  <2>1. at' \in Places /\ at'.step = "sealing" /\ at'.code = at.code
    BY <1>6, GoesTo DEF Steps
  <2>2. Even' BY <1>1, <1>2, <1>6, EndsEven
  <2>3. LoopInv' BY <2>1, <2>2 DEF LoopInv, Before, Computing, Sealing, InGui, InPhase
  <2>4. FilesInv' /\ SpoilInv' /\ ~process'.alive
    BY <1>1, <1>3, <2>1
    DEF ValidateLevel, Is, FilesInv, SpoilInv, EndInv, Before, Computing, InGui, InPhase
  <2> QED BY <1>3, <1>4, <2>1, <2>3, <2>4, Advances DEF ValidateLevel, Is
<1>7. CASE ~Finished(row, rows') /\ at' = Onward
  <2>1. row.passed /\ ~row.outside BY <1>7 DEF Finished
  <2>2. \A case \in 1..Cases :
          /\ Ordered(rows'[case])
          /\ Len(rows'[case]) = IF case <= at.case THEN at.level + 1 ELSE at.level
    BY <1>1, <1>2, <2>1, WorkedOn
  <2>3. /\ at' \in Places /\ at'.step = "ready" /\ at'.code = at.code /\ at'.stage \in 1..4
        /\ \A case \in 1..Cases :
             Len(rows'[case]) = IF case < at'.case THEN at'.level + 1 ELSE at'.level
    <3>1. CASE at.case < Cases
      <4> DEFINE next == at.case + 1
      <4>1. next \in 1..Cases /\ FirstStage(next) \in 1..4 /\ FirstStage(next) \in 1..5
        BY <1>1, <3>1, ExecutionAssumption DEF Places, FirstStage
      <4>2. at' = Place("ready", FirstStage(next), next, at.level) BY <1>7, <3>1 DEF Onward
      <4>3. \A case \in 1..Cases : case <= at.case <=> case < next
        BY <1>1, ExecutionAssumption DEF Places
      <4> HIDE DEF next
      <4>4. /\ at' \in Places /\ at'.step = "ready" /\ at'.code = at.code
            /\ at'.stage = FirstStage(next) /\ at'.case = next /\ at'.level = at.level
        BY <1>1, <4>1, <4>2 DEF Place, Places, Steps
      <4> QED BY <2>2, <4>1, <4>3, <4>4
    <3>2. CASE ~(at.case < Cases)
      <4> DEFINE next == at.level + 1
      <4>1. at.case = Cases BY <1>1, <3>2, ExecutionAssumption DEF Places
      <4>2. next \in 0..Levels - 1 /\ 1 \in 1..Cases /\ 1 \in 1..5 /\ FirstStage(1) = 1
        BY <1>1, <1>7, <4>1, ExecutionAssumption DEF Finished, LastLevel, Places, FirstStage
      <4>3. at' = Place("ready", 1, 1, next) BY <1>7, <3>2, <4>2 DEF Onward
      <4>4. \A case \in 1..Cases : case <= at.case /\ ~(case < 1)
        BY <4>1, ExecutionAssumption
      <4>5. \A case \in 1..Cases : Len(rows'[case]) = next BY <2>2, <4>4
      <4> HIDE DEF next
      <4>6. /\ at' \in Places /\ at'.step = "ready" /\ at'.code = at.code
            /\ at'.stage = 1 /\ at'.case = 1 /\ at'.level = next
        BY <1>1, <4>2, <4>3 DEF Place, Places, Steps
      <4> QED BY <4>4, <4>5, <4>6
    <3> QED BY <3>1, <3>2
  <2>4. LoopInv'
    BY <2>2, <2>3 DEF LoopInv, Worked, Before, Computing, Sealing, InGui, InPhase
  <2>5. FilesInv' /\ SpoilInv' /\ ~process'.alive
    BY <1>1, <1>3, <2>3
    DEF ValidateLevel, Is, FilesInv, SpoilInv, EndInv, Before, Computing, InGui, InPhase
  <2> QED BY <1>3, <1>4, <2>3, <2>4, <2>5, Advances DEF ValidateLevel, Is
<1>8. \/ \E code \in Codes : Raises(code)
      \/ IF Finished(row, rows') THEN Goes("sealing") ELSE at' = Onward
  <2> DEFINE pass == IF Finished(row, rows') THEN Goes("sealing") ELSE at' = Onward
  <2>1. Forced(pass) BY <1>2
  <2> HIDE DEF pass
  <2>2. (\E code \in Codes : Raises(code)) \/ pass BY <2>1, ForcedPasses
  <2> QED BY <2>2 DEF pass
<1> QED BY <1>5, <1>6, <1>7, <1>8

LEMMA ValidationRaisesKeeps == ASSUME ExecutionInv, ValidationRaises PROVE ExecutionInv'
<1>1. outcome = None BY StillOpen DEF ValidationRaises, Is
<1>2. Typed BY TypeFrame DEF ValidationRaises, ExecutionInv
<1> QED BY <1>1, <1>2, FailedIsCode, RaisesKeeps DEF ValidationRaises, evidence

-----------------------------------------------------------------------------
(* The attempt, the native GUI and what they publish *)

LEMMA RecordKeeps == ASSUME ExecutionInv, RecordAttempt PROVE ExecutionInv'
<1> USE DEF ExecutionInv
<1>1. at' \in Places /\ at'.step = "recorded" /\ at'.code = at.code
  BY GoesTo DEF RecordAttempt, Steps
<1>2. files = {} /\ files' = {"attempt"}
  BY DEF RecordAttempt, Writes, Is, FilesInv
<1>3. Typed
  BY <1>2, AtType DEF RecordAttempt, Typed, TypeOK, Awaiting, Files
<1>4. LoopInv'
  BY <1>1, EvidenceStays
  DEF RecordAttempt, Is, LoopInv, Before, Computing, Sealing, InGui, InPhase
<1>5. FilesInv' BY <1>1, <1>2 DEF FilesInv, Before, Computing, InGui, InPhase
<1>6. SpoilInv' /\ ~process'.alive
  BY <1>1 DEF RecordAttempt, Is, SpoilInv, EndInv
<1> QED BY <1>1, <1>3, <1>4, <1>5, <1>6, Advances DEF RecordAttempt, Is

LEMMA RecordedKeeps == ASSUME ExecutionInv, Recorded PROVE ExecutionInv'
<1> USE DEF ExecutionInv
<1>1. outcome = None BY StillOpen DEF Recorded, Is
<1>2. Typed BY TypeFrame DEF Recorded
<1>3. CASE \E code \in Codes : Raises(code)
  BY <1>1, <1>2, <1>3, RaisesKeeps DEF Recorded, evidence
<1>4. CASE at' = [at EXCEPT !.step = "binding", !.attempting = FALSE]
  <2>1. at' \in Places /\ at'.step = "binding" /\ at'.code = at.code
    BY <1>4, AtType DEF Places, Steps
  <2>2. LoopInv'
    BY <2>1, EvidenceStays
    DEF Recorded, Is, evidence, LoopInv, Before, Computing, Sealing, InGui, InPhase
  <2>3. FilesInv' /\ SpoilInv' /\ ~process'.alive
    BY <2>1
    DEF Recorded, Is, evidence, FilesInv, SpoilInv, EndInv, Before, Computing, InGui, InPhase
  <2> QED BY <1>2, <2>1, <2>2, <2>3, Advances DEF Recorded, Is
<1> QED BY <1>3, <1>4, ForcedPasses DEF Recorded

\* What has converged is refined: three levels that agree with each other.
LEMMA ConvergedRefines ==
  ASSUME TypeOK, Even, NumericalPassed PROVE AllRefined
<1> SUFFICES ASSUME NEW case \in 1..Cases PROVE Refined(rows[case])
  BY DEF Even, AllRefined
<1> DEFINE mine == rows[case]
<1>1. mine \in Seq(Row) BY DEF TypeOK
<1>2. /\ Complete(mine) /\ Agrees(mine)
      /\ \A i \in 1..Len(mine) : ~mine[i].outside
  BY DEF NumericalPassed, Converged, OutsideScope
<1>3. Len(mine) \in Nat BY <1>1
<1> HIDE DEF mine
<1>4. /\ mine[Len(mine) - 2].value = mine[Len(mine) - 1].value
      /\ mine[Len(mine) - 1].value = mine[Len(mine)].value
  <2>1. (Len(mine) - 2) + 1 = Len(mine) - 1 /\ (Len(mine) - 1) + 1 = Len(mine) BY <1>3
  <2> QED BY <1>2, <2>1 DEF Agrees
<1>5. ASSUME NEW i \in 1..Len(mine), i > Len(mine) - 3
      PROVE  mine[i].value = mine[Len(mine)].value
  <2>1. i = Len(mine) - 2 \/ i = Len(mine) - 1 \/ i = Len(mine) BY <1>3, <1>5
  <2> QED BY <1>4, <2>1
<1>6. Refined(mine) BY <1>2, <1>5 DEF Complete, Refined
<1> QED BY <1>6 DEF mine

\* To the end, without success: nothing is to be reviewed.
LEMMA FailsKeeps ==
  ASSUME ExecutionInv, outcome = None, Typed, UNCHANGED <<changed, spoiled, outcome>>,
         at' \in Places, at'.step \in {"returning", "returned"}, at'.code \in Codes,
         ~process'.alive
  PROVE  ExecutionInv'
<1>1. at'.code # Awaiting /\ outcome' # Awaiting
  BY NoneAssumption DEF Codes, Awaiting
<1>2. LoopInv' BY DEF LoopInv, Before, Computing, Sealing, InGui, InPhase
<1>3. FilesInv' BY DEF FilesInv, Before, Computing, InGui, InPhase
<1>4. SpoilInv' BY DEF ExecutionInv, SpoilInv
<1>5. EndInv' BY <1>1 DEF EndInv, Is
<1> QED BY <1>1, <1>2, <1>3, <1>4, <1>5, TypeStays DEF ExecutionInv

LEMMA BindKeeps == ASSUME ExecutionInv, BindAttempt PROVE ExecutionInv'
<1> USE DEF ExecutionInv
<1>1. outcome = None /\ ~process.alive BY StillOpen DEF BindAttempt, Is, EndInv
<1>2. UNCHANGED <<changed, stops, scratch, process, rows, spoiled, files, outcome>>
  BY DEF BindAttempt
<1>3. bound' = bound \/ bound' = TRUE BY DEF BindAttempt
<1>4. Typed BY <1>2, <1>3, AtType DEF Typed, TypeOK, Awaiting
<1>5. CASE \E code \in Codes : Raises(code)
  BY <1>1, <1>2, <1>4, <1>5, RaisesKeeps
<1>6. CASE bound' = TRUE /\ NumericalPassed /\ Goes("gui_request")
  <2>1. at' \in Places /\ at'.step = "gui_request" /\ at'.code = at.code
    BY <1>6, GoesTo DEF Steps
  <2>2. AllRefined'
    BY <1>2, <1>6, ConvergedRefines, EvidenceStays DEF BindAttempt, Is, LoopInv, Sealing
  <2>3. LoopInv'
    BY <1>6, <2>1, <2>2 DEF LoopInv, Before, Computing, Sealing, InGui, InPhase
  <2>4. FilesInv' /\ SpoilInv'
    BY <1>2, <2>1
    DEF BindAttempt, Is, FilesInv, SpoilInv, Before, Computing, InGui, InPhase
  <2> QED BY <1>1, <1>2, <1>4, <2>1, <2>3, <2>4, Advances DEF BindAttempt, Is
<1>7. CASE at' = [at EXCEPT !.step = "returning", !.code = "failed"]
  <2>1. at' \in Places /\ at'.step = "returning" /\ at'.code = "failed"
    BY <1>7, AtType, FailedIsCode DEF Places, Steps
  <2> QED BY <1>1, <1>2, <1>4, <2>1, FailedIsCode, FailsKeeps
<1>8. "cancelled" \in Codes BY DEF Codes
<1> QED BY <1>5, <1>6, <1>7, <1>8, FailedIsCode DEF BindAttempt

LEMMA IssueKeeps == ASSUME ExecutionInv, IssueRequest PROVE ExecutionInv'
<1> USE DEF ExecutionInv
<1>1. outcome = None BY StillOpen DEF IssueRequest, Is
<1>2. Typed BY TypeFrame DEF IssueRequest
<1>3. CASE \E code \in Codes : Raises(code)
  BY <1>1, <1>2, <1>3, RaisesKeeps DEF IssueRequest, evidence
<1>4. CASE Goes("gui_entering")
  <2>1. at' \in Places /\ at'.step = "gui_entering" /\ at'.code = at.code
    BY <1>4, GoesTo DEF Steps
  <2>2. LoopInv'
    BY <2>1, EvidenceStays
    DEF IssueRequest, Is, evidence, LoopInv, Before, Computing, Sealing, InGui, InPhase
  <2>3. FilesInv' /\ SpoilInv' /\ ~process'.alive
    BY <2>1
    DEF IssueRequest, Is, evidence, FilesInv, SpoilInv, EndInv, Before, Computing, InGui,
        InPhase
  <2> QED BY <1>2, <2>1, <2>2, <2>3, Advances DEF IssueRequest, Is
<1> QED BY <1>3, <1>4, FailedIsCode DEF IssueRequest

LEMMA NextGuiKeeps == ASSUME ExecutionInv, NextGuiCase PROVE ExecutionInv'
<1> USE DEF ExecutionInv
<1>1. outcome = None BY StillOpen DEF NextGuiCase, Is
<1>2. Typed BY TypeFrame DEF NextGuiCase
<1>3. CASE \E code \in Codes : Raises(code)
  BY <1>1, <1>2, <1>3, RaisesKeeps DEF NextGuiCase, evidence
<1>4. CASE IF at.case < Cases THEN at' = Place("ready", 5, at.case + 1, 0)
           ELSE Goes("gui_sealing")
  <2>1. /\ at' \in Places /\ at'.code = at.code
        /\ (at'.step = "ready" /\ at'.stage = 5) \/ at'.step = "gui_sealing"
    <3>1. CASE at.case < Cases
      <4> DEFINE next == at.case + 1
      <4>1. next \in 1..Cases /\ at \in Places
        BY <3>1, AtType, ExecutionAssumption DEF Places
      <4>2. 5 \in 1..5 /\ 0 \in 0..Levels - 1 BY ExecutionAssumption
      <4>3. at' = Place("ready", 5, next, 0) BY <1>4, <3>1
      <4> HIDE DEF next
      <4> QED BY <4>1, <4>2, <4>3 DEF Place, Places, Steps
    <3>2. CASE ~(at.case < Cases)
      BY <1>4, <3>2, GoesTo DEF Steps
    <3> QED BY <3>1, <3>2
  <2>2. LoopInv'
    BY <2>1, EvidenceStays
    DEF NextGuiCase, Is, evidence, LoopInv, Before, Computing, Sealing, InGui, InPhase
  <2>3. FilesInv' /\ SpoilInv' /\ ~process'.alive
    BY <2>1
    DEF NextGuiCase, Is, evidence, FilesInv, SpoilInv, EndInv, Before, Computing, InGui,
        InPhase
  <2> QED BY <1>2, <2>1, <2>2, <2>3, Advances DEF NextGuiCase, Is
<1>5. \/ \E code \in Codes : Raises(code)
      \/ IF at.case < Cases THEN at' = Place("ready", 5, at.case + 1, 0)
         ELSE Goes("gui_sealing")
  <2> DEFINE pass == IF at.case < Cases THEN at' = Place("ready", 5, at.case + 1, 0)
                     ELSE Goes("gui_sealing")
  <2>1. Checkpoint(pass) BY DEF NextGuiCase
  <2> HIDE DEF pass
  <2>2. (\E code \in Codes : Raises(code)) \/ pass BY <2>1, CheckpointPasses
  <2> QED BY <2>2 DEF pass
<1> QED BY <1>3, <1>4, <1>5

LEMMA ReceiptKeeps == ASSUME ExecutionInv, WriteReceipt PROVE ExecutionInv'
<1> USE DEF ExecutionInv
<1>1. outcome = None BY StillOpen DEF WriteReceipt, Is
<1>2. files = {"attempt"} /\ files' = {"attempt", "receipt"}
  BY DEF WriteReceipt, Writes, Is, FilesInv, InGui
<1>3. Typed
  BY <1>2, AtType DEF WriteReceipt, Typed, TypeOK, Awaiting, Files
<1>4. CASE \E code \in Codes : Raises(code)
  BY <1>1, <1>3, <1>4, RaisesKeeps DEF WriteReceipt
<1>5. CASE Goes("executed")
  <2>1. at' \in Places /\ at'.step = "executed" /\ at'.code = at.code
    BY <1>5, GoesTo DEF Steps
  <2>2. LoopInv'
    BY <2>1, EvidenceStays
    DEF WriteReceipt, Is, LoopInv, Before, Computing, Sealing, InGui, InPhase
  <2>3. FilesInv' BY <1>2, <2>1 DEF FilesInv, Before, Computing, InGui, InPhase, Is
  <2>4. SpoilInv' /\ ~process'.alive
    BY <2>1 DEF WriteReceipt, Is, SpoilInv, EndInv
  <2> QED BY <1>3, <2>1, <2>2, <2>3, <2>4, Advances DEF WriteReceipt, Is
<1> QED BY <1>4, <1>5, FailedIsCode, ForcedPasses DEF WriteReceipt

LEMMA WriteExecutionKeeps == ASSUME ExecutionInv, WriteExecution PROVE ExecutionInv'
<1> USE DEF ExecutionInv
<1>1. outcome = None /\ ~process.alive BY StillOpen DEF WriteExecution, Is, EndInv
<1>2. files' = {"attempt", "receipt", "execution"}
  BY DEF WriteExecution, Writes, Is, FilesInv, InGui
<1>3. Typed
  BY <1>2, AtType DEF WriteExecution, Typed, TypeOK, Awaiting, Files
<1>4. CASE \E code \in Codes : Raises(code)
  BY <1>1, <1>3, <1>4, RaisesKeeps DEF WriteExecution
<1>5. CASE at' = [at EXCEPT !.step = "returning", !.code = "awaiting_visual_review"]
  <2>1. at' \in Places /\ at'.step = "returning" /\ at'.code = Awaiting
    BY <1>5, AtType DEF Places, Steps, Awaiting
  <2>2. Sound'
    BY <1>2, EvidenceStays
    DEF WriteExecution, Sound, Is, LoopInv, SpoilInv, InGui
  <2>3. LoopInv' BY <2>1 DEF LoopInv, Before, Computing, Sealing, InGui, InPhase
  <2>4. FilesInv' BY <2>1 DEF FilesInv, Before, Computing, InGui, InPhase
  <2>5. SpoilInv' BY <2>2 DEF SpoilInv, Sound
  <2>6. EndInv' BY <1>1, <2>1 DEF WriteExecution, EndInv, Is, Codes, Awaiting
  <2> QED BY <1>3, <2>1, <2>2, <2>3, <2>4, <2>5, <2>6, TypeStays
<1> QED BY <1>4, <1>5, FailedIsCode, ForcedPasses DEF WriteExecution

-----------------------------------------------------------------------------
(* The end of the run, and what happens around the supervisor *)

LEMMA UnwindKeeps == ASSUME ExecutionInv, Unwind PROVE ExecutionInv'
<1> USE DEF ExecutionInv
<1>1. outcome = None BY StillOpen DEF Unwind, Is
<1>2. process' \in ProcessStates /\ ~process'.alive
  BY DEF Unwind, NoProcess, ProcessStates
<1>3. Typed
  BY <1>2 DEF Unwind, Typed, TypeOK, Awaiting, Files
<1>4. \A reason : CodeOf(reason) \in Codes BY DEF CodeOf, Codes
<1>5. PICK code \in Codes : at' = [at EXCEPT !.step = "returned", !.code = code]
  <2>1. at.code \in Codes /\ CodesOf(stops) \subseteq Codes
    BY <1>4 DEF Unwind, EndInv, Is, CodesOf
  <2>2. \E code \in {at.code} \cup CodesOf(stops) \cup (IF Verified THEN {} ELSE {"failed"}) :
          at' = [at EXCEPT !.step = "returned", !.code = code]
    BY DEF Unwind
  <2> QED BY <2>1, <2>2, FailedIsCode
<1>6. at' \in Places /\ at'.step = "returned" /\ at'.code = code
  BY <1>5, AtType DEF Places, Steps
<1> QED BY <1>1, <1>2, <1>3, <1>6, FailsKeeps DEF Unwind

\* The evidence is sound as long as nothing is added to it.
LEMMA VerifyKeeps == ASSUME ExecutionInv, Verify PROVE ExecutionInv'
<1> USE DEF ExecutionInv
<1>1. outcome = None /\ ~process.alive /\ at.code \in Codes \cup {Awaiting}
  BY StillOpen DEF Verify, Is, EndInv
<1>2. Typed BY TypeFrame DEF Verify
<1>3. PICK code \in Codes \cup {Awaiting} :
        /\ at' = [at EXCEPT !.step = "returned", !.code = code]
        /\ code = Awaiting => at.code = Awaiting
  BY <1>1, FailedIsCode DEF Verify, Awaiting
<1>4. at' \in Places /\ at'.step = "returned" /\ at'.code = code
  BY <1>3, AtType DEF Places, Steps
<1>5. CASE code \in Codes
  BY <1>1, <1>2, <1>4, <1>5, FailsKeeps DEF Verify, evidence
<1>6. CASE code = Awaiting
  <2>1. Sound' BY <1>3, <1>6, SoundStays DEF Verify
  <2>2. LoopInv' BY <1>4 DEF LoopInv, Before, Computing, Sealing, InGui, InPhase
  <2>3. FilesInv' BY <1>4 DEF FilesInv, Before, Computing, InGui, InPhase
  <2>4. SpoilInv' BY <1>4 DEF Verify, evidence, SpoilInv
  <2>5. EndInv' BY <1>1, <1>4 DEF Verify, EndInv, Is
  <2> QED BY <1>2, <1>4, <2>1, <2>2, <2>3, <2>4, <2>5, TypeStays
<1> QED BY <1>5, <1>6

LEMMA FinishKeeps == ASSUME ExecutionInv, Finish PROVE ExecutionInv'
<1> USE DEF ExecutionInv
<1>1. ~process.alive /\ at.code \in Codes \cup {Awaiting} BY DEF Finish, Is, EndInv
<1>2. /\ outcome' \in Codes \cup {Awaiting}
      /\ outcome' = Awaiting => at.code = Awaiting
  BY <1>1 DEF Finish, Outcome, Codes, Awaiting
<1>3. Typed BY <1>2, AtType DEF Finish, Typed, TypeOK, Awaiting, evidence
<1>4. at' \in Places /\ at'.step = "finished" /\ at'.code = at.code
  BY GoesTo DEF Finish, Steps
<1>5. at'.code = Awaiting \/ outcome' = Awaiting => Sound'
  BY <1>2, <1>4, SoundStays DEF Finish
<1>6. LoopInv' BY <1>4 DEF LoopInv, Before, Computing, Sealing, InGui, InPhase
<1>7. FilesInv' BY <1>4 DEF FilesInv, Before, Computing, InGui, InPhase
<1>8. SpoilInv' BY <1>4 DEF Finish, evidence, SpoilInv
<1>9. EndInv' BY <1>1, <1>4 DEF Finish, EndInv, Is
<1> QED BY <1>3, <1>4, <1>5, <1>6, <1>7, <1>8, <1>9, TypeStays

LEMMA DieKeeps == ASSUME ExecutionInv, Die PROVE ExecutionInv'
<1> USE DEF ExecutionInv
<1>1. outcome = None BY StillOpen DEF Die
<1>2. Typed BY AtType DEF Die, Typed, TypeOK, Awaiting, evidence
<1>3. at' \in Places /\ at'.step = "dead" /\ at'.code = at.code
  BY GoesTo DEF Die, Steps
<1>4. at'.code = Awaiting \/ outcome' = Awaiting => Sound'
  BY <1>3, SoundStays DEF Die
<1>5. LoopInv' BY <1>3 DEF LoopInv, Before, Computing, Sealing, InGui, InPhase
<1>6. FilesInv' BY <1>3 DEF FilesInv, Before, Computing, InGui, InPhase
<1>7. SpoilInv' BY <1>3 DEF Die, evidence, SpoilInv
<1>8. EndInv' BY <1>1, <1>3 DEF Die, EndInv, Is
<1> QED BY <1>2, <1>3, <1>4, <1>5, <1>6, <1>7, <1>8, TypeStays

\* What others do: changes are never taken back.
LEMMA AroundKeeps ==
  ASSUME ExecutionInv, UNCHANGED <<at, evidence, outcome>>, Typed, changed \subseteq changed',
         process'.alive => process.alive
  PROVE  ExecutionInv'
<1> USE DEF ExecutionInv
<1>1. TypeOK' BY AtType, TypeStays
<1>2. LoopInv'
  BY EvidenceStays DEF evidence, LoopInv, Before, Computing, Sealing, InGui, InPhase
<1>3. FilesInv' BY DEF evidence, FilesInv, Before, Computing, InGui, InPhase, Is
<1>4. SpoilInv' BY DEF evidence, SpoilInv
<1>5. EndInv' BY DEF EndInv, Is
<1> QED BY <1>1, <1>2, <1>3, <1>4, <1>5, SoundStays

LEMMA OthersKeep ==
  ASSUME ExecutionInv,
         \/ \E what \in Reviewed : Change(what)
         \/ \E reason \in Reasons : Stop(reason)
         \/ OtherOwner \/ ChildExits \/ GroupKilled
  PROVE  ExecutionInv'
<1> USE DEF ExecutionInv
<1>1. ASSUME NEW what \in Reviewed, Change(what) PROVE ExecutionInv'
  <2>1. Typed BY <1>1, AtType DEF Change, Typed, TypeOK, Awaiting, evidence
  <2> QED BY <1>1, <2>1, AroundKeeps DEF Change
<1>2. ASSUME NEW reason \in Reasons, Stop(reason) PROVE ExecutionInv'
  <2>1. Typed BY <1>2, AtType DEF Stop, Typed, TypeOK, Awaiting, evidence
  <2> QED BY <1>2, <2>1, AroundKeeps DEF Stop
<1>3. CASE OtherOwner
  <2>1. Typed BY <1>3, AtType DEF OtherOwner, Typed, TypeOK, Awaiting, evidence
  <2> QED BY <1>3, <2>1, AroundKeeps DEF OtherOwner
<1>4. CASE ChildExits \/ GroupKilled
  <2>1. PICK code \in {"ok", "bad"} : process' = [process EXCEPT !.alive = FALSE, !.code = code]
    BY <1>4 DEF ChildExits, GroupKilled
  <2>2. process' \in ProcessStates /\ ~process'.alive BY <2>1, AtType DEF ProcessStates
  <2>3. Typed BY <1>4, <2>2 DEF ChildExits, GroupKilled, Typed, TypeOK, Awaiting, evidence
  <2> QED BY <1>4, <2>2, <2>3, AroundKeeps DEF ChildExits, GroupKilled
<1> QED BY <1>1, <1>2, <1>3, <1>4

LEMMA RestKeeps == ASSUME ExecutionInv, UNCHANGED vars PROVE ExecutionInv'
<1>1. Typed BY TypeFrame DEF vars, ExecutionInv
<1> QED BY <1>1, AroundKeeps DEF vars

-----------------------------------------------------------------------------
(* The theorems *)

LEMMA ExecutionInit == Init => ExecutionInv
<1> SUFFICES ASSUME Init PROVE ExecutionInv OBVIOUS
<1>1. /\ at.step = "loading" /\ at.code = None /\ at.case = 1 /\ at.level = 0
      /\ ~process.alive /\ outcome = None /\ files = {} /\ spoiled = {}
  BY DEF Init, NoProcess
<1>2. TypeOK
  <2>1. at \in Places BY ExecutionAssumption DEF Init, Places, Steps
  <2>2. process \in ProcessStates BY DEF Init, NoProcess, ProcessStates
  <2>3. rows \in [1..Cases -> Seq(Row)] BY DEF Init
  <2> QED BY <2>1, <2>2, <2>3 DEF Init, TypeOK, Places, ProcessStates, Awaiting
<1>3. Worked(1, 0)
  <2>1. \A case \in 1..Cases : rows[case] = << >> BY DEF Init
  <2>2. \A case \in 1..Cases : ~(case < 1) BY ExecutionAssumption
  <2> QED BY <2>1, <2>2 DEF Worked, Ordered
<1>4. LoopInv BY <1>1, <1>3 DEF LoopInv, Before, Computing, Sealing, InGui, InPhase
<1>5. FilesInv BY <1>1 DEF FilesInv, InGui, InPhase
<1>6. SpoilInv BY <1>1 DEF SpoilInv
<1>7. EndInv BY <1>1, NoneAssumption DEF EndInv, Is, Awaiting
<1> QED BY <1>1, <1>2, <1>4, <1>5, <1>6, <1>7, NoneAssumption DEF ExecutionInv, Awaiting

LEMMA ExecutionStep == ExecutionInv /\ [Next]_vars => ExecutionInv'
<1> SUFFICES ASSUME ExecutionInv, [Next]_vars PROVE ExecutionInv' OBVIOUS
<1>1. CASE Load BY <1>1, LoadKeeps
<1>2. CASE EnterAttempt
  <2>1. Enter("entering", Place("ready", 1, 1, 0)) BY <1>2 DEF EnterAttempt, FirstStage
  <2> QED BY <2>1, EnterKeeps
<1>3. CASE EnterGui BY <1>3, EnterKeeps DEF EnterGui
<1>4. CASE SealAttempt BY <1>4, SealKeeps DEF SealAttempt, Steps
<1>5. CASE SealGui BY <1>5, SealKeeps DEF SealGui, Steps
<1>6. CASE StartProcess \/ AfterProcess \/ NextStage \/ Interrupt
  BY <1>6, StartKeeps, AfterKeeps, NextStageKeeps, InterruptKeeps
<1>7. CASE ValidateLevel \/ ValidationRaises
  BY <1>7, ValidateKeeps, ValidationRaisesKeeps
<1>8. CASE RecordAttempt \/ Recorded \/ BindAttempt
  BY <1>8, RecordKeeps, RecordedKeeps, BindKeeps
<1>9. CASE IssueRequest \/ NextGuiCase \/ WriteReceipt \/ WriteExecution
  BY <1>9, IssueKeeps, NextGuiKeeps, ReceiptKeeps, WriteExecutionKeeps
<1>10. CASE Unwind \/ Verify \/ Finish \/ Die
  BY <1>10, UnwindKeeps, VerifyKeeps, FinishKeeps, DieKeeps
<1>11. CASE ChildExits \/ GroupKilled \/ (Around /\ ~Die)
  BY <1>11, OthersKeep DEF Around
<1>12. CASE Rest \/ UNCHANGED vars BY <1>12, RestKeeps DEF Rest
<1> QED
  BY <1>1, <1>2, <1>3, <1>4, <1>5, <1>6, <1>7, <1>8, <1>9, <1>10, <1>11, <1>12
  DEF Next, Supervising, Around

\* Every state of an execution satisfies the inductive invariant.
THEOREM ExecutionCorrect == Spec => []ExecutionInv
BY ExecutionInit, ExecutionStep, PTL DEF Spec

\* Type correctness of the execution, for any number of cases and levels: its
\* place, process, rows, files and outcome.
THEOREM ExecutionTypeCorrect == Spec => []TypeOK
BY ExecutionCorrect, PTL DEF ExecutionInv

\* _finish never leaves a run for review whose evidence something changed is
\* part of, whose cases do not all pass on the same levels and agree on the
\* last three, or that lacks its receipt.
THEOREM ReviewsAreSound == Spec => []ReviewableSound
<1>1. ExecutionInv => ReviewableSound
  BY DEF ExecutionInv, ReviewableSound, Sound, AllRefined, Awaiting
<1> QED BY <1>1, ExecutionCorrect, PTL

LEMMA StopStep ==
  ASSUME ExecutionInv, Next
  PROVE  /\ outcome' = "awaiting_visual_review" /\ outcome = None => "cancelled" \notin stops
         /\ process.alive /\ at' # at => at'.step \in {"raising", "dead"}
<1>1. outcome' = "awaiting_visual_review" /\ outcome = None => "cancelled" \notin stops
  <2>1. CASE Finish BY <2>1 DEF Finish, Outcome
  <2>2. CASE ~Finish
    <3>1. outcome' = outcome
      BY <2>2 DEF Next, Supervising, Around, Load, EnterAttempt, EnterGui, Enter, SealAttempt,
        SealGui, Seal, StartProcess, AfterProcess, NextStage, ValidateLevel, ValidationRaises,
        RecordAttempt, Recorded, BindAttempt, IssueRequest, NextGuiCase, WriteReceipt,
        WriteExecution, Unwind, Verify, Interrupt, ChildExits, GroupKilled, Change, Stop,
        OtherOwner, Die, Rest, vars
    <3> QED BY <3>1, NoneAssumption
  <2> QED BY <2>1, <2>2
<1>2. ASSUME process.alive, at' # at PROVE at'.step \in {"raising", "dead"}
  <2>1. TypeOK /\ at.step \in {"running", "raising", "dead"} BY <1>2 DEF ExecutionInv, EndInv
  <2>2. Interrupt \/ Die
    BY <1>2, <2>1 DEF Next, Supervising, Around, Is, Load, EnterAttempt, EnterGui, Enter,
      SealAttempt, SealGui, Seal, StartProcess, AfterProcess, NextStage, ValidateLevel,
      ValidationRaises, RecordAttempt, Recorded, BindAttempt, IssueRequest, NextGuiCase,
      WriteReceipt, WriteExecution, Unwind, Verify, Finish, ChildExits, GroupKilled, Change,
      Stop, OtherOwner, Rest, vars
  <2>3. CASE Interrupt
    <3>1. "timed_out" \in Codes BY DEF Codes
    <3>2. \E code \in Codes : Raises(code)
      BY <2>1, <2>3, <3>1, FailedIsCode, CheckpointPasses DEF Interrupt
    <3> QED BY <2>1, <3>2, RaisesWith
  <2>4. CASE Die BY <2>1, <2>4, GoesTo DEF Die, Steps
  <2> QED BY <2>2, <2>3, <2>4
<1> QED BY <1>1, <1>2

\* A cancellation that came before _finish wins over what was achieved, and
\* nothing is started, sealed or finished beside a process that lives.
THEOREM StopsAreHonoured == Spec => StopHonoured
<1>1. ExecutionInv /\ [Next]_vars =>
        [/\ outcome' = "awaiting_visual_review" /\ outcome = None => "cancelled" \notin stops
         /\ process.alive /\ at' # at => at'.step \in {"raising", "dead"}]_vars
  BY StopStep
<1> QED BY <1>1, ExecutionCorrect, PTL DEF Spec, StopHonoured
==============================================================================
