------------------------------- MODULE RunLedger -------------------------------
(***************************************************************************)
(* What the scheduler promises about the run records of a workspace,       *)
(* whatever clients, supervisors and crashes do: a run is executed at most *)
(* once and alone, it ends once, and only a reviewed run is completed.     *)
(***************************************************************************)
CONSTANTS Runs, None

VARIABLES
  status,  \* the status in run.json
  asked,   \* runs with cancel_requested
  holder   \* the run that is being executed, or None

vars == <<status, asked, holder>>

Unfinished == {"queued", "running", "awaiting_visual_review"}
Unsuccessful == {"failed", "cancelled", "timed_out", "interrupted"}

Init ==
  status = [r \in Runs |-> "absent"] /\ asked = {} /\ holder = None

Submit(r) ==
  /\ status[r] = "absent"
  /\ status' = [status EXCEPT ![r] = "queued"]
  /\ UNCHANGED <<asked, holder>>

\* The supervisor may be dead by the time the run says "running".
Start(r) ==
  /\ status[r] = "queued" /\ holder = None
  /\ status' = [status EXCEPT ![r] = "running"]
  /\ holder' \in {None, r}
  /\ UNCHANGED asked

\* The outcome of an execution; a cancellation asked for in time wins.
End(r, st) ==
  /\ holder = r /\ status[r] = "running"
  /\ IF r \in asked THEN st = "cancelled"
     ELSE st \in {"awaiting_visual_review", "failed", "timed_out", "interrupted"}
  /\ status' = [status EXCEPT ![r] = st]
  /\ holder' = None
  /\ UNCHANGED asked

\* The execution is over, or its process is gone, with no outcome published.
Drop == holder' = None /\ UNCHANGED <<status, asked>>

\* Runs nobody executes any more are closed, or a run exhausts its records.
Close(S, st) ==
  /\ \A r \in S : status[r] \in Unfinished
  /\ st \in {"failed", "interrupted"}
  /\ status' = [r \in Runs |-> IF r \in S THEN st ELSE status[r]]
  /\ UNCHANGED <<asked, holder>>

Ask(r) ==
  /\ status[r] \in Unfinished
  /\ asked' = asked \cup {r}
  /\ \/ status' = status /\ status[r] = "running"
     \/ status' = [status EXCEPT ![r] = "cancelled"] /\ holder # r
     \/ status' = [status EXCEPT ![r] = "failed"]
  /\ UNCHANGED holder

Complete(r) ==
  /\ status[r] = "awaiting_visual_review" /\ r \notin asked
  /\ status' = [status EXCEPT ![r] = "completed"]
  /\ UNCHANGED <<asked, holder>>

Next ==
  \/ \E r \in Runs : Submit(r) \/ Start(r) \/ Ask(r) \/ Complete(r)
  \/ \E r \in Runs, st \in {"awaiting_visual_review"} \cup Unsuccessful : End(r, st)
  \/ \E S \in SUBSET Runs, st \in {"failed", "interrupted"} : Close(S, st)
  \/ Drop

Spec == Init /\ [][Next]_vars
================================================================================
