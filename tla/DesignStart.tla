------------------------------- MODULE DesignStart -------------------------------
(***************************************************************************)
(* How a design comes to be on disk: DesignSessionService.start with what  *)
(* it calls, and record_knowledge.                                         *)
(*                                                                         *)
(* A design is made in a staging directory under the lock of all designs   *)
(* and appears by one rename; the CAD it is made from is read several      *)
(* times and may be edited in between.  Every read and every write is a    *)
(* step of its own; a process may be killed between any two.               *)
(*                                                                         *)
(* The contents of an edited file are numbers that grow: it is never       *)
(* edited back.  Left out: other designs, which share only the lock; the   *)
(* words of titles, requirements and approvals.                            *)
(*                                                                         *)
(* Definitions marked "Wrong" are slips, not the model.                    *)
(***************************************************************************)
EXTENDS Naturals, FiniteSets

CONSTANTS
  Users,       \* processes that start the design
  Intents,     \* title, requirements and proposal of a start
  MaxEdits,    \* bound: edits of the CAD file
  MaxDeaths,   \* bound: processes killed
  None

VARIABLES
  source,      \* the contents of the CAD file outside, 1..MaxEdits + 1
  design,      \* the design directory, or None
  lock,        \* .designs.lock
  stages,      \* staging directories, by the process; "abandoned" has none
  user,        \* what every process holds between two steps
  deaths

files == <<design, stages>>
vars == <<source, files, lock, user, deaths>>

-----------------------------------------------------------------------------
(* Vocabulary *)

Contents == 1..MaxEdits + 1
\* new_design from nothing, or from a seed; existing_model, FCStd or STEP.
Kinds == {"generated", "seed", "fcstd", "step"}
Classification(kind) == IF kind \in {"generated", "seed"} THEN "new_design" ELSE "existing_model"
\* _session_identity: neither the CAD file nor the words of the approval.
Identity(intent, kind) == <<intent, Classification(kind)>>
Design ==
  [identity : Intents \X {"new_design", "existing_model"}, kind : Kinds,
   snapshot : Contents \cup {None}, sha : Contents \cup {None},
   model : Contents \cup {0, None}, by : Users,
   knowledge : {"not_executed", "used", "unavailable"}]

Idle ==
  [step |-> "idle", intent |-> None, kind |-> None, read |-> None, sha |-> None,
   model |-> None, answer |-> None]
Is(u, step) == user[u].step = step
Goes(u, state) == user' = [user EXCEPT ![u] = state]
Step(u, step) == Goes(u, [user[u] EXCEPT !.step = step])
Answer(u, answer) == Goes(u, [Idle EXCEPT !.answer = answer])

-----------------------------------------------------------------------------
(* DesignSessionService.start *)

\* classify_approval, the arguments.
Start(u, intent, kind) ==
  /\ Is(u, "idle")
  /\ Goes(u, [Idle EXCEPT !.step = "locking", !.intent = intent, !.kind = kind])
  /\ UNCHANGED <<source, files, lock, deaths>>
NotApproved(u) ==
  /\ Is(u, "idle")
  /\ Answer(u, "not_started")
  /\ UNCHANGED <<source, files, lock, deaths>>
\* (Wrong: a design that is there is taken for the one that is asked for.)
SameIntentAny(u) == TRUE
SameIntent(u) == design.identity = Identity(user[u].intent, user[u].kind)
\* A design that is there is resumed or refused, else the lock is kept.
LockDesigns(u) ==
  /\ Is(u, "locking") /\ lock = None
  /\ IF design # None
     THEN Answer(u, IF SameIntent(u) THEN "resumed" ELSE "refused") /\ UNCHANGED <<lock, stages>>
     ELSE /\ Step(u, IF user[u].kind = "generated" THEN "converting" ELSE "reading")
          /\ lock' = u /\ stages' = stages \cup {u}
  /\ UNCHANGED <<source, design, deaths>>
\* (Wrong: the staging directory of a failed start is left.)
StagesWithoutKept(u) == stages
StagesWithout(u) == stages \ {u}
\* What went wrong removes the staging directory.
Fail(u) ==
  /\ user[u].step \in {"reading", "hashing", "converting", "rehashing", "comparing", "publishing"}
  /\ Answer(u, "refused")
  /\ lock' = None /\ stages' = StagesWithout(u)
  /\ UNCHANGED <<source, design, deaths>>

\* read_bytes, inspected; of a seed no digest is taken, it is written at once.
ReadSource(u) ==
  /\ Is(u, "reading")
  /\ Goes(u, IF user[u].kind = "seed"
             THEN [user[u] EXCEPT !.step = "comparing", !.read = source, !.model = source]
             ELSE [user[u] EXCEPT !.step = "hashing", !.read = source])
  /\ UNCHANGED <<source, files, lock, deaths>>
\* file_sha256 reads the file again; the snapshot is what was read before.
HashSource(u) ==
  /\ Is(u, "hashing")
  /\ Goes(u, [user[u] EXCEPT !.step = "converting", !.sha = source])
  /\ UNCHANGED <<source, files, lock, deaths>>
\* The model: a generated seed, a copy, or what FreeCAD makes of the snapshot.
MakeModel(u) ==
  /\ Is(u, "converting")
  /\ Goes(u, [user[u] EXCEPT !.step = IF user[u].kind = "generated" THEN "publishing" ELSE "rehashing",
                             !.model = IF user[u].kind = "generated" THEN 0 ELSE user[u].read])
  /\ UNCHANGED <<source, files, lock, deaths>>
RehashSource(u) ==
  /\ Is(u, "rehashing") /\ source = user[u].sha
  /\ Step(u, "comparing")
  /\ UNCHANGED <<source, files, lock, deaths>>
\* (Wrong: the bytes are not compared again.)
StillReadAny(u) == TRUE
StillRead(u) == source = user[u].read
CompareSource(u) ==
  /\ Is(u, "comparing") /\ StillRead(u)
  /\ Step(u, "publishing")
  /\ UNCHANGED <<source, files, lock, deaths>>
\* design.json and the rename of the staging directory.
PublishDesign(u) ==
  /\ Is(u, "publishing") /\ design = None
  /\ design' = [identity |-> Identity(user[u].intent, user[u].kind), kind |-> user[u].kind,
                snapshot |-> IF Classification(user[u].kind) = "existing_model" THEN user[u].read ELSE None,
                sha |-> user[u].sha, model |-> user[u].model, by |-> u, knowledge |-> "not_executed"]
  /\ stages' = stages \ {u} /\ lock' = None
  /\ Answer(u, "started")
  /\ UNCHANGED <<source, deaths>>
\* record_knowledge, under the lock of the design.
RecordKnowledge(u) ==
  /\ Is(u, "idle") /\ design # None
  /\ \E status \in {"used", "unavailable"} : design' = [design EXCEPT !.knowledge = status]
  /\ Answer(u, "recorded")
  /\ UNCHANGED <<source, stages, lock, deaths>>

-----------------------------------------------------------------------------
(* Around the program *)

Edit ==
  /\ source < MaxEdits + 1
  /\ source' = source + 1
  /\ UNCHANGED <<files, lock, user, deaths>>
\* The lock goes with the process; its staging directory stays.
Die(u) ==
  /\ ~Is(u, "idle") /\ deaths < MaxDeaths
  /\ deaths' = deaths + 1
  /\ lock' = IF lock = u THEN None ELSE lock
  /\ stages' = IF lock = u THEN (stages \ {u}) \cup {"abandoned"} ELSE stages
  /\ Answer(u, None)
  /\ UNCHANGED <<source, design>>

-----------------------------------------------------------------------------
Init ==
  /\ source = 1 /\ design = None /\ lock = None /\ stages = {}
  /\ user = [u \in Users |-> Idle]
  /\ deaths = 0

Next ==
  \/ \E u \in Users :
       \/ \E intent \in Intents, kind \in Kinds : Start(u, intent, kind)
       \/ NotApproved(u) \/ LockDesigns(u) \/ Fail(u) \/ ReadSource(u) \/ HashSource(u)
       \/ MakeModel(u) \/ RehashSource(u) \/ CompareSource(u) \/ PublishDesign(u)
       \/ RecordKnowledge(u) \/ Die(u)
  \/ Edit
Spec == Init /\ [][Next]_vars

-----------------------------------------------------------------------------
(* Properties *)

\* The types, and that a staging directory is there exactly while its process
\* holds the lock: every way out of start, but death, removes it.
TypeOK ==
  /\ source \in Contents /\ design \in Design \cup {None}
  /\ lock \in Users \cup {None}
  /\ stages \subseteq Users \cup {"abandoned"}
  /\ \A u \in Users : u \in stages <=> lock = u

\* The design that is there was made of one state of the CAD file: the digest
\* its record names, the read-only snapshot and the model agree, although the
\* file is read four times while it may be edited.
MadeOfOneSource ==
  design # None /\ design.kind \in {"fcstd", "step"} =>
    design.sha = design.snapshot /\ design.model = design.snapshot

\* A design, once there, keeps what it was made of and by whom, whoever starts
\* it again; a start is answered by the design that was asked for.
KeptStep ==
  /\ design # None =>
       design' # None /\ [design' EXCEPT !.knowledge = design.knowledge] = design
  /\ \A u \in Users : user'[u] # user[u] =>
       /\ user'[u].answer = "started" => design'.by = u
       /\ user'[u].answer \in {"started", "resumed"} =>
            design'.identity = Identity(user[u].intent, user[u].kind)
DesignKept == [][KeptStep]_vars
=============================================================================
