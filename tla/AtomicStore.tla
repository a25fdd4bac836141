------------------------------ MODULE AtomicStore ------------------------------
(***************************************************************************)
(* What the other modules take the managed files of secure_fs for: three   *)
(* cells that change in one step, each in the one way its users rely on.   *)
(*                                                                         *)
(* "state" is read and written again under a lock by the processes of the  *)
(* system, every one adding something of its own; "card" is written once;  *)
(* "blob" is named after its digest.                                       *)
(***************************************************************************)
CONSTANTS Processes, Texts

VARIABLES state, card, blob

cells == <<state, card, blob>>

\* A cell that is absent is empty.
Init == state = {} /\ card = {} /\ blob \in {{}, {"other"}}

\* An update keeps what the updates before it wrote.
Update(p) == state' = state \cup {p} /\ UNCHANGED <<card, blob>>
\* A card is there or not, and never another one.
Keep(t) == card = {} /\ card' = {t} /\ UNCHANGED <<state, blob>>
\* An artifact is what its name says, or is repaired.
Ingest == blob' = {"right"} /\ UNCHANGED <<state, card>>

Next == (\E p \in Processes : Update(p)) \/ (\E t \in Texts : Keep(t)) \/ Ingest
Spec == Init /\ [][Next]_cells
=============================================================================
