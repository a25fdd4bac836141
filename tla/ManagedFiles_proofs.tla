-------------------------- MODULE ManagedFiles_proofs --------------------------
(***************************************************************************)
(* Theorems about the managed files: the operations of secure_fs, taken    *)
(* system call by system call, are the cells of AtomicStore, whatever is   *)
(* interleaved and whoever is killed in between.                           *)
(***************************************************************************)
EXTENDS ManagedFiles, TLAPS

\* What process p, in state s, relies on while the names lead to e and l owns
\* the lock: which name a step is about, who keeps the lock, what was read or
\* is about to be published, and that a digest was verified on a sealed file.
Said(e, n) == IF e[n] = None THEN {} ELSE e[n].content
Fits(p, s, e, l) ==
  /\ s.step \in {"idle", "waiting", "releasing"} => s.name = None
  /\ s.step \in {"locked", "reading", "checking", "replacing"} => s.name = "state"
  /\ s.step \in {"linking", "linked", "published"} => s.name = "card"
  /\ s.step \in {"copied", "placing", "moving", "repairing", "verifying", "digesting",
                "ingested"} => s.name = "blob"
  /\ s.step = "writing" => s.name \in {"state", "card"}
  /\ s.step = "releasing" => l = p
  /\ s.name = "state" /\ s.step # "looking" => l = p
  /\ s.step = "reading" => s.content = Said(e, "state")
  /\ s.name = "state" /\ s.step \in {"writing", "checking", "replacing"} =>
       s.content = Said(e, "state") \cup {p}
  /\ s.name = "card" /\ s.step \in {"writing", "linking"} =>
       \E t \in Texts : s.content = {t}
  /\ s.step \in {"copied", "placing", "moving", "repairing"} => s.content = {"right"}
  /\ s.step \in {"linked", "published"} => e["card"] # None
  /\ s.step = "linked" => e["card"].names = 2
  /\ s.step \in {"digesting", "ingested"} => e["blob"] # None /\ e["blob"].readonly

\* One process at a time is between link and unlink; only what was verified
\* is read-only under a digest.
FilesInv ==
  /\ \A p \in Processes : Fits(p, process[p], entry, lock)
  /\ \A p, q \in Processes : Is(p, "linked") /\ Is(q, "linked") => p = q
  /\ Sealed("blob") => Content("blob") = {"right"}

\* What every step does: it keeps the invariants and is a step of the store.
Kept == TypeOK' /\ FilesInv' /\ [Store!Next]_(Store!cells)

ProcessState == [step : Steps, name : Names \cup {None}, content : Contents, fresh : BOOLEAN]

-----------------------------------------------------------------------------
(* How a process moves *)

LEMMA StateType == TypeOK => \A p \in Processes : process[p] \in ProcessState
BY DEF TypeOK, ProcessState

LEMMA FileType ==
  ASSUME NEW content \in Contents
  PROVE  /\ File(content, FALSE, 1) \in Files /\ File(content, FALSE, 1).content = content
         /\ File(content, FALSE, 2) \in Files /\ File(content, FALSE, 2).content = content
         /\ File(content, TRUE, 1) \in Files /\ File(content, TRUE, 1).content = content
         /\ File(content, FALSE, 2).names = 2
         /\ File(content, TRUE, 1).readonly /\ ~File(content, FALSE, 1).readonly
BY DEF File, Files

\* A step of p alone, which changes no file: those who hold the lock keep it.
LEMMA MovesOn ==
  ASSUME TypeOK, FilesInv, NEW p \in Processes, NEW s \in ProcessState, Goes(p, s),
         UNCHANGED <<platform, entry>>, deaths' \in 0..MaxDeaths,
         lock' \in Processes \cup {None}, lock' = lock \/ lock \in {None, p},
         Fits(p, s, entry, lock'), s.step # "linked"
  PROVE  Kept
<1>1. \A q \in Processes : process'[q] = IF q = p THEN s ELSE process[q]
  BY DEF Goes, TypeOK
<1>2. ASSUME NEW q \in Processes PROVE Fits(q, process'[q], entry', lock')
  <2>1. CASE q = p BY <1>1, <2>1
  <2>2. CASE q # p
    <3>1. Fits(q, process[q], entry, lock) BY DEF FilesInv
    <3>2. lock = q => lock' = q BY <2>2, FilesAssumption
    <3> QED BY <1>1, <2>2, <3>1, <3>2 DEF Fits, Said
  <2> QED BY <2>1, <2>2
<1>3. \A q \in Processes : Is(q, "linked")' => q # p /\ Is(q, "linked")
  BY <1>1 DEF Is
<1>4. Sealed("blob")' => Content("blob")' = {"right"}
  BY DEF FilesInv, Sealed, Content
<1>5. FilesInv' BY <1>2, <1>3, <1>4 DEF FilesInv
<1>6. process' \in [Processes -> ProcessState] BY DEF Goes, TypeOK, ProcessState
<1>7. \A q \in Processes :
        /\ process'[q].name = "state" /\ ~Is(q, "looking")' => lock' = q
        /\ Is(q, "linked")' => entry'[process'[q].name].names = 2
  BY <1>2 DEF Fits, Is
<1>8. TypeOK' BY <1>6, <1>7 DEF TypeOK, ProcessState
<1>9. UNCHANGED Store!cells BY DEF Store!cells, Content
<1> QED BY <1>5, <1>8, <1>9 DEF Kept

\* A file that is placed under a name: under its lock, where there was none,
\* or with what its digest stands for.
LEMMA PlacesFile ==
  ASSUME TypeOK, FilesInv, NEW p \in Processes, NEW s \in ProcessState,
         NEW n \in Names, NEW f \in Files, Places(p, n, f, s),
         UNCHANGED <<platform, lock, deaths>>, Fits(p, s, entry', lock),
         n = "state" => lock = p /\ f.content = Content("state") \cup {p},
         n = "card" => entry["card"] = None /\ \E t \in Texts : f.content = {t},
         n = "blob" => f.readonly /\ f.content = {"right"},
         s.step = "linked" => n = "card"
  PROVE  Kept
<1>1. entry' = [entry EXCEPT ![n] = f] BY DEF Places
<1>2. entry'[n] = f /\ f # None /\ \A m \in Names \ {n} : entry'[m] = entry[m]
  BY <1>1, FilesAssumption DEF TypeOK
<1>3. process'[p] = s BY DEF Places
<1>4. ASSUME NEW q \in Processes, q # p
      PROVE  /\ process'[q] \in ProcessState
             /\ process'[q].step = process[q].step /\ process'[q].name = process[q].name
             /\ process'[q].content = process[q].content
  <2>1. process[q] \in ProcessState BY StateType
  <2>2. process'[q] = [process[q] EXCEPT !.fresh = @ /\ process[q].name # n]
    BY <1>4 DEF Places
  <2> QED BY <2>1, <2>2 DEF ProcessState
<1>5. ASSUME NEW q \in Processes PROVE Fits(q, process'[q], entry', lock')
  <2>1. CASE q = p BY <1>3, <2>1
  <2>2. CASE q # p
    <3>1. Fits(q, process[q], entry, lock) BY DEF FilesInv
    <3>2. process[q].name = "state" /\ process[q].step # "looking" => n # "state"
      BY <2>2, <3>1 DEF Fits
    <3>3. process[q].step \in {"linked", "published"} => n # "card" BY <3>1 DEF Fits
    <3>4. Said(entry', "state") = Said(entry, "state") \/ n = "state"
      BY <1>2 DEF Said, Names
    <3>5. n # "card" => entry'["card"] = entry["card"] BY <1>2 DEF Names
    <3>6. process[q].step \in {"digesting", "ingested"} =>
            entry'["blob"] # None /\ entry'["blob"].readonly
      BY <1>2, <3>1 DEF Fits, Names
    <3>7. Fits(q, process[q], entry', lock)
      BY <3>1, <3>2, <3>3, <3>4, <3>5, <3>6 DEF Fits
    <3> QED BY <1>4, <2>2, <3>7 DEF Fits
  <2> QED BY <2>1, <2>2
<1>6. \A q \in Processes : process'[q].step = "linked" /\ q # p =>
        process[q].step = "linked" /\ n # "card"
  <2> SUFFICES ASSUME NEW q \in Processes, q # p, process'[q].step = "linked"
               PROVE  process[q].step = "linked" /\ n # "card"
    OBVIOUS
  <2>1. Fits(q, process[q], entry, lock) BY DEF FilesInv
  <2> QED BY <1>4, <2>1 DEF Fits
<1>7. \A q, r \in Processes : Is(q, "linked")' /\ Is(r, "linked")' => q = r
  BY <1>3, <1>6 DEF FilesInv, Is
<1>8. Sealed("blob")' => Content("blob")' = {"right"}
  BY <1>2 DEF FilesInv, Sealed, Content, Names
<1>9. FilesInv' BY <1>5, <1>7, <1>8 DEF FilesInv
<1>10. process' \in [Processes -> ProcessState] BY <1>3, <1>4 DEF Places
<1>11. \A q \in Processes :
         /\ process'[q].name = "state" /\ ~Is(q, "looking")' => lock' = q
         /\ Is(q, "linked")' => entry'[process'[q].name].names = 2
  BY <1>5 DEF Fits, Is
<1>12. entry' \in [Names -> Files \cup {None}] /\ entry'["state"] # None
  BY <1>1, <1>2 DEF TypeOK, Names
<1>13. TypeOK' BY <1>10, <1>11, <1>12 DEF TypeOK, ProcessState
<1>14. Content(n)' = f.content /\ \A m \in Names \ {n} : Content(m)' = Content(m)
  BY <1>2 DEF Content
<1>15. Store!Next
  <2>1. CASE n = "state" BY <1>14, <2>1 DEF Store!Next, Store!Update, Names
  <2>2. CASE n = "card"
    <3>1. PICK t \in Texts : f.content = {t} BY <2>2
    <3>2. Content("card") = {} BY <2>2 DEF Content
    <3>3. Store!Keep(t) BY <1>14, <2>2, <3>1, <3>2 DEF Store!Keep, Names
    <3> QED BY <3>3 DEF Store!Next
  <2>3. CASE n = "blob" BY <1>14, <2>3 DEF Store!Next, Store!Ingest, Names
  <2> QED BY <2>1, <2>2, <2>3 DEF Names
<1> QED BY <1>9, <1>13, <1>15 DEF Kept

\* The card is the same file, of one name or made read-only.
LEMMA MarksCard ==
  ASSUME TypeOK, FilesInv, NEW p \in Processes, NEW s \in ProcessState, NEW f \in Files,
         Goes(p, s), UNCHANGED <<platform, lock, deaths>>,
         entry["card"] # None, entry' = [entry EXCEPT !["card"] = f],
         f.content = entry["card"].content,
         \A q \in Processes : Is(q, "linked") => q = p,
         Fits(p, s, entry', lock), s.step # "linked"
  PROVE  Kept
<1>1. entry'["card"] = f /\ f # None /\ \A m \in Names \ {"card"} : entry'[m] = entry[m]
  BY FilesAssumption DEF TypeOK, Names
<1>2. \A q \in Processes : process'[q] = IF q = p THEN s ELSE process[q]
  BY DEF Goes, TypeOK
<1>3. ASSUME NEW q \in Processes PROVE Fits(q, process'[q], entry', lock')
  <2>1. CASE q = p BY <1>2, <2>1
  <2>2. CASE q # p
    <3>1. Fits(q, process[q], entry, lock) /\ process[q].step # "linked"
      BY <2>2 DEF FilesInv, Is
    <3>2. Fits(q, process[q], entry', lock) BY <1>1, <3>1 DEF Fits, Said, Names
    <3> QED BY <1>2, <2>2, <3>2
  <2> QED BY <2>1, <2>2
<1>4. \A q \in Processes : ~Is(q, "linked")' BY <1>2 DEF Is
<1>5. \A m \in Names : Content(m)' = Content(m) BY <1>1 DEF Content
<1>6. Sealed("blob")' => Content("blob")' = {"right"}
  BY <1>1, <1>5 DEF FilesInv, Sealed, Names
<1>7. FilesInv' BY <1>3, <1>4, <1>6 DEF FilesInv
<1>8. process' \in [Processes -> ProcessState] BY DEF Goes, TypeOK, ProcessState
<1>9. \A q \in Processes :
        process'[q].name = "state" /\ ~Is(q, "looking")' => lock' = q
  BY <1>3 DEF Fits, Is
<1>10. entry' \in [Names -> Files \cup {None}] /\ entry'["state"] # None
  BY <1>1 DEF TypeOK, Names
<1>11. TypeOK' BY <1>4, <1>8, <1>9, <1>10 DEF TypeOK, ProcessState
<1>12. UNCHANGED Store!cells BY <1>5 DEF Store!cells, Names
<1> QED BY <1>7, <1>11, <1>12 DEF Kept

-----------------------------------------------------------------------------
(* Every action *)

\* What a step that is taken from, or leads to, a plain state needs.
LEMMA IdleState == Idle \in ProcessState /\ \A s \in Steps : [Idle EXCEPT !.step = s] \in ProcessState
BY DEF Idle, ProcessState, Contents, Steps

LEMMA KeptLocking ==
  ASSUME TypeOK, FilesInv, NEW p \in Processes, Locking(p)
  PROVE  Kept
<1>1. process[p] \in ProcessState /\ Fits(p, process[p], entry, lock)
  BY StateType DEF FilesInv
<1>2. CASE Wait(p)
  <2> DEFINE s == [process[p] EXCEPT !.step = "waiting"]
  <2>1. s \in ProcessState /\ Goes(p, s) BY <1>1, <1>2 DEF Wait, Step, ProcessState, Steps
  <2>2. Fits(p, s, entry, lock)
    BY <1>1, <1>2, FilesAssumption DEF Wait, Is, Fits, ProcessState, Names
  <2>3. s.step # "linked" BY <1>1 DEF ProcessState
  <2> HIDE DEF s
  <2> QED BY <1>2, <2>1, <2>2, <2>3, MovesOn DEF Wait, TypeOK
<1>3. CASE Acquire(p)
  <2> DEFINE s == [Idle EXCEPT !.step = "locked", !.name = "state"]
  <2>1. s \in ProcessState /\ Goes(p, s) /\ lock' = p
    BY <1>3 DEF Acquire, ProcessState, Steps, Idle, Contents, Names
  <2>2. Fits(p, s, entry, lock') /\ s.step # "linked" BY <2>1 DEF Idle, Fits
  <2> HIDE DEF s
  <2> QED BY <1>3, <2>1, <2>2, MovesOn DEF Acquire, Free, TypeOK
<1>4. CASE Release(p)
  <2>1. Goes(p, Idle) /\ lock' = None /\ lock = p
    BY <1>1, <1>4 DEF Release, Is, Fits
  <2>2. Fits(p, Idle, entry, lock') /\ Idle.step # "linked"
    BY FilesAssumption DEF Idle, Fits, Names
  <2> QED BY <1>4, <2>1, <2>2, IdleState, MovesOn DEF Release, TypeOK
<1>5. CASE TryAcquire(p)
  <2> DEFINE s == [process[p] EXCEPT !.step = "releasing"]
  <2>1. s \in ProcessState /\ Goes(p, s) /\ lock' = p
    BY <1>1, <1>5 DEF TryAcquire, Step, ProcessState, Steps
  <2>2. Fits(p, s, entry, lock')
    BY <1>1, <1>5, <2>1, FilesAssumption DEF TryAcquire, Is, Fits, ProcessState, Names
  <2>3. s.step # "linked" BY <1>1 DEF ProcessState
  <2> HIDE DEF s
  <2> QED BY <1>5, <2>1, <2>2, <2>3, MovesOn DEF TryAcquire, Free, TypeOK
<1> QED BY <1>2, <1>3, <1>4, <1>5 DEF Locking

\* What is read is of a type that can be written again.
LEMMA ReadType ==
  ASSUME TypeOK, NEW n \in Names, NEW p \in Processes
  PROVE  Content(n) \in Contents /\ Content(n) \cup {p} \in Contents
<1>1. entry[n] \in Files \cup {None} BY DEF TypeOK
<1>2. Content(n) \in Contents BY <1>1 DEF Content, Files, Contents
<1> QED BY <1>2 DEF Contents

LEMMA KeptReading ==
  ASSUME TypeOK, FilesInv, NEW p \in Processes, Reading(p)
  PROVE  Kept
<1>1. process[p] \in ProcessState /\ Fits(p, process[p], entry, lock)
  BY StateType DEF FilesInv
<1>2. UNCHANGED <<platform, entry, lock, deaths>>
  BY DEF Reading, OpenState, LookAt, Look, Revise
<1>3. CASE OpenState(p)
  <2> DEFINE s == [step |-> "reading", name |-> "state", content |-> Content("state"),
                   fresh |-> TRUE]
  <2>1. s \in ProcessState /\ Goes(p, s)
    BY <1>3, ReadType DEF OpenState, Opens, ProcessState, Steps, Names
  <2>2. Fits(p, s, entry, lock) /\ s.step # "linked"
    BY <1>1, <1>3 DEF OpenState, Is, Fits, Content, Said
  <2> HIDE DEF s
  <2> QED BY <1>2, <2>1, <2>2, MovesOn DEF TypeOK
<1>4. CASE LookAt(p)
  <2>1. PICK n \in {"state", "card"} :
          Goes(p, [step |-> "looking", name |-> n, content |-> Content(n), fresh |-> TRUE])
    BY <1>4 DEF LookAt, Opens
  <2> DEFINE s == [step |-> "looking", name |-> n, content |-> Content(n), fresh |-> TRUE]
  <2>2. s \in ProcessState BY ReadType DEF ProcessState, Steps, Names
  <2>3. Fits(p, s, entry, lock) /\ s.step # "linked" BY DEF Fits
  <2> HIDE DEF s
  <2> QED BY <1>2, <2>1, <2>2, <2>3, MovesOn DEF TypeOK, s
<1>5. CASE Look(p)
  <2>1. Fits(p, Idle, entry, lock) /\ Idle.step # "linked" /\ Goes(p, Idle)
    BY <1>5, FilesAssumption DEF Look, Idle, Fits, Names
  <2> QED BY <1>2, <2>1, IdleState, MovesOn DEF TypeOK
<1>6. CASE Revise(p)
  <2>1. process[p].name = "state" /\ process[p].content = Content("state") /\ lock = p
    BY <1>1, <1>6 DEF Revise, Is, Fits, Content, Said
  <2>2. CASE Goes(p, [process[p] EXCEPT !.step = "writing", !.content = @ \cup {p}])
    <3> DEFINE s == [process[p] EXCEPT !.step = "writing", !.content = @ \cup {p}]
    <3>1. process[p].content \cup {p} \in Contents BY <2>1, ReadType DEF Names
    <3>2. s \in ProcessState /\ s.step = "writing" /\ s.name = "state"
          /\ s.content = Content("state") \cup {p}
      BY <1>1, <2>1, <3>1 DEF ProcessState, Steps
    <3> HIDE DEF s
    <3>3. Fits(p, s, entry, lock) BY <2>1, <3>2 DEF Fits, Content, Said
    <3> QED BY <1>2, <2>2, <3>2, <3>3, MovesOn DEF TypeOK, s
  <2>3. CASE Goes(p, [Idle EXCEPT !.step = "releasing"])
    <3> DEFINE s == [Idle EXCEPT !.step = "releasing"]
    <3>1. s \in ProcessState BY IdleState DEF Steps
    <3>2. Fits(p, s, entry, lock) /\ s.step # "linked"
      BY <2>1, FilesAssumption DEF Fits, Idle, Names
    <3> HIDE DEF s
    <3> QED BY <1>2, <2>3, <3>1, <3>2, MovesOn DEF TypeOK, s
  <2> QED BY <1>6, <2>2, <2>3 DEF Revise
<1> QED BY <1>3, <1>4, <1>5, <1>6 DEF Reading

LEMMA KeptPublishing ==
  ASSUME TypeOK, FilesInv, NEW p \in Processes, Publishing(p)
  PROVE  Kept
<1>1. process[p] \in ProcessState /\ Fits(p, process[p], entry, lock)
  BY StateType DEF FilesInv
<1>2. UNCHANGED <<platform, lock, deaths>>
  BY DEF Publishing, WriteTemporary, LinkNew, UnlinkTemporary, MoveNew, Recheck,
         ReplaceState, MoveState, RemoveTemporary, MakeReadonly
\* Only the step changes, to one that relies on nothing more than the step before.
<1>3. ASSUME NEW step \in Steps, Step(p, step), UNCHANGED entry,
             \/ Is(p, "writing") /\ step = IF process[p].name = "state" THEN "checking"
                                           ELSE "linking"
             \/ Is(p, "checking") /\ step = "replacing"
             \/ step = "failed"
      PROVE  Kept
  <2> DEFINE s == [process[p] EXCEPT !.step = step]
  <2>1. /\ s \in ProcessState /\ s.step = step /\ s.name = process[p].name
        /\ s.content = process[p].content /\ step # "linked"
    BY <1>1, <1>3 DEF ProcessState
  <2> HIDE DEF s
  <2>2. Fits(p, s, entry, lock)
    <3>1. CASE Is(p, "writing") /\ step = "checking" /\ process[p].name = "state"
      BY <1>1, <2>1, <3>1 DEF Fits, Is
    <3>2. CASE Is(p, "writing") /\ step = "linking" /\ process[p].name = "card"
      BY <1>1, <2>1, <3>2 DEF Fits, Is
    <3>3. CASE Is(p, "checking") /\ step = "replacing" BY <1>1, <2>1, <3>3 DEF Fits, Is
    <3>4. CASE step = "failed"
      <4>1. process[p].name = "state" /\ process[p].step # "looking" => lock = p
        BY <1>1 DEF Fits
      <4>2. Is(p, "looking") => FALSE
        BY DEF Is, Publishing, WriteTemporary, LinkNew, UnlinkTemporary, MoveNew, Recheck,
               ReplaceState, MoveState, RemoveTemporary, MakeReadonly
      <4> QED BY <2>1, <3>4, <4>1, <4>2 DEF Fits, Is
    <3>5. Is(p, "writing") => process[p].name \in {"state", "card"} BY <1>1 DEF Fits, Is
    <3> QED BY <1>3, <3>1, <3>2, <3>3, <3>4, <3>5
  <2> QED BY <1>2, <1>3, <2>1, <2>2, MovesOn DEF TypeOK, Step, s
<1>4. CASE WriteTemporary(p)
  <2>1. PICK step \in Steps : step = IF process[p].name = "state" THEN "checking" ELSE "linking"
    BY DEF Steps
  <2> QED BY <1>3, <1>4, <2>1 DEF WriteTemporary, Step
\* A card is linked or moved where there was none.
<1>5. CASE LinkNew(p) \/ MoveNew(p)
  <2>1. /\ process[p].name = "card" /\ process[p].content \in Contents
        /\ \E t \in Texts : process[p].content = {t}
    BY <1>1, <1>5 DEF LinkNew, MoveNew, Is, Fits, ProcessState
  <2>2. CASE ~Vacant("card")
    <3>1. Step(p, "failed") /\ UNCHANGED entry BY <1>5, <2>1, <2>2 DEF LinkNew, MoveNew
    <3> QED BY <1>3, <3>1 DEF Steps
  <2>3. CASE Vacant("card")
    <3>1. PICK step \in {"linked", "published"}, names \in {1, 2} :
            /\ step = "linked" => names = 2
            /\ Places(p, "card", File(process[p].content, FALSE, names),
                      [process[p] EXCEPT !.step = step])
      <4>1. CASE LinkNew(p)
        <5>1. Places(p, "card", File(process[p].content, FALSE, 2),
                     [process[p] EXCEPT !.step = "linked"])
          BY <2>1, <2>3, <4>1 DEF LinkNew
        <5> QED BY <5>1
      <4>2. CASE MoveNew(p)
        <5>1. Places(p, "card", File(process[p].content, FALSE, 1),
                     [process[p] EXCEPT !.step = "published"])
          BY <2>1, <2>3, <4>2 DEF MoveNew
        <5> QED BY <5>1
      <4> QED BY <1>5, <4>1, <4>2
    <3> DEFINE s == [process[p] EXCEPT !.step = step]
               f == File(process[p].content, FALSE, names)
    <3>2. /\ f \in Files /\ f # None /\ f.content = process[p].content
          /\ step = "linked" => f.names = 2
      <4>1. CASE names = 1 BY <2>1, <3>1, <4>1, FilesAssumption, FileType
      <4>2. CASE names = 2 BY <2>1, <4>2, FilesAssumption, FileType
      <4> QED BY <4>1, <4>2
    <3>3. s \in ProcessState /\ s.step = step /\ s.name = "card"
      BY <1>1, <2>1 DEF ProcessState, Steps
    <3>4. entry'["card"] = f BY <3>1 DEF Places, TypeOK, Names
    <3> HIDE DEF s, f
    <3>5. Fits(p, s, entry', lock) BY <3>2, <3>3, <3>4 DEF Fits
    <3> QED BY <1>2, <2>1, <2>3, <3>1, <3>2, <3>3, <3>5, PlacesFile
      DEF Names, Vacant, s, f
  <2> QED BY <2>2, <2>3
<1>6. CASE UnlinkTemporary(p)
  <2>1. /\ process[p].name = "card" /\ entry["card"] # None /\ entry["card"] \in Files
        /\ \A q \in Processes : Is(q, "linked") => q = p
    BY <1>1, <1>6 DEF UnlinkTemporary, Is, Fits, FilesInv, TypeOK, Names
  <2> DEFINE s == [process[p] EXCEPT !.step = "published"]
             f == [entry["card"] EXCEPT !.names = 1]
  <2>2. Goes(p, s) /\ entry' = [entry EXCEPT !["card"] = f]
    BY <1>6, <2>1 DEF UnlinkTemporary, Step
  <2>3. f \in Files /\ f.content = entry["card"].content BY <2>1 DEF Files
  <2>4. s \in ProcessState /\ s.step = "published" /\ s.name = "card"
    BY <1>1, <2>1 DEF ProcessState, Steps
  <2>5. entry'["card"] # None BY <2>2, <2>3, FilesAssumption DEF TypeOK, Names
  <2> HIDE DEF s, f
  <2>6. Fits(p, s, entry', lock) BY <2>4, <2>5 DEF Fits
  <2> QED BY <1>2, <2>1, <2>2, <2>3, <2>4, <2>6, MarksCard
<1>7. CASE MakeReadonly(p)
  <2>1. entry["card"] # None /\ entry["card"] \in Files
    BY <1>1, <1>7 DEF MakeReadonly, Is, Fits, TypeOK, Names
  <2>2. /\ Goes(p, Idle) /\ Fits(p, Idle, entry', lock) /\ Idle.step # "linked"
        /\ Fits(p, Idle, entry, lock)
    BY <1>7, FilesAssumption DEF MakeReadonly, Idle, Fits, Names
  <2>3. CASE entry["card"].names = 1
    <3> DEFINE f == [entry["card"] EXCEPT !.readonly = TRUE]
    <3>1. entry' = [entry EXCEPT !["card"] = f] BY <1>7, <2>3 DEF MakeReadonly
    <3>2. f \in Files /\ f.content = entry["card"].content BY <2>1 DEF Files
    <3>3. \A q \in Processes : ~Is(q, "linked") BY <2>3 DEF FilesInv, Fits, Is
    <3> HIDE DEF f
    <3> QED BY <1>2, <2>1, <2>2, <3>1, <3>2, <3>3, IdleState, MarksCard
  <2>4. CASE entry["card"].names # 1
    <3>1. entry' = entry BY <1>7, <2>4 DEF MakeReadonly
    <3> QED BY <1>2, <2>2, <3>1, IdleState, MovesOn DEF TypeOK
  <2> QED BY <2>3, <2>4
<1>8. CASE Recheck(p)
  <2>1. PICK step \in {"replacing", "failed"} : Step(p, step)
    BY <1>8 DEF Recheck
  <2> QED BY <1>3, <1>8, <2>1 DEF Recheck, Steps
\* The state is replaced by its owner, which read what it holds.
<1>9. CASE ReplaceState(p) \/ MoveState(p)
  <2>1. /\ process[p].name = "state" /\ lock = p /\ process[p].content \in Contents
        /\ process[p].content = Content("state") \cup {p}
    BY <1>1, <1>9
    DEF ReplaceState, MoveState, Is, Fits, ProcessState, Content, Said
  <2>2. CASE Replaced(p)
    <3> DEFINE s == [Idle EXCEPT !.step = "releasing"]
               f == File(process[p].content, FALSE, 1)
    <3>1. Places(p, "state", f, s) BY <2>2 DEF Replaced
    <3>2. f \in Files /\ f.content = Content("state") \cup {p}
      BY <2>1, FileType
    <3>3. s \in ProcessState BY IdleState DEF Steps
    <3>4. Fits(p, s, entry', lock) /\ s.step # "linked"
      BY <2>1, FilesAssumption DEF Fits, Idle, Names
    <3> HIDE DEF s, f
    <3> QED BY <1>2, <2>1, <3>1, <3>2, <3>3, <3>4, PlacesFile DEF Names
  <2>3. CASE Step(p, "failed") /\ UNCHANGED entry BY <1>3, <2>3 DEF Steps
  <2> QED BY <1>9, <2>2, <2>3 DEF ReplaceState, MoveState
<1>10. CASE RemoveTemporary(p)
  <2> DEFINE s == [Idle EXCEPT !.step = IF lock = p THEN "releasing" ELSE "idle"]
  <2>1. s \in ProcessState BY IdleState DEF Steps
  <2>2. Fits(p, s, entry, lock) /\ s.step # "linked"
    BY FilesAssumption DEF Fits, Idle, Names
  <2>3. Goes(p, s) /\ UNCHANGED entry BY <1>10 DEF RemoveTemporary
  <2> HIDE DEF s
  <2> QED BY <1>2, <2>1, <2>2, <2>3, MovesOn DEF TypeOK
<1> QED BY <1>4, <1>5, <1>6, <1>7, <1>8, <1>9, <1>10 DEF Publishing

LEMMA KeptIngesting ==
  ASSUME TypeOK, FilesInv, NEW p \in Processes, Ingesting(p)
  PROVE  Kept
<1>1. process[p] \in ProcessState /\ Fits(p, process[p], entry, lock)
  BY StateType DEF FilesInv
<1>2. UNCHANGED <<platform, lock, deaths>>
  BY DEF Ingesting, Inspect, Place, InspectHandle, MoveBlob, RepairBlob, OpenBlob,
         VerifyBlob, Return
<1>3. process[p].name = "blob"
  BY <1>1
  DEF Ingesting, Inspect, Place, InspectHandle, MoveBlob, RepairBlob, OpenBlob,
      VerifyBlob, Return, Is, Fits
\* What was copied goes on; what a process looks at next is verified anew.
<1>4. ASSUME NEW step \in Steps, NEW fresh \in BOOLEAN, UNCHANGED entry,
             Goes(p, [process[p] EXCEPT !.step = step, !.fresh = fresh]),
             \/ step \in {"verifying", "failed"}
             \/ Is(p, "copied") /\ step \in {"placing", "moving", "repairing"}
             \/ Is(p, "digesting") /\ step = "ingested"
      PROVE  Kept
  <2> DEFINE s == [process[p] EXCEPT !.step = step, !.fresh = fresh]
  <2>1. /\ s \in ProcessState /\ s.step = step /\ s.name = "blob"
        /\ s.content = process[p].content /\ step # "linked"
    BY <1>1, <1>3, <1>4 DEF ProcessState
  <2>2. Goes(p, s) BY <1>4
  <2> HIDE DEF s
  <2>3. Fits(p, s, entry, lock) BY <1>1, <1>4, <2>1 DEF Fits, Is
  <2> QED BY <1>2, <1>4, <2>1, <2>2, <2>3, MovesOn DEF TypeOK
<1>5. ASSUME NEW step \in Steps, Step(p, step), UNCHANGED entry,
             \/ step \in {"verifying", "failed"}
             \/ Is(p, "copied") /\ step \in {"placing", "moving", "repairing"}
             \/ Is(p, "digesting") /\ step = "ingested"
      PROVE  Kept
  <2>1. process[p].fresh \in BOOLEAN BY <1>1 DEF ProcessState
  <2>2. [process[p] EXCEPT !.step = step]
          = [process[p] EXCEPT !.step = step, !.fresh = process[p].fresh]
    BY <1>1 DEF ProcessState
  <2> QED BY <1>4, <1>5, <2>1, <2>2 DEF Step
\* The file that is placed is right and read-only.
<1>6. ASSUME Placed(p), process[p].content = {"right"} PROVE Kept
  <2> DEFINE s == [process[p] EXCEPT !.step = "verifying"]
             f == File(process[p].content, TRUE, 1)
  <2>1. Places(p, "blob", f, s) BY <1>6 DEF Placed
  <2>2. f \in Files /\ f.content = {"right"} /\ f.readonly = TRUE
    <3>1. process[p].content \in Contents BY <1>1 DEF ProcessState
    <3> QED BY <1>6, <3>1, FileType
  <2>3. s \in ProcessState /\ s.step = "verifying" /\ s.name = "blob"
    BY <1>1, <1>3 DEF ProcessState, Steps
  <2> HIDE DEF s, f
  <2>4. Fits(p, s, entry', lock) BY <2>3 DEF Fits
  <2> QED BY <1>2, <2>1, <2>2, <2>3, <2>4, PlacesFile DEF Names
<1>7. CASE Inspect(p) \/ Place(p) \/ MoveBlob(p) \/ RepairBlob(p)
  <2>1. Is(p, "placing") \/ Is(p, "moving") \/ Is(p, "repairing") =>
          process[p].content = {"right"}
    BY <1>1 DEF Is, Fits
  <2>2. Inspect(p) => \E step \in {"verifying", "placing"} : Step(p, step) /\ UNCHANGED entry
    BY DEF Inspect
  <2>3. MoveBlob(p) \/ RepairBlob(p) =>
          \/ Placed(p)
          \/ \E step \in {"verifying", "failed"} : Step(p, step) /\ UNCHANGED entry
    BY DEF MoveBlob, RepairBlob
  <2> QED BY <1>5, <1>6, <1>7, <2>1, <2>2, <2>3
          DEF Inspect, Place, MoveBlob, RepairBlob, Steps
<1>8. CASE InspectHandle(p)
  <2>1. \/ \E step \in {"verifying", "moving"} : Step(p, step)
        \/ Goes(p, [process[p] EXCEPT !.step = "repairing", !.fresh = TRUE])
    BY <1>8 DEF InspectHandle
  <2> QED BY <1>4, <1>5, <1>8, <2>1 DEF InspectHandle, Steps
<1>9. CASE OpenBlob(p)
  <2>1. CASE ~Sealed("blob") BY <1>5, <1>9, <2>1 DEF OpenBlob, Steps
  <2>2. CASE Sealed("blob")
    <3> DEFINE s == [step |-> "digesting", name |-> "blob", content |-> Content("blob"),
                     fresh |-> TRUE]
    <3>1. Goes(p, s) /\ UNCHANGED entry BY <1>9, <2>2 DEF OpenBlob, Opens
    <3>2. s \in ProcessState BY ReadType DEF ProcessState, Steps, Names
    <3>3. Fits(p, s, entry, lock) /\ s.step # "linked" BY <2>2 DEF Fits, Sealed
    <3> HIDE DEF s
    <3> QED BY <1>2, <3>1, <3>2, <3>3, MovesOn DEF TypeOK
  <2> QED BY <2>1, <2>2
<1>10. CASE VerifyBlob(p)
  <2>1. \E step \in {"ingested", "failed"} : Step(p, step) BY <1>10 DEF VerifyBlob
  <2> QED BY <1>5, <1>10, <2>1 DEF VerifyBlob, Steps
<1>11. CASE Return(p)
  <2>1. Goes(p, Idle) /\ UNCHANGED entry BY <1>11 DEF Return
  <2>2. Fits(p, Idle, entry, lock) /\ Idle.step # "linked"
    BY FilesAssumption DEF Idle, Fits, Names
  <2> QED BY <1>2, <2>1, <2>2, IdleState, MovesOn DEF TypeOK
<1> QED BY <1>7, <1>8, <1>9, <1>10, <1>11 DEF Ingesting

\* A process begins a card or an ingestion, or is killed.
LEMMA KeptStarts ==
  ASSUME TypeOK, FilesInv, NEW p \in Processes,
         Copy(p) \/ Die(p) \/ \E t \in Texts : KeepCard(p, t)
  PROVE  Kept
<1>1. CASE Copy(p)
  <2>1. PICK content \in {{"right"}, {"other"}} :
          Goes(p, [Idle EXCEPT !.step = IF Digested(content) THEN "copied" ELSE "failed",
                               !.name = "blob", !.content = content])
    BY <1>1 DEF Copy
  <2> DEFINE s == [Idle EXCEPT !.step = IF Digested(content) THEN "copied" ELSE "failed",
                               !.name = "blob", !.content = content]
  <2>2. s \in ProcessState BY DEF Idle, ProcessState, Contents, Steps, Names
  <2>3. Fits(p, s, entry, lock) /\ s.step # "linked" BY DEF Fits, Idle, Digested
  <2>4. Goes(p, s) BY <2>1
  <2> HIDE DEF s
  <2> QED BY <1>1, <2>2, <2>3, <2>4, MovesOn DEF Copy, TypeOK
<1>2. CASE Die(p)
  <2>1. Goes(p, Idle) /\ lock' = IF lock = p THEN None ELSE lock
    BY <1>2 DEF Die, LockAfter
  <2>2. Fits(p, Idle, entry, lock') /\ Idle.step # "linked"
    BY FilesAssumption DEF Idle, Fits, Names
  <2>3. deaths' \in 0..MaxDeaths BY <1>2, FilesAssumption DEF Die, TypeOK
  <2>4. UNCHANGED <<platform, entry>> /\ lock' \in Processes \cup {None}
    BY <1>2, <2>1 DEF Die, TypeOK
  <2>5. lock' = lock \/ lock \in {None, p} BY <2>1
  <2> QED BY <2>1, <2>2, <2>3, <2>4, <2>5, IdleState, MovesOn
<1>3. ASSUME NEW t \in Texts, KeepCard(p, t) PROVE Kept
  <2> DEFINE s == [Idle EXCEPT !.step = "writing", !.name = "card", !.content = {t}]
  <2>1. s \in ProcessState BY DEF Idle, ProcessState, Contents, Steps, Names
  <2>2. Fits(p, s, entry, lock) /\ s.step # "linked" BY DEF Fits, Idle
  <2>3. Goes(p, s) BY <1>3 DEF KeepCard
  <2> HIDE DEF s
  <2> QED BY <1>3, <2>1, <2>2, <2>3, MovesOn DEF KeepCard, TypeOK
<1> QED BY <1>1, <1>2, <1>3

LEMMA FilesInit == Init => TypeOK /\ FilesInv /\ Store!Init
<1> SUFFICES ASSUME Init PROVE TypeOK /\ FilesInv /\ Store!Init OBVIOUS
<1>1. {} \in Contents /\ {"other"} \in Contents BY DEF Contents
<1>2. /\ File({}, FALSE, 1) \in Files /\ File({}, FALSE, 1).content = {}
      /\ File({"other"}, FALSE, 1) \in Files /\ File({"other"}, FALSE, 1).content = {"other"}
      /\ ~File({"other"}, FALSE, 1).readonly
  BY <1>1, FileType
<1>3. PICK blob \in {None, File({"other"}, FALSE, 1)} :
        entry = [n \in Names |-> CASE n = "state" -> File({}, FALSE, 1)
                                   [] n = "card" -> None
                                   [] n = "blob" -> blob]
  BY DEF Init
<1> DEFINE first == File({}, FALSE, 1)
<1> HIDE DEF first
<1>4. /\ entry \in [Names -> Files \cup {None}]
      /\ entry["state"] = first /\ entry["card"] = None /\ entry["blob"] = blob
      /\ first # None /\ first.content = {}
  BY <1>2, <1>3, FilesAssumption DEF Names, first
<1>5. \A p \in Processes : process[p] = Idle BY DEF Init
<1>6. TypeOK
  <2>1. process \in [Processes -> ProcessState] BY IdleState DEF Init
  <2>2. platform \in {"posix", "windows"} /\ deaths = 0 /\ lock = None BY DEF Init
  <2> QED BY <1>5, <1>4, <2>1, <2>2, FilesAssumption
          DEF TypeOK, ProcessState, Idle, Is, Names
<1>7. FilesInv
  <2>1. \A p \in Processes : Fits(p, process[p], entry, lock)
    BY <1>5, FilesAssumption DEF Fits, Idle, Names
  <2>2. \A p \in Processes : ~Is(p, "linked") BY <1>5 DEF Is, Idle
  <2>3. ~Sealed("blob") BY <1>2, <1>4 DEF Sealed
  <2> QED BY <2>1, <2>2, <2>3 DEF FilesInv
<1>8. Store!Init BY <1>2, <1>4, FilesAssumption DEF Store!Init, Content
<1> QED BY <1>6, <1>7, <1>8

LEMMA FilesStep == TypeOK /\ FilesInv /\ [Next]_vars => Kept
<1> SUFFICES ASSUME TypeOK, FilesInv, [Next]_vars PROVE Kept OBVIOUS
<1>1. CASE Next
  BY <1>1, KeptLocking, KeptReading, KeptPublishing, KeptIngesting, KeptStarts DEF Next
<1>2. CASE UNCHANGED vars
  <2>1. UNCHANGED <<platform, entry, lock, process, deaths>> BY <1>2 DEF vars
  <2>2. TypeOK' BY <2>1 DEF TypeOK, Is
  <2>3. FilesInv' BY <2>1 DEF FilesInv, Is, Sealed, Content
  <2>4. UNCHANGED Store!cells BY <2>1 DEF Store!cells, Content
  <2> QED BY <2>2, <2>3, <2>4 DEF Kept
<1> QED BY <1>1, <1>2

-----------------------------------------------------------------------------
(* Theorems *)

\* Names, locks and processes have their shapes, and what is opened or written
\* under a name is opened or written by the process that may.
THEOREM FilesCorrect == Spec => [](TypeOK /\ FilesInv)
BY FilesInit, FilesStep, PTL DEF Spec, Kept

THEOREM FilesTypeCorrect == Spec => []TypeOK
BY FilesCorrect, PTL

\* No update of the state is lost, a card never becomes another card and an
\* artifact is only replaced by one that is right, between whichever system
\* calls the processes are interrupted or killed.
THEOREM StoreImplemented == Spec => Atomic
BY FilesInit, FilesStep, FilesCorrect, PTL DEF Spec, Atomic, Store!Spec, Kept

\* An ingestion that returns leaves an artifact that is right and read-only.
THEOREM IngestionHolds == Spec => []IngestedHolds
<1>1. FilesInv => IngestedHolds
  BY DEF FilesInv, Fits, IngestedHolds, Is, Sealed
<1> QED BY <1>1, FilesCorrect, PTL
==============================================================================
