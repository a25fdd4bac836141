----------------------------- MODULE Platform_proofs -----------------------------
(***************************************************************************)
(* Theorems about the parts a project is set up with.  Every part has an   *)
(* inductive invariant of its own; at the end they are put together, since *)
(* a behaviour is a behaviour of one part.                                 *)
(***************************************************************************)
EXTENDS Platform, TLAPS

-----------------------------------------------------------------------------
(* The catalog of parts: what a process holds, and what that says of the   *)
(* files, for whatever is registered, copied and edited beside it.         *)

CatalogSteps == {"idle", "reading", "filing", "checking", "describing", "matching", "copying"}
CatalogUser ==
  [step : CatalogSteps, provenance : Provenances \cup {None}, sha : C!Contents \cup {None},
   read : C!Contents \cup {0, None}, answer : {None, "registered", "refused", "copied"}]

\* A process that is busy, or has a part registered, has named a directory
\* and a provenance; what it found there may have been edited since, but was
\* never anything else.
CatalogHeld(s, c) ==
  /\ s.step # "idle" \/ s.answer = "registered" => s.sha \in C!Contents /\ s.provenance \in Provenances
  /\ s.step = "filing" => s.read \in C!Contents
  /\ s.step \in {"describing", "matching"} => c[s.sha] \in {0, s.sha}
  /\ s.step = "copying" => s.read = s.sha

CatalogInv ==
  /\ C!TypeOK /\ C!CopiesHoldDigest
  /\ cSource \in Nat /\ cSource <= cEdits + 1
  /\ cCatalog \in [C!Contents -> C!Contents \cup {0, None}]
  /\ cManifest \in [C!Contents -> Provenances \cup {None}]
  /\ cCopies \in [C!Contents -> C!Contents \cup {0, None}]
  /\ cUser \in [Users -> CatalogUser]
  /\ \A u \in Users : CatalogHeld(cUser[u], cCatalog)

CatalogKept == CatalogInv' /\ C!DescribedStep

LEMMA CatalogStarts == C!Init => CatalogInv
<1> SUFFICES ASSUME C!Init PROVE CatalogInv OBVIOUS
<1> USE BoundsAssumption, CatalogAssumption DEF Words, C!Init, C!Contents
<1>1. C!Idle \in CatalogUser /\ C!Idle.step = "idle" /\ C!Idle.answer = None
  BY DEF C!Idle, CatalogUser, CatalogSteps
<1>2. C!TypeOK /\ C!CopiesHoldDigest BY DEF C!TypeOK, C!CopiesHoldDigest
<1>3. cUser \in [Users -> CatalogUser] BY <1>1
<1>4. \A u \in Users : CatalogHeld(cUser[u], cCatalog)
  <2> SUFFICES ASSUME NEW u \in Users PROVE CatalogHeld(C!Idle, cCatalog) OBVIOUS
  <2> QED BY <1>1 DEF Words, CatalogHeld
<1>5. cSource \in Nat /\ cSource <= cEdits + 1 OBVIOUS
<1>6. cCatalog \in [C!Contents -> C!Contents \cup {0, None}] OBVIOUS
<1>7. cManifest \in [C!Contents -> Provenances \cup {None}] OBVIOUS
<1>8. cCopies \in [C!Contents -> C!Contents \cup {0, None}] OBVIOUS
<1> QED BY <1>2, <1>3, <1>4, <1>5, <1>6, <1>7, <1>8 DEF CatalogInv

\* A step of u alone: the others hold what they held, if the parts they found
\* are as they were or edited.
LEMMA CatalogGoes ==
  ASSUME CatalogInv, NEW u \in Users, NEW s \in CatalogUser, C!Goes(u, s),
         CatalogHeld(s, cCatalog'),
         cCatalog' \in [C!Contents -> C!Contents \cup {0, None}],
         \A digest \in C!Contents : cCatalog[digest] # None => cCatalog'[digest] \in {0, cCatalog[digest]}
  PROVE  /\ cUser' \in [Users -> CatalogUser]
         /\ \A v \in Users : CatalogHeld(cUser'[v], cCatalog')
<1>1. cUser' \in [Users -> CatalogUser] /\ cUser' = [cUser EXCEPT ![u] = s]
  BY DEF CatalogInv, C!Goes
<1>2. ASSUME NEW v \in Users PROVE CatalogHeld(cUser'[v], cCatalog')
  <2>1. CASE v = u BY <2>1, <1>1 DEF CatalogInv
  <2>2. CASE v # u
    <3>1. cUser'[v] = cUser[v] /\ cUser[v] \in CatalogUser /\ CatalogHeld(cUser[v], cCatalog)
      BY <2>2, <1>1 DEF CatalogInv
    <3>2. cUser[v].step \in {"describing", "matching"} => cUser[v].sha \in C!Contents
      BY <3>1 DEF CatalogHeld
    <3>3. cUser[v].sha \in C!Contents /\ cCatalog[cUser[v].sha] \in {0, cUser[v].sha} =>
            cCatalog'[cUser[v].sha] \in {0, cUser[v].sha}
      BY BoundsAssumption DEF Words, C!Contents
    <3> QED BY <3>1, <3>2, <3>3 DEF CatalogHeld
  <2> QED BY <2>1, <2>2
<1> QED BY <1>1, <1>2

\* A step that leaves the files alone.
LEMMA CatalogStill ==
  ASSUME CatalogInv, NEW u \in Users, NEW s \in CatalogUser, C!Goes(u, s),
         CatalogHeld(s, cCatalog),
         UNCHANGED <<cSource, cCatalog, cManifest, cCopies, cEdits>>, cDeaths' \in 0..MaxDeaths,
         s.answer = "registered" /\ cUser[u].answer # "registered" =>
           cManifest[s.sha] = s.provenance
  PROVE  CatalogKept
<1>1. /\ cUser' \in [Users -> CatalogUser]
      /\ \A v \in Users : CatalogHeld(cUser'[v], cCatalog')
  BY CatalogGoes DEF CatalogInv
<1>2. CatalogInv'
  BY <1>1 DEF CatalogInv, C!TypeOK, C!CopiesHoldDigest, C!Contents
<1>3. C!DescribedStep
  BY <1>2 DEF C!DescribedStep, CatalogInv, C!Goes, C!Contents
<1> QED BY <1>2, <1>3 DEF CatalogKept

LEMMA CatalogIdle ==
  /\ C!Idle \in CatalogUser /\ C!Idle.step = "idle" /\ C!Idle.answer = None
  /\ \A answer \in {None, "registered", "refused", "copied"} :
       [C!Idle EXCEPT !.answer = answer] \in CatalogUser
  /\ \A c : CatalogHeld(C!Idle, c)
BY BoundsAssumption DEF Words, C!Idle, CatalogUser, CatalogSteps, CatalogHeld

LEMMA CatalogRefused ==
  ASSUME CatalogInv, NEW u \in Users, C!Refused(u),
         UNCHANGED <<cSource, cCatalog, cManifest, cCopies, cEdits, cDeaths>>
  PROVE  CatalogKept
<1> DEFINE s == [C!Idle EXCEPT !.answer = "refused"]
<1>1. s \in CatalogUser /\ C!Goes(u, s) BY CatalogIdle DEF C!Refused
<1>2. s.step = "idle" /\ s.answer = "refused" BY DEF C!Idle
<1>3. CatalogHeld(s, cCatalog) BY <1>2 DEF CatalogHeld
<1>4. cDeaths' \in 0..MaxDeaths BY DEF CatalogInv, C!TypeOK
<1> HIDE DEF s
<1> QED BY <1>1, <1>2, <1>3, <1>4, CatalogStill

LEMMA CatalogRegistered ==
  ASSUME CatalogInv, NEW u \in Users, C!Registered(u),
         cUser[u].sha \in C!Contents, cUser[u].provenance \in Provenances,
         cManifest[cUser[u].sha] = cUser[u].provenance,
         UNCHANGED <<cSource, cCatalog, cManifest, cCopies, cEdits, cDeaths>>
  PROVE  CatalogKept
<1> DEFINE s == [C!Idle EXCEPT !.answer = "registered", !.sha = cUser[u].sha,
                               !.provenance = cUser[u].provenance]
<1>1. s \in CatalogUser /\ C!Goes(u, s)
  BY DEF C!Registered, C!Idle, CatalogUser, CatalogSteps
<1>2. /\ s.step = "idle" /\ s.answer = "registered"
      /\ s.sha = cUser[u].sha /\ s.provenance = cUser[u].provenance BY DEF C!Idle
<1>3. CatalogHeld(s, cCatalog) BY <1>2 DEF CatalogHeld
<1>4. cDeaths' \in 0..MaxDeaths BY DEF CatalogInv, C!TypeOK
<1> HIDE DEF s
<1> QED BY <1>1, <1>2, <1>3, <1>4, CatalogStill

LEMMA CatalogRegisters ==
  ASSUME CatalogInv, NEW u \in Users, NEW p \in Provenances, C!Register(u, p)
  PROVE  CatalogKept
<1> DEFINE s == [C!Idle EXCEPT !.step = "reading", !.provenance = p, !.sha = cSource]
<1>1. s \in CatalogUser /\ C!Goes(u, s)
  BY DEF C!Register, C!Idle, CatalogUser, CatalogSteps, CatalogInv, C!TypeOK
<1>2. s.step = "reading" /\ s.answer = None /\ s.sha \in C!Contents /\ s.provenance \in Provenances
  BY DEF C!Idle, CatalogInv, C!TypeOK
<1>3. CatalogHeld(s, cCatalog) BY <1>2, BoundsAssumption DEF Words, CatalogHeld
<1>4. cDeaths' \in 0..MaxDeaths BY DEF CatalogInv, C!TypeOK, C!Register
<1>5. s.answer # "registered" BY <1>2, BoundsAssumption DEF Words
<1>6. UNCHANGED <<cSource, cCatalog, cManifest, cCopies, cEdits>> BY DEF C!Register, C!files
<1> HIDE DEF s
<1> QED BY <1>1, <1>3, <1>4, <1>5, <1>6, CatalogStill

\* A user that goes on with what it holds.
LEMMA CatalogOn ==
  ASSUME CatalogInv, NEW u \in Users, NEW step \in CatalogSteps, C!Step(u, step),
         cUser[u].step \notin {"idle"},
         step = "filing" => cUser[u].read \in C!Contents,
         step \in {"describing", "matching"} =>
           cCatalog'[cUser[u].sha] \in {0, cUser[u].sha},
         step # "copying"
  PROVE  \E s \in CatalogUser :
           /\ C!Goes(u, s) /\ CatalogHeld(s, cCatalog') /\ s.answer = cUser[u].answer
           /\ s.provenance = cUser[u].provenance /\ s.sha = cUser[u].sha
<1> DEFINE s == [cUser[u] EXCEPT !.step = step]
<1>0. cUser[u] \in CatalogUser /\ CatalogHeld(cUser[u], cCatalog) BY DEF CatalogInv
<1>1. s \in CatalogUser /\ C!Goes(u, s) BY <1>0 DEF C!Step, CatalogUser
<1>2. /\ s.step = step /\ s.answer = cUser[u].answer /\ s.sha = cUser[u].sha
      /\ s.provenance = cUser[u].provenance /\ s.read = cUser[u].read
  BY <1>0 DEF CatalogUser
<1>3. CatalogHeld(s, cCatalog') BY <1>0, <1>2 DEF CatalogHeld
<1> QED BY <1>1, <1>2, <1>3

LEMMA CatalogReads ==
  ASSUME CatalogInv, NEW u \in Users, C!ReadPart(u) PROVE CatalogKept
<1> DEFINE s == [cUser[u] EXCEPT !.read = cSource,
                   !.step = IF cCatalog[cUser[u].sha] = None THEN "filing" ELSE "checking"]
<1>0. cUser[u] \in CatalogUser /\ CatalogHeld(cUser[u], cCatalog) /\ cSource \in C!Contents
  BY DEF CatalogInv, C!TypeOK
<1>1. s \in CatalogUser /\ C!Goes(u, s) BY <1>0 DEF C!ReadPart, CatalogUser, CatalogSteps
<1>2. /\ s.step \in {"filing", "checking"} /\ s.answer = cUser[u].answer /\ s.sha = cUser[u].sha
      /\ s.provenance = cUser[u].provenance /\ s.read = cSource
  BY <1>0 DEF CatalogUser
<1>3. CatalogHeld(s, cCatalog) BY <1>0, <1>2 DEF CatalogHeld, C!ReadPart, C!Is
<1>4. cDeaths' \in 0..MaxDeaths /\ UNCHANGED <<cSource, cCatalog, cManifest, cCopies, cEdits>>
  BY DEF CatalogInv, C!TypeOK, C!ReadPart, C!files
<1> HIDE DEF s
<1> QED BY <1>1, <1>2, <1>3, <1>4, CatalogStill

LEMMA CatalogFiles ==
  ASSUME CatalogInv, NEW u \in Users, C!FilePart(u) PROVE CatalogKept
<1>0. cUser[u] \in CatalogUser /\ CatalogHeld(cUser[u], cCatalog) /\ cUser[u].step = "filing"
  BY DEF CatalogInv, C!FilePart, C!Is
<1>1. cUser[u].sha \in C!Contents /\ cUser[u].read \in C!Contents BY <1>0 DEF CatalogHeld
<1>2. CASE cCatalog[cUser[u].sha] = None
  <2>1. /\ cCatalog' = [cCatalog EXCEPT ![cUser[u].sha] = cUser[u].read]
        /\ C!Step(u, "checking")
        /\ UNCHANGED <<cSource, cManifest, cCopies, cEdits, cDeaths>>
    BY <1>2 DEF C!FilePart
  <2>2. /\ cCatalog' \in [C!Contents -> C!Contents \cup {0, None}]
        /\ \A digest \in C!Contents :
             cCatalog[digest] # None => cCatalog'[digest] \in {0, cCatalog[digest]}
    BY <1>1, <1>2, <2>1 DEF CatalogInv
  <2>3. PICK s \in CatalogUser :
          /\ C!Goes(u, s) /\ CatalogHeld(s, cCatalog') /\ s.answer = cUser[u].answer
          /\ s.provenance = cUser[u].provenance /\ s.sha = cUser[u].sha
    BY <1>0, <2>1, CatalogOn DEF CatalogSteps
  <2>4. /\ cUser' \in [Users -> CatalogUser]
        /\ \A v \in Users : CatalogHeld(cUser'[v], cCatalog')
    BY <2>2, <2>3, CatalogGoes
  <2>5. CatalogInv' BY <2>1, <2>2, <2>4 DEF CatalogInv, C!TypeOK, C!CopiesHoldDigest, C!Contents
  <2>6. C!DescribedStep BY <2>1, <2>3 DEF C!DescribedStep, C!Goes, CatalogInv
  <2> QED BY <2>5, <2>6 DEF CatalogKept
<1>3. CASE cCatalog[cUser[u].sha] # None
  BY <1>3, CatalogRefused DEF C!FilePart
<1> QED BY <1>2, <1>3

LEMMA CatalogChecks ==
  ASSUME CatalogInv, NEW u \in Users, C!CheckPart(u) PROVE CatalogKept
<1>0. /\ cUser[u] \in CatalogUser /\ CatalogHeld(cUser[u], cCatalog) /\ cUser[u].step = "checking"
      /\ UNCHANGED <<cSource, cCatalog, cManifest, cCopies, cEdits, cDeaths>>
  BY DEF CatalogInv, C!CheckPart, C!Is, C!files
<1>1. CASE ~C!HoldsDigest(cUser[u].sha) BY <1>0, <1>1, CatalogRefused DEF C!CheckPart
<1>2. CASE C!HoldsDigest(cUser[u].sha)
  <2>1. PICK step \in {"describing", "matching"} : C!Step(u, step)
    BY <1>2 DEF C!CheckPart
  <2>2. cCatalog'[cUser[u].sha] \in {0, cUser[u].sha} BY <1>0, <1>2 DEF C!HoldsDigest
  <2>3. PICK s \in CatalogUser :
          /\ C!Goes(u, s) /\ CatalogHeld(s, cCatalog') /\ s.answer = cUser[u].answer
          /\ s.provenance = cUser[u].provenance /\ s.sha = cUser[u].sha
    BY <1>0, <2>1, <2>2, CatalogOn DEF CatalogSteps
  <2>4. cDeaths' \in 0..MaxDeaths BY <1>0 DEF CatalogInv, C!TypeOK
  <2> QED BY <1>0, <2>3, <2>4, CatalogStill
<1> QED BY <1>1, <1>2

LEMMA CatalogDescribes ==
  ASSUME CatalogInv, NEW u \in Users, C!DescribePart(u) PROVE CatalogKept
<1>0. /\ cUser[u] \in CatalogUser /\ CatalogHeld(cUser[u], cCatalog) /\ cUser[u].step = "describing"
      /\ UNCHANGED <<cSource, cCatalog, cCopies, cEdits, cDeaths>>
  BY DEF CatalogInv, C!DescribePart, C!Is
<1>1. /\ cUser[u].sha \in C!Contents /\ cUser[u].provenance \in Provenances
      /\ cCatalog[cUser[u].sha] \in {0, cUser[u].sha}
  BY <1>0 DEF CatalogHeld
<1>2. CASE ~C!Describable(cUser[u].sha) BY <1>0, <1>2, CatalogRefused DEF C!DescribePart
<1>3. CASE C!Describable(cUser[u].sha)
  <2> DEFINE s == [C!Idle EXCEPT !.answer = "registered", !.sha = cUser[u].sha,
                                 !.provenance = cUser[u].provenance]
  <2>1. s \in CatalogUser /\ C!Goes(u, s)
    BY <1>3, <1>1 DEF C!DescribePart, C!Registered, C!Idle, CatalogUser, CatalogSteps
  <2>2. /\ s.step = "idle" /\ s.answer = "registered"
        /\ s.sha = cUser[u].sha /\ s.provenance = cUser[u].provenance BY DEF C!Idle
  <2> HIDE DEF s
  <2>3. CatalogHeld(s, cCatalog') BY <2>2, <1>1, <1>0 DEF CatalogHeld
  <2>4. /\ cUser' \in [Users -> CatalogUser]
        /\ \A v \in Users : CatalogHeld(cUser'[v], cCatalog')
    BY <1>0, <2>1, <2>3, CatalogGoes DEF CatalogInv
  <2>5. /\ cManifest' = [cManifest EXCEPT ![cUser[u].sha] = cUser[u].provenance]
        /\ cManifest[cUser[u].sha] = None
    BY <1>3 DEF C!DescribePart, C!Describable
  <2>6. cManifest' \in [C!Contents -> Provenances \cup {None}] BY <1>1, <2>5 DEF CatalogInv
  <2>7. CatalogInv' BY <1>0, <2>4, <2>6 DEF CatalogInv, C!TypeOK, C!CopiesHoldDigest, C!Contents
  <2>8. C!DescribedStep
    BY <1>0, <1>1, <2>1, <2>2, <2>5, CatalogAssumption DEF C!DescribedStep, C!Goes, CatalogInv
  <2> QED BY <2>7, <2>8 DEF CatalogKept
<1> QED BY <1>2, <1>3

LEMMA CatalogMatches ==
  ASSUME CatalogInv, NEW u \in Users, C!MatchPart(u) PROVE CatalogKept
<1>0. /\ cUser[u] \in CatalogUser /\ CatalogHeld(cUser[u], cCatalog) /\ cUser[u].step = "matching"
      /\ UNCHANGED <<cSource, cCatalog, cManifest, cCopies, cEdits, cDeaths>>
  BY DEF CatalogInv, C!MatchPart, C!Is, C!files
<1>1. cUser[u].sha \in C!Contents /\ cUser[u].provenance \in Provenances
  BY <1>0 DEF CatalogHeld
<1>2. CASE cManifest[cUser[u].sha] = cUser[u].provenance
  BY <1>0, <1>1, <1>2, CatalogRegistered DEF C!MatchPart
<1>3. CASE cManifest[cUser[u].sha] # cUser[u].provenance
  BY <1>0, <1>3, CatalogRefused DEF C!MatchPart
<1> QED BY <1>2, <1>3

LEMMA CatalogReadsRegistered ==
  ASSUME CatalogInv, NEW u \in Users, C!ReadRegistered(u) PROVE CatalogKept
<1>0. /\ cUser[u] \in CatalogUser /\ CatalogHeld(cUser[u], cCatalog)
      /\ cUser[u].answer = "registered"
      /\ UNCHANGED <<cSource, cCatalog, cManifest, cCopies, cEdits, cDeaths>>
  BY DEF CatalogInv, C!ReadRegistered, C!files
<1>1. cUser[u].sha \in C!Contents /\ cUser[u].provenance \in Provenances
  BY <1>0 DEF CatalogHeld
<1>2. CASE ~C!Copyable(u) BY <1>0, <1>2, CatalogRefused DEF C!ReadRegistered
<1>3. CASE C!Copyable(u)
  <2> DEFINE s == [cUser[u] EXCEPT !.step = "copying", !.read = cCatalog[cUser[u].sha]]
  <2>1. cCatalog[cUser[u].sha] = cUser[u].sha BY <1>3 DEF C!Copyable, C!HoldsDigest
  <2>2. s \in CatalogUser /\ C!Goes(u, s)
    BY <1>0, <1>1, <1>3, <2>1 DEF C!ReadRegistered, CatalogUser, CatalogSteps
  <2>3. /\ s.step = "copying" /\ s.read = s.sha /\ s.sha = cUser[u].sha
        /\ s.provenance = cUser[u].provenance
    BY <1>0, <2>1 DEF CatalogUser
  <2>4. CatalogHeld(s, cCatalog) BY <1>1, <2>3 DEF CatalogHeld
  <2>5. cDeaths' \in 0..MaxDeaths BY <1>0 DEF CatalogInv, C!TypeOK
  <2> HIDE DEF s
  <2> QED BY <1>0, <2>2, <2>4, <2>5, CatalogStill
<1> QED BY <1>2, <1>3

LEMMA CatalogCopies ==
  ASSUME CatalogInv, NEW u \in Users, C!CopyPart(u) PROVE CatalogKept
<1>0. /\ cUser[u] \in CatalogUser /\ CatalogHeld(cUser[u], cCatalog) /\ cUser[u].step = "copying"
      /\ UNCHANGED <<cSource, cCatalog, cManifest, cEdits, cDeaths>>
      /\ cCopies' = [cCopies EXCEPT ![cUser[u].sha] = IF @ = None THEN cUser[u].read ELSE @]
  BY DEF CatalogInv, C!CopyPart, C!Is
<1>1. cUser[u].sha \in C!Contents /\ cUser[u].read = cUser[u].sha BY <1>0 DEF CatalogHeld
<1> DEFINE s == [C!Idle EXCEPT !.answer = "copied"]
<1>2. s \in CatalogUser /\ C!Goes(u, s) BY CatalogIdle DEF C!CopyPart
<1>3. s.step = "idle" /\ s.answer = "copied" BY DEF C!Idle
<1>4. CatalogHeld(s, cCatalog') BY <1>3 DEF CatalogHeld
<1> HIDE DEF s
<1>5. /\ cUser' \in [Users -> CatalogUser]
      /\ \A v \in Users : CatalogHeld(cUser'[v], cCatalog')
  BY <1>0, <1>2, <1>4, CatalogGoes DEF CatalogInv
<1>6. cCopies' \in [C!Contents -> C!Contents \cup {0, None}] /\ C!CopiesHoldDigest'
  BY <1>0, <1>1 DEF CatalogInv, C!CopiesHoldDigest, C!Contents
<1>7. CatalogInv' BY <1>0, <1>5, <1>6 DEF CatalogInv, C!TypeOK, C!Contents
<1>8. C!DescribedStep BY <1>0, <1>2, <1>3 DEF C!DescribedStep, C!Goes, CatalogInv
<1> QED BY <1>7, <1>8 DEF CatalogKept

LEMMA CatalogDies ==
  ASSUME CatalogInv, NEW u \in Users, C!Die(u) PROVE CatalogKept
<1>1. C!Goes(u, C!Idle) /\ UNCHANGED <<cSource, cCatalog, cManifest, cCopies, cEdits>>
  BY DEF C!Die, C!files
<1>2. cDeaths' \in 0..MaxDeaths BY BoundsAssumption DEF C!Die, CatalogInv, C!TypeOK
<1>3. C!Idle.answer # "registered" BY CatalogIdle, BoundsAssumption DEF Words
<1> QED BY <1>1, <1>2, <1>3, CatalogIdle, CatalogStill

\* Outside, the download and the parts of the catalog change.
LEMMA CatalogEdits == ASSUME CatalogInv, C!Edit \/ C!EditCatalog PROVE CatalogKept
<1>1. /\ cCatalog' \in [C!Contents -> C!Contents \cup {0, None}]
      /\ \A digest \in C!Contents :
           cCatalog[digest] # None => cCatalog'[digest] \in {0, cCatalog[digest]}
      /\ UNCHANGED <<cManifest, cCopies, cUser, cDeaths>>
  BY DEF C!Edit, C!EditCatalog, CatalogInv, C!files
<1>2. cEdits' \in 0..MaxEdits /\ cSource' \in C!Contents /\ cSource' <= cEdits' + 1
  BY BoundsAssumption DEF C!Edit, C!EditCatalog, CatalogInv, C!TypeOK, C!Contents, C!files
<1>3. ASSUME NEW v \in Users PROVE CatalogHeld(cUser[v], cCatalog')
  <2>1. cUser[v] \in CatalogUser /\ CatalogHeld(cUser[v], cCatalog) BY DEF CatalogInv
  <2>2. cUser[v].step \in {"describing", "matching"} => cUser[v].sha \in C!Contents
    BY <2>1 DEF CatalogHeld
  <2>3. cUser[v].sha \in C!Contents /\ cCatalog[cUser[v].sha] \in {0, cUser[v].sha} =>
          cCatalog'[cUser[v].sha] \in {0, cUser[v].sha}
    BY <1>1, BoundsAssumption DEF C!Contents
  <2> QED BY <2>1, <2>2, <2>3 DEF CatalogHeld
<1>4. CatalogInv'
  <2>1. C!TypeOK' BY <1>1, <1>2 DEF CatalogInv, C!TypeOK, C!Contents
  <2>2. C!CopiesHoldDigest' BY <1>1 DEF CatalogInv, C!CopiesHoldDigest, C!Contents
  <2>3. cSource' \in Nat BY <1>2, BoundsAssumption DEF C!Contents
  <2> QED BY <1>1, <1>2, <1>3, <2>1, <2>2, <2>3 DEF CatalogInv
<1>5. C!DescribedStep BY <1>1 DEF C!DescribedStep
<1> QED BY <1>4, <1>5 DEF CatalogKept

LEMMA CatalogKeeps == CatalogInv /\ C!Next => CatalogKept
BY CatalogRegisters, CatalogReads, CatalogFiles, CatalogChecks, CatalogDescribes, CatalogMatches,
   CatalogReadsRegistered, CatalogCopies, CatalogDies, CatalogEdits DEF C!Next

-----------------------------------------------------------------------------
(* The start of a design: what a process holds of the CAD file it reads,   *)
(* while others wait for the lock and the file is edited.                  *)

DesignBusy == {"reading", "hashing", "converting", "rehashing", "comparing", "publishing"}
DesignSteps == DesignBusy \cup {"idle", "locking"}
DesignUser ==
  [step : DesignSteps, intent : Intents \cup {None}, kind : D!Kinds \cup {None},
   read : D!Contents \cup {None}, sha : D!Contents \cup {None},
   model : D!Contents \cup {0, None},
   answer : {None, "not_started", "resumed", "refused", "started", "recorded"}]

\* The process that makes the design holds the lock.  Of an existing model it
\* read contents that are no newer than the digest, and the digest is no newer
\* than the file; when it publishes they have been found to be the same.
DesignRead(s, source) ==
  s.kind \in {"fcstd", "step"} =>
    /\ s.step \in DesignBusy \ {"reading"} => s.read \in D!Contents /\ s.read <= source
    /\ s.step \in DesignBusy \ {"reading", "hashing"} =>
         s.sha \in D!Contents /\ s.read <= s.sha /\ s.sha <= source
    /\ s.step \in {"rehashing", "comparing", "publishing"} => s.model = s.read
    /\ s.step = "publishing" => s.sha = s.read
DesignHeld(u, s, source, lock) ==
  /\ s.step \in DesignBusy <=> lock = u
  /\ s.step # "idle" => s.intent \in Intents /\ s.kind \in D!Kinds /\ s.answer = None
  /\ DesignRead(s, source)

DesignInv ==
  /\ D!TypeOK /\ D!MadeOfOneSource
  /\ dUser \in [Users -> DesignUser]
  /\ \A u \in Users : DesignHeld(u, dUser[u], dSource, dLock)

DesignKept == DesignInv' /\ D!KeptStep

LEMMA DesignIdle ==
  /\ \A answer \in {None, "not_started", "resumed", "refused", "started", "recorded"} :
       [D!Idle EXCEPT !.answer = answer] \in DesignUser
  /\ D!Idle \in DesignUser
  /\ D!Idle.step = "idle" /\ D!Idle.answer = None
  /\ \A answer :
       /\ [D!Idle EXCEPT !.answer = answer].step = "idle"
       /\ [D!Idle EXCEPT !.answer = answer].answer = answer
BY DEF D!Idle, DesignUser, DesignSteps, DesignBusy

LEMMA DesignStarts == D!Init => DesignInv
<1> SUFFICES ASSUME D!Init PROVE DesignInv OBVIOUS
<1> USE BoundsAssumption, DesignAssumption DEF D!Init
<1>1. D!TypeOK /\ D!MadeOfOneSource BY DEF D!TypeOK, D!MadeOfOneSource, D!Contents
<1>2. dUser \in [Users -> DesignUser] BY DesignIdle
<1>3. ASSUME NEW u \in Users PROVE DesignHeld(u, dUser[u], dSource, dLock)
  <2>1. dUser[u].step = "idle" BY DesignIdle
  <2> QED BY <2>1 DEF DesignHeld, DesignRead, DesignBusy
<1> QED BY <1>1, <1>2, <1>3 DEF DesignInv

\* A step of u alone, which takes the lock for itself, gives its own lock up
\* or leaves the lock.
LEMMA DesignGoes ==
  ASSUME DesignInv, NEW u \in Users, NEW s \in DesignUser, D!Goes(u, s),
         DesignHeld(u, s, dSource', dLock'), UNCHANGED dSource,
         \/ dLock' = dLock
         \/ dLock' = u /\ dLock = None
         \/ dLock' = None /\ dLock = u
  PROVE  /\ dUser' \in [Users -> DesignUser]
         /\ \A v \in Users : DesignHeld(v, dUser'[v], dSource', dLock')
         /\ \A v \in Users \ {u} : dUser'[v] = dUser[v]
         /\ dUser'[u] = s
<1>1. dUser' \in [Users -> DesignUser] /\ dUser' = [dUser EXCEPT ![u] = s]
  BY DEF DesignInv, D!Goes
<1>2. ASSUME NEW v \in Users PROVE DesignHeld(v, dUser'[v], dSource', dLock')
  <2>1. CASE v = u BY <2>1, <1>1 DEF DesignInv
  <2>2. CASE v # u
    <3>1. dUser'[v] = dUser[v] /\ DesignHeld(v, dUser[v], dSource, dLock)
      BY <2>2, <1>1 DEF DesignInv
    <3>2. dLock' = v <=> dLock = v BY <2>2, DesignAssumption, BoundsAssumption
    <3> QED BY <3>1, <3>2 DEF DesignHeld
  <2> QED BY <2>1, <2>2
<1> QED BY <1>1, <1>2 DEF DesignInv

\* A step that neither makes the design nor moves the lock.
LEMMA DesignStill ==
  ASSUME DesignInv, NEW u \in Users, NEW s \in DesignUser, D!Goes(u, s),
         DesignHeld(u, s, dSource, dLock), UNCHANGED <<dSource, dDesign, dLock, dStages>>,
         s.answer \in {"started", "resumed"} => s = dUser[u]
  PROVE  DesignKept
<1>0. DesignHeld(u, s, dSource', dLock') BY DEF DesignHeld
<1>1. /\ dUser' \in [Users -> DesignUser]
      /\ \A v \in Users : DesignHeld(v, dUser'[v], dSource', dLock')
      /\ \A v \in Users \ {u} : dUser'[v] = dUser[v]
      /\ dUser'[u] = s
  BY <1>0, DesignGoes
<1>2. DesignInv'
  BY <1>1 DEF DesignInv, D!TypeOK, D!MadeOfOneSource, D!Contents, D!Design, D!Kinds
<1>3. dDesign # None => [dDesign EXCEPT !.knowledge = dDesign.knowledge] = dDesign
  BY DEF DesignInv, D!TypeOK, D!Design
<1>4. D!KeptStep BY <1>1, <1>3 DEF D!KeptStep
<1> QED BY <1>2, <1>4 DEF DesignKept

\* A step that ends with an answer of its own, and gives the lock up if u has it.
LEMMA DesignAnswers ==
  ASSUME DesignInv, NEW u \in Users,
         NEW answer \in {None, "not_started", "resumed", "refused", "recorded"},
         D!Answer(u, answer), UNCHANGED <<dSource, dDesign>>,
         \/ dLock # u /\ UNCHANGED <<dLock, dStages>>
         \/ /\ dLock = u /\ dLock' = None
            /\ dStages' \subseteq Users \cup {"abandoned"}
            /\ \A v \in Users : v \in dStages' <=> v \in dStages \ {u},
         answer = "resumed" => dDesign # None /\ D!SameIntent(u)
  PROVE  DesignKept
<1> DEFINE s == [D!Idle EXCEPT !.answer = answer]
<1>1. s \in DesignUser /\ s.step = "idle" /\ s.answer = answer /\ D!Goes(u, s)
  BY DesignIdle DEF D!Answer
<1> HIDE DEF s
<1>2. dLock' # u BY DesignAssumption, BoundsAssumption
<1>3. DesignHeld(u, s, dSource', dLock') BY <1>1, <1>2 DEF DesignHeld, DesignRead, DesignBusy
<1>4. /\ dUser' \in [Users -> DesignUser]
      /\ \A v \in Users : DesignHeld(v, dUser'[v], dSource', dLock')
      /\ \A v \in Users \ {u} : dUser'[v] = dUser[v]
      /\ dUser'[u] = s
  BY <1>1, <1>3, DesignGoes DEF DesignInv, D!TypeOK
<1>5. D!TypeOK'
  BY DesignAssumption, BoundsAssumption DEF DesignInv, D!TypeOK, D!Contents, D!Design, D!Kinds
<1>6. D!MadeOfOneSource' BY DEF DesignInv, D!MadeOfOneSource
<1>7. dDesign # None => [dDesign EXCEPT !.knowledge = dDesign.knowledge] = dDesign
  BY DEF DesignInv, D!TypeOK, D!Design
<1>8. D!KeptStep BY <1>1, <1>4, <1>7, BoundsAssumption DEF D!KeptStep, D!SameIntent, Words
<1> QED BY <1>4, <1>5, <1>6, <1>8 DEF DesignInv, DesignKept

\* A process that goes on reading, with the lock.
LEMMA DesignOn ==
  ASSUME DesignInv, NEW u \in Users, dUser[u].step \in DesignBusy,
         NEW s \in DesignUser, D!Goes(u, s), s.step \in DesignBusy, s.kind = dUser[u].kind,
         s.intent = dUser[u].intent, s.answer = dUser[u].answer, DesignRead(s, dSource),
         UNCHANGED <<dSource, dDesign, dLock, dStages>>
  PROVE  DesignKept
<1>1. DesignHeld(u, dUser[u], dSource, dLock) BY DEF DesignInv
<1>2. DesignHeld(u, s, dSource, dLock) /\ s.answer = None BY <1>1 DEF DesignHeld, DesignBusy
<1> QED BY <1>2, DesignStill, BoundsAssumption DEF Words

LEMMA DesignBegins ==
  ASSUME DesignInv, NEW u \in Users, NEW intent \in Intents, NEW kind \in D!Kinds,
         D!Start(u, intent, kind)
  PROVE  DesignKept
<1> DEFINE s == [D!Idle EXCEPT !.step = "locking", !.intent = intent, !.kind = kind]
<1>0. dUser[u].step = "idle" /\ DesignHeld(u, dUser[u], dSource, dLock)
  BY DEF DesignInv, D!Start, D!Is
<1>1. s \in DesignUser /\ D!Goes(u, s)
  BY DEF D!Start, D!Idle, DesignUser, DesignSteps, DesignBusy
<1>2. s.step = "locking" /\ s.intent = intent /\ s.kind = kind /\ s.answer = None BY DEF D!Idle
<1> HIDE DEF s
<1>3. DesignHeld(u, s, dSource, dLock)
  BY <1>0, <1>2 DEF DesignHeld, DesignRead, DesignBusy
<1>4. UNCHANGED <<dSource, dDesign, dLock, dStages>> BY DEF D!Start, D!files
<1>5. s.answer \notin {"started", "resumed"} BY <1>2, BoundsAssumption DEF Words
<1> QED BY <1>1, <1>3, <1>4, <1>5, DesignStill

LEMMA DesignFree ==
  ASSUME DesignInv, NEW u \in Users, dUser[u].step \notin DesignBusy PROVE dLock # u
BY DEF DesignInv, DesignHeld

LEMMA DesignNotApproved ==
  ASSUME DesignInv, NEW u \in Users, D!NotApproved(u) PROVE DesignKept
<1>1. dUser[u].step \notin DesignBusy BY DEF D!NotApproved, D!Is, DesignBusy
<1>2. dLock # u BY <1>1, DesignFree
<1> QED BY <1>2, DesignAnswers DEF D!NotApproved, D!files

LEMMA DesignLocks ==
  ASSUME DesignInv, NEW u \in Users, D!LockDesigns(u) PROVE DesignKept
<1>0. /\ dUser[u] \in DesignUser /\ DesignHeld(u, dUser[u], dSource, dLock)
      /\ dUser[u].step = "locking" /\ dLock = None /\ UNCHANGED <<dSource, dDesign>>
  BY DEF DesignInv, D!LockDesigns, D!Is, D!files
<1>1. CASE dDesign # None
  <2>1. PICK answer \in {"resumed", "refused"} :
          D!Answer(u, answer) /\ (answer = "resumed" => D!SameIntent(u))
    BY <1>1 DEF D!LockDesigns
  <2> QED BY <1>0, <1>1, <2>1, DesignAnswers, DesignAssumption, BoundsAssumption DEF D!LockDesigns
<1>2. CASE dDesign = None
  <2>1. PICK step \in {"converting", "reading"} :
          D!Step(u, step) /\ step = IF dUser[u].kind = "generated" THEN "converting" ELSE "reading"
    BY <1>2 DEF D!LockDesigns
  <2>2. dLock' = u /\ dStages' = dStages \cup {u} BY <1>2 DEF D!LockDesigns
  <2> DEFINE s == [dUser[u] EXCEPT !.step = step]
  <2>3. s \in DesignUser /\ D!Goes(u, s) BY <1>0, <2>1 DEF D!Step, DesignUser, DesignSteps, DesignBusy
  <2>4. /\ s.step = step /\ s.kind = dUser[u].kind /\ s.intent = dUser[u].intent
        /\ s.answer = dUser[u].answer
    BY <1>0 DEF DesignUser
  <2> HIDE DEF s
  <2>5. DesignHeld(u, s, dSource', dLock')
    BY <1>0, <2>1, <2>2, <2>4 DEF DesignHeld, DesignRead, DesignBusy
  <2>6. /\ dUser' \in [Users -> DesignUser]
        /\ \A v \in Users : DesignHeld(v, dUser'[v], dSource', dLock')
        /\ \A v \in Users \ {u} : dUser'[v] = dUser[v]
        /\ dUser'[u] = s
    BY <1>0, <2>2, <2>3, <2>5, DesignGoes
  <2>7. D!TypeOK'
    BY <1>0, <2>2, DesignAssumption, BoundsAssumption DEF DesignInv, D!TypeOK, D!Contents, D!Design, D!Kinds
  <2>8. D!MadeOfOneSource' BY <1>0, <1>2 DEF D!MadeOfOneSource
  <2>9. s.answer = None BY <1>0, <2>4 DEF DesignHeld
  <2>10. D!KeptStep BY <1>2, <2>6, <2>9, BoundsAssumption DEF D!KeptStep, Words
  <2> QED BY <2>6, <2>7, <2>8, <2>10 DEF DesignInv, DesignKept
<1> QED BY <1>1, <1>2

LEMMA DesignFails ==
  ASSUME DesignInv, NEW u \in Users, D!Fail(u) PROVE DesignKept
<1>1. dLock = u BY DEF DesignInv, DesignHeld, DesignBusy, D!Fail
<1>2. dStages' = dStages \ {u} BY DEF D!Fail, D!StagesWithout
<1>3. dStages \subseteq Users \cup {"abandoned"} BY DEF DesignInv, D!TypeOK
<1> QED BY <1>1, <1>2, <1>3, DesignAnswers DEF D!Fail

\* What the reads and comparisons of the process with the lock establish.
LEMMA DesignReads ==
  ASSUME DesignInv, NEW u \in Users,
         \/ D!ReadSource(u) \/ D!HashSource(u) \/ D!MakeModel(u)
         \/ D!RehashSource(u) \/ D!CompareSource(u)
  PROVE  DesignKept
<1>0. /\ dUser[u] \in DesignUser /\ DesignHeld(u, dUser[u], dSource, dLock)
      /\ dSource \in D!Contents /\ D!Contents \subseteq Nat
      /\ UNCHANGED <<dSource, dDesign, dLock, dStages>>
  BY BoundsAssumption DEF DesignInv, D!TypeOK, D!Contents, D!ReadSource, D!HashSource, D!MakeModel,
     D!RehashSource, D!CompareSource, D!files
<1>2. DesignRead(dUser[u], dSource) BY <1>0 DEF DesignHeld
<1>3. /\ dUser[u].read \in D!Contents \cup {None} /\ dUser[u].sha \in D!Contents \cup {None}
      /\ dUser[u].model \in D!Contents \cup {0, None}
  BY <1>0 DEF DesignUser
<1>4. CASE D!ReadSource(u)
  <2>0. dUser[u].step = "reading" /\ dUser[u].step \in DesignBusy
    BY <1>4 DEF D!ReadSource, D!Is, DesignBusy
  <2>1. CASE dUser[u].kind = "seed"
    <3> DEFINE s == [dUser[u] EXCEPT !.step = "comparing", !.read = dSource, !.model = dSource]
    <3>1. s \in DesignUser BY <1>0 DEF DesignUser, DesignSteps, DesignBusy
    <3>2. /\ s.step = "comparing" /\ s.read = dSource /\ s.sha = dUser[u].sha /\ s.model = dSource
          /\ s.kind = dUser[u].kind /\ s.intent = dUser[u].intent /\ s.answer = dUser[u].answer
      BY <1>0 DEF DesignUser
    <3>3. D!Goes(u, s) BY <1>4, <2>1 DEF D!ReadSource
    <3> HIDE DEF s
    <3>4. DesignRead(s, dSource) BY <1>0, <1>2, <2>0, <3>2, <2>1 DEF DesignRead, DesignBusy
    <3> QED BY <1>0, <2>0, <3>1, <3>2, <3>3, <3>4, DesignOn DEF DesignBusy
  <2>2. CASE dUser[u].kind # "seed"
    <3> DEFINE s == [dUser[u] EXCEPT !.step = "hashing", !.read = dSource]
    <3>1. s \in DesignUser BY <1>0 DEF DesignUser, DesignSteps, DesignBusy
    <3>2. /\ s.step = "hashing" /\ s.read = dSource /\ s.sha = dUser[u].sha /\ s.model = dUser[u].model
          /\ s.kind = dUser[u].kind /\ s.intent = dUser[u].intent /\ s.answer = dUser[u].answer
      BY <1>0 DEF DesignUser
    <3>3. D!Goes(u, s) BY <1>4, <2>2 DEF D!ReadSource
    <3> HIDE DEF s
    <3>4. DesignRead(s, dSource)
      BY <1>0, <1>2, <2>0, <3>2, BoundsAssumption DEF D!Contents, DesignRead, DesignBusy
    <3> QED BY <1>0, <2>0, <3>1, <3>2, <3>3, <3>4, DesignOn DEF DesignBusy
  <2> QED BY <2>1, <2>2
<1>5. CASE D!HashSource(u)
  <2>0. dUser[u].step = "hashing" /\ dUser[u].step \in DesignBusy
    BY <1>5 DEF D!HashSource, D!Is, DesignBusy
  <2> DEFINE s == [dUser[u] EXCEPT !.step = "converting", !.sha = dSource]
  <2>1. s \in DesignUser BY <1>0 DEF DesignUser, DesignSteps, DesignBusy
  <2>2. /\ s.step = "converting" /\ s.read = dUser[u].read /\ s.sha = dSource /\ s.model = dUser[u].model
        /\ s.kind = dUser[u].kind /\ s.intent = dUser[u].intent /\ s.answer = dUser[u].answer
    BY <1>0 DEF DesignUser
  <2>3. D!Goes(u, s) BY <1>5 DEF D!HashSource
  <2> HIDE DEF s
  <2>4. DesignRead(s, dSource)
    BY <1>0, <1>2, <2>0, <2>2, BoundsAssumption DEF D!Contents, DesignRead, DesignBusy
  <2> QED BY <1>0, <2>0, <2>1, <2>2, <2>3, <2>4, DesignOn DEF DesignBusy
<1>6. CASE D!MakeModel(u)
  <2>0. dUser[u].step = "converting" /\ dUser[u].step \in DesignBusy
    BY <1>6 DEF D!MakeModel, D!Is, DesignBusy
  <2>1. CASE dUser[u].kind = "generated"
    <3> DEFINE s == [dUser[u] EXCEPT !.step = "publishing", !.model = 0]
    <3>1. s \in DesignUser BY <1>0 DEF DesignUser, DesignSteps, DesignBusy
    <3>2. /\ s.step = "publishing" /\ s.read = dUser[u].read /\ s.sha = dUser[u].sha /\ s.model = 0
          /\ s.kind = dUser[u].kind /\ s.intent = dUser[u].intent /\ s.answer = dUser[u].answer
      BY <1>0 DEF DesignUser
    <3>3. D!Goes(u, s) BY <1>6, <2>1 DEF D!MakeModel
    <3> HIDE DEF s
    <3>4. DesignRead(s, dSource) BY <1>0, <1>2, <2>0, <3>2, <2>1 DEF DesignRead, DesignBusy
    <3> QED BY <1>0, <2>0, <3>1, <3>2, <3>3, <3>4, DesignOn DEF DesignBusy
  <2>2. CASE dUser[u].kind # "generated"
    <3> DEFINE s == [dUser[u] EXCEPT !.step = "rehashing", !.model = dUser[u].read]
    <3>1. s \in DesignUser BY <1>0 DEF DesignUser, DesignSteps, DesignBusy
    <3>2. /\ s.step = "rehashing" /\ s.read = dUser[u].read /\ s.sha = dUser[u].sha /\ s.model = dUser[u].read
          /\ s.kind = dUser[u].kind /\ s.intent = dUser[u].intent /\ s.answer = dUser[u].answer
      BY <1>0 DEF DesignUser
    <3>3. D!Goes(u, s) BY <1>6, <2>2 DEF D!MakeModel
    <3> HIDE DEF s
    <3>4. DesignRead(s, dSource)
      BY <1>0, <1>2, <2>0, <3>2, BoundsAssumption DEF D!Contents, DesignRead, DesignBusy
    <3> QED BY <1>0, <2>0, <3>1, <3>2, <3>3, <3>4, DesignOn DEF DesignBusy
  <2> QED BY <2>1, <2>2
<1>7. CASE D!RehashSource(u)
  <2>0. dUser[u].step = "rehashing" /\ dUser[u].step \in DesignBusy
    BY <1>7 DEF D!RehashSource, D!Is, DesignBusy
  <2> DEFINE s == [dUser[u] EXCEPT !.step = "comparing"]
  <2>1. s \in DesignUser BY <1>0 DEF DesignUser, DesignSteps, DesignBusy
  <2>2. /\ s.step = "comparing" /\ s.read = dUser[u].read /\ s.sha = dUser[u].sha /\ s.model = dUser[u].model
        /\ s.kind = dUser[u].kind /\ s.intent = dUser[u].intent /\ s.answer = dUser[u].answer
    BY <1>0 DEF DesignUser
  <2>3. D!Goes(u, s) BY <1>7 DEF D!RehashSource, D!Step
  <2> HIDE DEF s
  <2>4. DesignRead(s, dSource)
    BY <1>0, <1>2, <2>0, <2>2, BoundsAssumption DEF D!Contents, DesignRead, DesignBusy
  <2> QED BY <1>0, <2>0, <2>1, <2>2, <2>3, <2>4, DesignOn DEF DesignBusy
<1>8. CASE D!CompareSource(u)
  <2>0. dUser[u].step = "comparing" /\ dUser[u].step \in DesignBusy /\ dSource = dUser[u].read
    BY <1>8 DEF D!CompareSource, D!Is, D!StillRead, DesignBusy
  <2> DEFINE s == [dUser[u] EXCEPT !.step = "publishing"]
  <2>1. s \in DesignUser BY <1>0 DEF DesignUser, DesignSteps, DesignBusy
  <2>2. /\ s.step = "publishing" /\ s.read = dUser[u].read /\ s.sha = dUser[u].sha /\ s.model = dUser[u].model
        /\ s.kind = dUser[u].kind /\ s.intent = dUser[u].intent /\ s.answer = dUser[u].answer
    BY <1>0 DEF DesignUser
  <2>3. D!Goes(u, s) BY <1>8 DEF D!CompareSource, D!Step
  <2> HIDE DEF s
  <2>4. DesignRead(s, dSource)
    BY <1>0, <1>2, <2>0, <2>2, BoundsAssumption DEF D!Contents, DesignRead, DesignBusy
  <2> QED BY <1>0, <2>0, <2>1, <2>2, <2>3, <2>4, DesignOn DEF DesignBusy
<1> QED BY <1>4, <1>5, <1>6, <1>7, <1>8

LEMMA DesignPublishes ==
  ASSUME DesignInv, NEW u \in Users, D!PublishDesign(u) PROVE DesignKept
<1>0. /\ dUser[u] \in DesignUser /\ DesignHeld(u, dUser[u], dSource, dLock)
      /\ dUser[u].step = "publishing" /\ dDesign = None /\ dLock' = None
      /\ dStages' = dStages \ {u} /\ dSource' = dSource
  BY DEF DesignInv, D!PublishDesign, D!Is
<1>1. dUser[u].intent \in Intents /\ dUser[u].kind \in D!Kinds /\ dLock = u
  BY <1>0 DEF DesignHeld, DesignBusy
<1> DEFINE d == [identity |-> D!Identity(dUser[u].intent, dUser[u].kind), kind |-> dUser[u].kind,
                 snapshot |-> IF D!Classification(dUser[u].kind) = "existing_model"
                              THEN dUser[u].read ELSE None,
                 sha |-> dUser[u].sha, model |-> dUser[u].model, by |-> u,
                 knowledge |-> "not_executed"]
           s == [D!Idle EXCEPT !.answer = "started"]
<1>2. dDesign' = d BY DEF D!PublishDesign
<1>3. d \in D!Design
  BY <1>0, <1>1 DEF D!Design, D!Identity, D!Classification, DesignUser
<1>4. dUser[u].kind \in {"fcstd", "step"} =>
        d.sha = d.snapshot /\ d.model = d.snapshot
  BY <1>0 DEF DesignHeld, DesignRead, D!Classification
<1>5. d.kind = dUser[u].kind /\ d.by = u /\ d.identity = D!Identity(dUser[u].intent, dUser[u].kind)
  OBVIOUS
<1>6. s \in DesignUser /\ s.step = "idle" /\ s.answer = "started" /\ D!Goes(u, s)
  BY DesignIdle DEF D!Answer, D!PublishDesign
<1> HIDE DEF d, s
<1>7. DesignHeld(u, s, dSource', dLock')
  BY <1>0, <1>6, DesignAssumption, BoundsAssumption DEF DesignHeld, DesignRead, DesignBusy
<1>8. /\ dUser' \in [Users -> DesignUser]
      /\ \A v \in Users : DesignHeld(v, dUser'[v], dSource', dLock')
      /\ \A v \in Users \ {u} : dUser'[v] = dUser[v]
      /\ dUser'[u] = s
  BY <1>0, <1>1, <1>6, <1>7, DesignGoes
<1>9. D!TypeOK'
  BY <1>0, <1>1, <1>2, <1>3, DesignAssumption, BoundsAssumption
     DEF DesignInv, D!TypeOK, D!Contents, D!Design, D!Kinds
<1>10. D!MadeOfOneSource' BY <1>2, <1>4, <1>5 DEF D!MadeOfOneSource
<1>11. D!KeptStep BY <1>0, <1>2, <1>5, <1>8 DEF D!KeptStep
<1> QED BY <1>8, <1>9, <1>10, <1>11 DEF DesignInv, DesignKept

LEMMA DesignRecords ==
  ASSUME DesignInv, NEW u \in Users, D!RecordKnowledge(u) PROVE DesignKept
<1>0. /\ dDesign \in D!Design /\ dDesign # None
      /\ UNCHANGED <<dSource, dStages, dLock>> /\ dUser[u].step = "idle"
  BY DEF DesignInv, D!TypeOK, D!RecordKnowledge, D!Is
<1>1. PICK status \in {"used", "unavailable"} : dDesign' = [dDesign EXCEPT !.knowledge = status]
  BY DEF D!RecordKnowledge
<1>2. /\ dDesign' \in D!Design /\ [dDesign' EXCEPT !.knowledge = dDesign.knowledge] = dDesign
      /\ dDesign'.kind = dDesign.kind /\ dDesign'.sha = dDesign.sha
      /\ dDesign'.snapshot = dDesign.snapshot /\ dDesign'.model = dDesign.model
  BY <1>0, <1>1 DEF D!Design
<1> DEFINE s == [D!Idle EXCEPT !.answer = "recorded"]
<1>3. s \in DesignUser /\ s.step = "idle" /\ s.answer = "recorded" /\ D!Goes(u, s)
  BY DesignIdle DEF D!Answer, D!RecordKnowledge
<1> HIDE DEF s
<1>4. dLock # u BY <1>0, DesignFree DEF DesignBusy
<1>5. DesignHeld(u, s, dSource', dLock')
  BY <1>0, <1>3, <1>4 DEF DesignHeld, DesignRead, DesignBusy
<1>6. /\ dUser' \in [Users -> DesignUser]
      /\ \A v \in Users : DesignHeld(v, dUser'[v], dSource', dLock')
      /\ \A v \in Users \ {u} : dUser'[v] = dUser[v]
      /\ dUser'[u] = s
  BY <1>0, <1>3, <1>5, DesignGoes
<1>7. D!TypeOK'
  BY <1>0, <1>2 DEF DesignInv, D!TypeOK, D!Contents, D!Design, D!Kinds
<1>8. D!MadeOfOneSource' BY <1>0, <1>2 DEF DesignInv, D!MadeOfOneSource
<1>9. D!KeptStep BY <1>2, <1>3, <1>6, DesignAssumption, BoundsAssumption DEF D!KeptStep
<1> QED BY <1>6, <1>7, <1>8, <1>9 DEF DesignInv, DesignKept

LEMMA DesignDies ==
  ASSUME DesignInv, NEW u \in Users, D!Die(u) PROVE DesignKept
<1>1. dStages \subseteq Users \cup {"abandoned"} BY DEF DesignInv, D!TypeOK
<1>2. D!Answer(u, None) /\ UNCHANGED <<dSource, dDesign>> BY DEF D!Die
<1>3. \/ dLock # u /\ UNCHANGED <<dLock, dStages>>
      \/ /\ dLock = u /\ dLock' = None
         /\ dStages' \subseteq Users \cup {"abandoned"}
         /\ \A v \in Users : v \in dStages' <=> v \in dStages \ {u}
  BY <1>1, DesignAssumption, BoundsAssumption DEF D!Die
<1> QED BY <1>2, <1>3, DesignAnswers, BoundsAssumption DEF Words

LEMMA DesignEdits == ASSUME DesignInv, D!Edit PROVE DesignKept
<1>0. /\ dSource \in D!Contents /\ dSource' = dSource + 1 /\ dSource' \in D!Contents
      /\ D!Contents \subseteq Nat /\ UNCHANGED <<dDesign, dStages, dLock, dUser>>
  BY BoundsAssumption DEF DesignInv, D!TypeOK, D!Contents, D!Edit, D!files
<1>1. ASSUME NEW v \in Users PROVE DesignHeld(v, dUser[v], dSource', dLock)
  <2>1. DesignHeld(v, dUser[v], dSource, dLock) BY DEF DesignInv
  <2>2. DesignRead(dUser[v], dSource')
    BY <1>0, <2>1, BoundsAssumption DEF DesignHeld, DesignRead, D!Contents
  <2> QED BY <2>1, <2>2 DEF DesignHeld
<1>2. D!TypeOK' BY <1>0 DEF DesignInv, D!TypeOK, D!Contents, D!Design, D!Kinds
<1>3. D!MadeOfOneSource' BY <1>0 DEF DesignInv, D!MadeOfOneSource
<1>4. dDesign # None => [dDesign EXCEPT !.knowledge = dDesign.knowledge] = dDesign
  BY DEF DesignInv, D!TypeOK, D!Design
<1>5. D!KeptStep BY <1>0, <1>4 DEF D!KeptStep
<1> QED BY <1>0, <1>1, <1>2, <1>3, <1>5 DEF DesignInv, DesignKept

LEMMA DesignKeeps == DesignInv /\ D!Next => DesignKept
BY DesignBegins, DesignNotApproved, DesignLocks, DesignFails, DesignReads, DesignPublishes,
   DesignRecords, DesignDies, DesignEdits DEF D!Next

-----------------------------------------------------------------------------
(* FreeCAD: the executable that was reviewed is the one that was run,      *)
(* whatever is installed in between.                                       *)

Busy == {"reading", "pinning", "probing", "rereading"}
Running == {"running", "executing", "returning"}
ThreadSteps == Busy \cup Running \cup {"idle", "waiting", "selecting"}
Tasks == {"discover", "status", "design"}
Candidate ==
  [by : Users, place : Executables, identity : Nat, build : Nat, version : Nat \cup {None}]
Thread ==
  [step : ThreadSteps, task : Tasks \cup {None}, place : Executables \cup {None},
   left : Seq(Executables), found : Seq(Candidate), seen : F!File \cup {None},
   version : Nat \cup {None}, ran : Nat \cup {None},
   answer : {None, "setup_required", "ready", "blocked", "opened", "selected", "not_selected",
             "refused", "result"}]

\* A place holds newer and newer files: a file with a higher identity, or the
\* same one with later bytes.
Newer(old, new) ==
  \/ old.identity < new.identity
  \/ old.identity = new.identity /\ old.build < new.build
Since(old, new) == F!Same(new, old) \/ Newer(old, new)
Moved(f, g) ==
  \A p \in Executables : f[p] # None => g[p] \in F!File /\ Since(f[p], g[p])

\* What was seen of a file was reviewed and lay there; if that is what lies
\* there now, then it lay there all the time and is what was probed.
Sound(s, f, digest) ==
  /\ s.step \in Busy \ {"reading"} =>
       /\ s.seen \in F!File /\ s.seen.build = digest
       /\ f[s.place] \in F!File /\ Since(s.seen, f[s.place])
  /\ s.step = "rereading" /\ F!Same(f[s.place], s.seen) => s.version = s.seen.build
  /\ \A i \in 1..Len(s.found) : s.found[i].build = digest /\ s.found[i].version = digest
\* The same of the service while it runs a script.
Served(s, f, c) ==
  /\ s.step \in Running => c # None
  /\ s.step = "returning" /\ F!Same(f[c.place], c) => s.ran \in {None, c.build}
Asked(s, command) ==
  /\ s.step \in Busy <=> s.task # None
  /\ s.step \in Busy => s.place \in Executables
  /\ s.task \in {"status", "design"} => s.found = << >>
  /\ s.task = "design" => s.place = command
Said(s, digest) ==
  /\ s.step # "idle" => s.answer = None
  /\ s.answer = "result" => s.ran = digest
  /\ s.answer = "selected" => Len(s.found) = 1
ThreadHeld(s, f, srv, c) ==
  Sound(s, f, srv.digest) /\ Served(s, f, c) /\ Asked(s, srv.command) /\ Said(s, srv.digest)

\* The service is made of a candidate that was reviewed and lay at its place.
ServiceSound(c, f, srv) ==
  c # None =>
    /\ c \in Candidate /\ c.place = srv.command /\ c.build = srv.digest /\ c.version = c.build
    /\ f[c.place] \in F!File /\ Since(c, f[c.place])

FreeCADInv ==
  /\ F!TypeOK
  /\ fFile \in [Executables -> F!File \cup {None}]
  /\ \A p \in Executables : fFile[p] # None => fFile[p].identity <= fBuilds
  /\ fServer.command \in Executables \cup {None}
  /\ fThread \in [Users -> Thread]
  /\ \A t \in Users : ThreadHeld(fThread[t], fFile, fServer, fService)
  /\ ServiceSound(fService, fFile, fServer)
  /\ fLock # None => fService = None

FreeCADKept == FreeCADInv' /\ F!ServiceStep

LEMMA FreeCADAgrees == FreeCADInv => F!RunsReviewed
<1> SUFFICES ASSUME FreeCADInv PROVE F!RunsReviewed OBVIOUS
<1>1. fService # None => F!Reviewed(fService) /\ fService.place = fServer.command
  BY DEF FreeCADInv, ServiceSound, F!Reviewed
<1>2. ASSUME NEW t \in Users, fThread[t].answer = "selected"
      PROVE  /\ F!Reviewed(fThread[t].found[1])
             /\ \A i, j \in 1..Len(fThread[t].found) :
                  fThread[t].found[i].identity = fThread[t].found[j].identity
  <2>1. ThreadHeld(fThread[t], fFile, fServer, fService) BY DEF FreeCADInv
  <2>2. Len(fThread[t].found) = 1 BY <1>2, <2>1 DEF ThreadHeld, Said
  <2> QED BY <2>1, <2>2 DEF ThreadHeld, Sound, F!Reviewed
<1>3. \A t \in Users : fThread[t].answer = "result" => fThread[t].ran = fServer.digest
  BY DEF FreeCADInv, ThreadHeld, Said
<1> QED BY <1>1, <1>2, <1>3 DEF F!RunsReviewed

-----------------------------------------------------------------------------
(* Settings, and what a file that changes means for what was seen of it    *)

LEMMA FirstOfThree ==
  ASSUME NEW a, NEW b, NEW c
  PROVE  F!First(<<a, b, c>>) \in ({a, b, c} \ {Blank}) \cup {None}
<1> DEFINE v == <<a, b, c>>
<1>1. F!Named(v) \subseteq 1..3 /\ \A i \in F!Named(v) : v[i] # Blank BY DEF F!Named
<1>2. CASE F!Named(v) = {} BY <1>2 DEF F!First
<1>3. CASE F!Named(v) # {}
  <2>1. \E i \in F!Named(v) : \A j \in F!Named(v) : i <= j BY <1>1, <1>3
  <2> DEFINE k == CHOOSE i \in F!Named(v) : \A j \in F!Named(v) : i <= j
  <2>2. k \in 1..3 /\ v[k] # Blank BY <1>1, <2>1
  <2>3. F!First(v) = v[k] BY <1>3 DEF F!First
  <2>4. \A i \in 1..3 : v[i] \in {a, b, c} OBVIOUS
  <2> HIDE DEF k, v
  <2> QED BY <2>2, <2>3, <2>4 DEF v
<1> QED BY <1>2, <1>3

LEMMA SettingsChosen == ASSUME NEW values PROVE F!Settings(values) \subseteq values \cup {None}
<1> SUFFICES ASSUME NEW x \in F!Settings(values) PROVE x \in values \cup {None} OBVIOUS
<1>1. PICK override \in values \cup {None}, manifest \in values \cup {None},
           process \in values \cup {None, Blank}, envFile \in values \cup {None, Blank} :
        x = F!Setting(override, process, envFile, manifest)
  BY DEF F!Settings
<1>2. F!Environ(process, envFile) \in values \cup {None, Blank} BY DEF F!Environ
<1> QED BY <1>1, <1>2, FirstOfThree DEF F!Setting

LEMMA SinceMoved ==
  ASSUME NEW a, a.identity \in Nat, a.build \in Nat, NEW b \in F!File, NEW c \in F!File,
         Since(a, b), Since(b, c)
  PROVE  Since(a, c) /\ (F!Same(c, a) => F!Same(b, a))
BY DEF Since, Newer, F!Same, F!File

LEMMA ThreadIdle ==
  /\ F!Idle \in Thread /\ F!Idle.step = "idle" /\ F!Idle.task = None
  /\ F!Idle.answer = None /\ F!Idle.found = << >> /\ Len(F!Idle.found) = 0
<1>1. << >> \in Seq(Executables) /\ << >> \in Seq(Candidate) OBVIOUS
<1> QED BY <1>1 DEF F!Idle, Thread, ThreadSteps

LEMMA FreeCADStarts == F!Init => FreeCADInv
<1> SUFFICES ASSUME F!Init PROVE FreeCADInv OBVIOUS
<1> USE BoundsAssumption, FreeCADAssumption DEF F!Init
<1>1. /\ F!Idle \in Thread /\ F!Idle.step = "idle" /\ F!Idle.task = None
      /\ F!Idle.answer = None /\ F!Idle.found = << >>
  BY ThreadIdle
<1>2. fThread \in [Users -> Thread] /\ \A t \in Users : fThread[t] = F!Idle BY <1>1
<1>3. fFile \in [Executables -> F!File \cup {None}] BY DEF F!File
<1>4. \A p \in Executables : fFile[p] # None => fFile[p].identity <= fBuilds /\ fFile[p].build = 1
  OBVIOUS
<1>5. F!TypeOK BY <1>1, <1>2, <1>3, <1>4 DEF F!TypeOK, F!Exists, F!Steps, Words
<1>6. fServer.command \in Executables \cup {None} BY SettingsChosen
<1>7. ASSUME NEW t \in Users PROVE ThreadHeld(fThread[t], fFile, fServer, fService)
  <2>1. Len(fThread[t].found) = 0 BY <1>1, <1>2
  <2> QED BY <1>1, <1>2, <2>1
          DEF ThreadHeld, Sound, Served, Asked, Said, Busy, Running, Tasks, Words
<1>8. ServiceSound(fService, fFile, fServer) BY DEF ServiceSound
<1> QED BY <1>2, <1>3, <1>4, <1>5, <1>6, <1>7, <1>8 DEF FreeCADInv

-----------------------------------------------------------------------------
(* The steps of a call                                                     *)

\* A step of t alone, while the files and the server stay.
LEMMA FreeCADAlone ==
  ASSUME FreeCADInv, NEW t \in Users, NEW s \in Thread, F!Goes(t, s),
         UNCHANGED <<fFile, fBuilds, fServer>>, ThreadHeld(s, fFile, fServer, fService'),
         fLock' = t <=> s.task = "design",
         \/ fLock' = fLock
         \/ fLock = None /\ fLock' = t
         \/ fLock = t /\ fLock' = None,
         \/ fService' = fService
         \/ fService = None /\ ServiceSound(fService', fFile, fServer),
         fLock' # None => fService' = None
  PROVE  FreeCADKept
<1>1. fThread' = [fThread EXCEPT ![t] = s] /\ fThread' \in [Users -> Thread]
  BY DEF F!Goes, FreeCADInv
<1>2. fThread'[t] = s /\ \A v \in Users \ {t} : fThread'[v] = fThread[v] BY <1>1 DEF FreeCADInv
<1>3. ASSUME NEW v \in Users PROVE ThreadHeld(fThread'[v], fFile', fServer', fService')
  <2>1. CASE v = t BY <2>1, <1>2 DEF ThreadHeld, Sound, Served, Asked, Said, F!Same
  <2>2. CASE v # t
    <3>1. fThread'[v] = fThread[v] /\ ThreadHeld(fThread[v], fFile, fServer, fService)
      BY <2>2, <1>2 DEF FreeCADInv
    <3>2. Served(fThread[v], fFile, fService')
      BY <3>1 DEF ThreadHeld, Served, Running
    <3> QED BY <3>1, <3>2 DEF ThreadHeld
  <2> QED BY <2>1, <2>2
<1>4. F!TypeOK'
  <2>1. \A v \in Users : fLock' = v <=> fThread'[v].task = "design"
    <3>1. \A v \in Users : fLock = v <=> fThread[v].task = "design" BY DEF FreeCADInv, F!TypeOK
    <3> QED BY <1>2, <3>1, BoundsAssumption
  <2>2. \A v \in Users : fThread'[v].step \in F!Steps
    BY <1>1 DEF Thread, ThreadSteps, Busy, Running, F!Steps
  <2> QED BY <2>1, <2>2 DEF FreeCADInv, F!TypeOK, F!Exists, F!File, F!Steps
<1>5. ServiceSound(fService', fFile', fServer') BY DEF FreeCADInv, ServiceSound
<1>6. F!ServiceStep BY DEF F!ServiceStep
<1> QED BY <1>1, <1>3, <1>4, <1>5, <1>6 DEF FreeCADInv, FreeCADKept

\* What a call that holds no lock may do by itself.
LEMMA FreeCADFree ==
  ASSUME FreeCADInv, NEW t \in Users, NEW s \in Thread, F!Goes(t, s),
         UNCHANGED <<fFile, fBuilds, fServer, fLock, fService>>,
         ThreadHeld(s, fFile, fServer, fService), s.task = fThread[t].task
  PROVE  FreeCADKept
<1>1. fLock' = t <=> s.task = "design" BY DEF FreeCADInv, F!TypeOK
<1>2. ThreadHeld(s, fFile, fServer, fService') OBVIOUS
<1>3. fLock' # None => fService' = None BY DEF FreeCADInv
<1> QED BY <1>1, <1>2, <1>3, FreeCADAlone

\* Idle, with an answer that says nothing of what was run.
LEMMA FreeCADIdle ==
  ASSUME NEW answer \in {None, "setup_required", "ready", "blocked", "opened", "not_selected",
                         "refused"},
         NEW f, NEW srv, NEW c
  PROVE  /\ [F!Idle EXCEPT !.answer = answer] \in Thread
         /\ [F!Idle EXCEPT !.answer = answer].task = None
         /\ ThreadHeld([F!Idle EXCEPT !.answer = answer], f, srv, c)
<1> DEFINE s == [F!Idle EXCEPT !.answer = answer]
<1>1. s \in Thread BY ThreadIdle DEF Thread
<1>2. /\ s.step = "idle" /\ s.task = None /\ Len(s.found) = 0 /\ s.found = << >>
      /\ s.answer \notin {"result", "selected"}
  BY BoundsAssumption, ThreadIdle DEF Thread, Words
<1> HIDE DEF s
<1>3. ThreadHeld(s, f, srv, c)
  BY <1>1, <1>2, BoundsAssumption
     DEF ThreadHeld, Sound, Served, Asked, Said, Busy, Running, Tasks, Words
<1> QED BY <1>1, <1>2, <1>3 DEF s

LEMMA FreeCADAnswers ==
  ASSUME FreeCADInv, NEW t \in Users, fThread[t].task # "design",
         NEW answer \in {None, "setup_required", "ready", "blocked", "opened", "not_selected",
                         "refused"},
         F!Goes(t, [F!Idle EXCEPT !.answer = answer]),
         UNCHANGED <<fFile, fBuilds, fServer, fLock, fService>>
  PROVE  FreeCADKept
<1> DEFINE s == [F!Idle EXCEPT !.answer = answer]
<1>1. s \in Thread /\ s.task = None /\ ThreadHeld(s, fFile, fServer, fService') /\ F!Goes(t, s)
  BY FreeCADIdle
<1> HIDE DEF s
<1>2. fLock # t BY DEF FreeCADInv, F!TypeOK
<1>3. (fLock' = t <=> s.task = "design") /\ (fLock' # None => fService' = None)
  BY <1>1, <1>2, BoundsAssumption DEF FreeCADInv, Words
<1> QED BY <1>1, <1>3, FreeCADAlone

LEMMA FreeCADConcludes ==
  ASSUME FreeCADInv, NEW t \in Users, fThread[t].step \in Busy,
         NEW found \in Seq(Candidate),
         \A i \in 1..Len(found) :
           found[i].build = fServer.digest /\ found[i].version = fServer.digest,
         fThread[t].task = "design" /\ found # << >> => ServiceSound(found[1], fFile, fServer),
         F!Concluded(t, found), UNCHANGED <<fFile, fBuilds, fServer>>
  PROVE  FreeCADKept
<1>0. /\ fThread[t] \in Thread /\ ThreadHeld(fThread[t], fFile, fServer, fService)
      /\ fLock = t <=> fThread[t].task = "design"
  BY DEF FreeCADInv, F!TypeOK
<1>1. fThread[t].task \in Tasks /\ fThread[t].answer = None /\ fThread[t].place \in Executables
  BY <1>0 DEF ThreadHeld, Asked, Said, Thread, Busy
<1>2. CASE fThread[t].task = "discover" /\ fThread[t].left = << >>
  <2> DEFINE s == [F!Idle EXCEPT !.step = "selecting", !.found = found]
  <2>1. F!Goes(t, s) /\ UNCHANGED <<fLock, fService>> BY <1>2 DEF F!Concluded
  <2>2. s \in Thread BY ThreadIdle DEF Thread, ThreadSteps
  <2>3. s.step = "selecting" /\ s.task = None /\ s.found = found /\ s.answer = None
    BY ThreadIdle DEF Thread
  <2> HIDE DEF s
  <2>4. ThreadHeld(s, fFile, fServer, fService')
    BY <2>3, BoundsAssumption
       DEF ThreadHeld, Sound, Served, Asked, Said, Busy, Running, Tasks, Words
  <2>5. (fLock' = t <=> s.task = "design") /\ (fLock' # None => fService' = None)
    BY <1>0, <1>2, <2>1, <2>3, BoundsAssumption DEF FreeCADInv, Words
  <2> QED BY <2>1, <2>2, <2>4, <2>5, FreeCADAlone
<1>3. CASE fThread[t].task = "discover" /\ fThread[t].left # << >>
  <2> DEFINE s == [fThread[t] EXCEPT !.step = "reading", !.place = Head(fThread[t].left),
                                     !.left = Tail(fThread[t].left), !.found = found]
  <2>0. Head(fThread[t].left) \in Executables /\ Tail(fThread[t].left) \in Seq(Executables)
    BY <1>0, <1>3 DEF Thread
  <2>1. s \in Thread /\ F!Goes(t, s) /\ UNCHANGED <<fLock, fService>>
    BY <1>0, <1>3, <2>0 DEF F!Concluded, Thread, ThreadSteps, Busy
  <2>2. /\ s.step = "reading" /\ s.task = fThread[t].task /\ s.found = found
        /\ s.answer = None /\ s.place \in Executables
    BY <1>0, <1>1, <2>0 DEF Thread
  <2> HIDE DEF s
  <2>3. ThreadHeld(s, fFile, fServer, fService)
    BY <1>0, <1>1, <1>3, <2>2, BoundsAssumption
       DEF ThreadHeld, Sound, Served, Asked, Said, Busy, Running, Tasks, Words
  <2> QED BY <2>1, <2>2, <2>3, FreeCADFree
<1>4. CASE fThread[t].task = "status"
  <2>1. PICK answer \in {"setup_required", "ready"} : F!Goes(t, [F!Idle EXCEPT !.answer = answer])
    BY <1>4 DEF F!Concluded
  <2>2. UNCHANGED <<fLock, fService>> BY <1>4 DEF F!Concluded
  <2> QED BY <1>4, <2>1, <2>2, FreeCADAnswers
<1>5. CASE fThread[t].task = "design"
  <2>1. PICK answer \in {"blocked", "opened"} : F!Goes(t, [F!Idle EXCEPT !.answer = answer])
    BY <1>5 DEF F!Concluded
  <2>2. fLock' = None /\ fService' = IF found = << >> THEN fService ELSE found[1]
    BY <1>5 DEF F!Concluded, F!LockAfter
  <2> DEFINE s == [F!Idle EXCEPT !.answer = answer]
  <2>3. s \in Thread /\ s.task = None /\ ThreadHeld(s, fFile, fServer, fService') /\ F!Goes(t, s)
    BY <2>1, FreeCADIdle
  <2> HIDE DEF s
  <2>4. fLock = t /\ fService = None BY <1>0, <1>5, BoundsAssumption DEF FreeCADInv
  <2>5. fService' = fService \/ ServiceSound(fService', fFile, fServer) BY <1>5, <2>2
  <2>6. fLock' = t <=> s.task = "design" BY <2>2, <2>3, BoundsAssumption DEF Words
  <2> QED BY <2>2, <2>3, <2>4, <2>5, <2>6, FreeCADAlone
<1> QED BY <1>1, <1>2, <1>3, <1>4, <1>5 DEF Tasks

\* A candidate is found invalid.
LEMMA FreeCADInvalid ==
  ASSUME FreeCADInv, NEW t \in Users, fThread[t].step \in Busy, F!Invalid(t),
         UNCHANGED <<fFile, fBuilds, fServer>>
  PROVE  FreeCADKept
<1>0. fThread[t] \in Thread /\ ThreadHeld(fThread[t], fFile, fServer, fService)
  BY DEF FreeCADInv
<1> DEFINE found == fThread[t].found
<1>1. found \in Seq(Candidate) BY <1>0 DEF Thread
<1>2. \A i \in 1..Len(found) :
        found[i].build = fServer.digest /\ found[i].version = fServer.digest
  BY <1>0 DEF ThreadHeld, Sound
<1>3. fThread[t].task = "design" => found = << >> BY <1>0 DEF ThreadHeld, Asked
<1>4. F!Concluded(t, found) BY DEF F!Invalid
<1> HIDE DEF found
<1> QED BY <1>1, <1>2, <1>3, <1>4, FreeCADConcludes

LEMMA FreeCADReadsBefore ==
  ASSUME FreeCADInv, NEW t \in Users, F!ReadBefore(t) PROVE FreeCADKept
<1>0. /\ fThread[t] \in Thread /\ ThreadHeld(fThread[t], fFile, fServer, fService)
      /\ fThread[t].step = "reading" /\ UNCHANGED <<fFile, fBuilds, fServer>>
  BY DEF FreeCADInv, F!ReadBefore, F!Is
<1>1. fThread[t].place \in Executables BY <1>0 DEF ThreadHeld, Asked, Busy
<1> DEFINE here == fFile[fThread[t].place]
<1>2. CASE F!Exists(fThread[t].place) /\ here.links = 1 /\ here.build = fServer.digest
  <2> DEFINE s == [fThread[t] EXCEPT !.step = "pinning", !.seen = here]
  <2>1. here \in F!File BY <1>1, <1>2 DEF FreeCADInv, F!Exists
  <2>2. F!Goes(t, s) /\ UNCHANGED <<fLock, fService>> BY <1>2 DEF F!ReadBefore
  <2>3. s \in Thread BY <1>0, <2>1 DEF Thread, ThreadSteps, Busy
  <2>4. /\ s.step = "pinning" /\ s.seen = here /\ s.task = fThread[t].task
        /\ s.place = fThread[t].place /\ s.found = fThread[t].found
        /\ s.answer = fThread[t].answer /\ s.ran = fThread[t].ran
    BY <1>0 DEF Thread
  <2> HIDE DEF s
  <2>5. Since(here, here) BY DEF Since, F!Same
  <2>6. ThreadHeld(s, fFile, fServer, fService)
    BY <1>0, <1>1, <1>2, <2>1, <2>4, <2>5 DEF ThreadHeld, Sound, Served, Asked, Said, Busy, Running
  <2> QED BY <1>0, <2>2, <2>3, <2>4, <2>6, FreeCADFree
<1>3. CASE ~(F!Exists(fThread[t].place) /\ here.links = 1 /\ here.build = fServer.digest)
  <2>1. F!Invalid(t) BY <1>3 DEF F!ReadBefore
  <2> QED BY <1>0, <2>1, FreeCADInvalid DEF Busy
<1> QED BY <1>2, <1>3

LEMMA FreeCADPins ==
  ASSUME FreeCADInv, NEW t \in Users, F!Pin(t) PROVE FreeCADKept
<1>0. /\ fThread[t] \in Thread /\ ThreadHeld(fThread[t], fFile, fServer, fService)
      /\ fThread[t].step = "pinning" /\ UNCHANGED <<fFile, fBuilds, fServer>>
  BY DEF FreeCADInv, F!Pin, F!Is
<1>1. CASE F!Step(t, "probing") /\ UNCHANGED <<fLock, fService>>
  <2> DEFINE s == [fThread[t] EXCEPT !.step = "probing"]
  <2>1. F!Goes(t, s) BY <1>1 DEF F!Step
  <2>2. s \in Thread BY <1>0 DEF Thread, ThreadSteps, Busy
  <2>3. /\ s.step = "probing" /\ s.seen = fThread[t].seen /\ s.task = fThread[t].task
        /\ s.place = fThread[t].place /\ s.found = fThread[t].found
        /\ s.answer = fThread[t].answer /\ s.ran = fThread[t].ran
    BY <1>0 DEF Thread
  <2> HIDE DEF s
  <2>4. ThreadHeld(s, fFile, fServer, fService)
    BY <1>0, <2>3 DEF ThreadHeld, Sound, Served, Asked, Said, Busy, Running
  <2> QED BY <1>0, <1>1, <2>1, <2>2, <2>3, <2>4, FreeCADFree
<1>2. CASE F!Invalid(t) BY <1>0, <1>2, FreeCADInvalid DEF Busy
<1> QED BY <1>1, <1>2 DEF F!Pin

\* What is probed at a place where the file seen lies no more is never taken
\* for it later.
LEMMA FreeCADProbes ==
  ASSUME FreeCADInv, NEW t \in Users, F!Probe(t) PROVE FreeCADKept
<1>0. /\ fThread[t] \in Thread /\ ThreadHeld(fThread[t], fFile, fServer, fService)
      /\ fThread[t].step = "probing" /\ UNCHANGED <<fFile, fBuilds, fServer>>
  BY DEF FreeCADInv, F!Probe, F!Is
<1> DEFINE here == fFile[fThread[t].place]
           s == [fThread[t] EXCEPT !.step = "rereading", !.version = here.build]
<1>1. CASE F!Exists(fThread[t].place) /\ F!Goes(t, s) /\ UNCHANGED <<fLock, fService>>
  <2>1. here \in F!File BY <1>0 DEF ThreadHeld, Sound, Busy
  <2>2. s \in Thread BY <1>0, <2>1 DEF Thread, ThreadSteps, Busy, F!File
  <2>3. /\ s.step = "rereading" /\ s.version = here.build /\ s.seen = fThread[t].seen
        /\ s.task = fThread[t].task /\ s.place = fThread[t].place
        /\ s.found = fThread[t].found /\ s.answer = fThread[t].answer /\ s.ran = fThread[t].ran
    BY <1>0 DEF Thread
  <2>4. F!Goes(t, s) BY <1>1
  <2> HIDE DEF s
  <2>5. ThreadHeld(s, fFile, fServer, fService)
    BY <1>0, <2>1, <2>3 DEF ThreadHeld, Sound, Served, Asked, Said, Busy, Running, F!Same
  <2> QED BY <1>0, <1>1, <2>2, <2>3, <2>4, <2>5, FreeCADFree
<1>2. CASE F!Invalid(t) BY <1>0, <1>2, FreeCADInvalid DEF Busy
<1> QED BY <1>1, <1>2 DEF F!Probe

LEMMA FreeCADReadsAfter ==
  ASSUME FreeCADInv, NEW t \in Users, F!ReadAfter(t) PROVE FreeCADKept
<1>0. /\ fThread[t] \in Thread /\ ThreadHeld(fThread[t], fFile, fServer, fService)
      /\ fThread[t].step = "rereading" /\ UNCHANGED <<fFile, fBuilds, fServer>>
  BY DEF FreeCADInv, F!ReadAfter, F!Is
<1> DEFINE found == fThread[t].found
           more == Append(found, F!Candidate(t))
<1>1. CASE F!Unchanged(t) /\ F!Concluded(t, more)
  <2>1. /\ fThread[t].seen \in F!File /\ fThread[t].seen.build = fServer.digest
        /\ fThread[t].place \in Executables /\ fFile[fThread[t].place] \in F!File
        /\ Since(fThread[t].seen, fFile[fThread[t].place])
    BY <1>0 DEF ThreadHeld, Sound, Asked, Busy
  <2>2. fThread[t].version = fServer.digest
    BY <1>0, <1>1, <2>1 DEF ThreadHeld, Sound, F!Unchanged
  <2> DEFINE c == F!Candidate(t)
  <2>3. /\ c.place = fThread[t].place /\ c.build = fServer.digest /\ c.version = fServer.digest
        /\ c.identity = fThread[t].seen.identity /\ c.build = fThread[t].seen.build
        /\ c \in Candidate
    BY <1>0, <2>1, <2>2 DEF F!Candidate, Candidate, F!File, Thread
  <2>4. found \in Seq(Candidate) BY <1>0 DEF Thread
  <2> HIDE DEF c
  <2>5. more \in Seq(Candidate) /\ Len(more) = Len(found) + 1 /\ more[Len(found) + 1] = c
        /\ \A i \in 1..Len(found) : more[i] = found[i]
    BY <2>3, <2>4 DEF c
  <2>6. \A i \in 1..Len(found) :
          found[i].build = fServer.digest /\ found[i].version = fServer.digest
    BY <1>0 DEF ThreadHeld, Sound
  <2>7. \A i \in 1..Len(more) :
          more[i].build = fServer.digest /\ more[i].version = fServer.digest
    BY <2>3, <2>4, <2>5, <2>6
  <2>8. ASSUME fThread[t].task = "design" PROVE ServiceSound(more[1], fFile, fServer)
    <3>1. found = << >> /\ fThread[t].place = fServer.command
      BY <1>0, <2>8 DEF ThreadHeld, Asked
    <3>2. more[1] = c BY <2>5, <3>1
    <3>3. Since(c, fFile[c.place]) BY <2>1, <2>3 DEF Since, Newer, F!Same
    <3> QED BY <2>1, <2>3, <3>1, <3>2, <3>3 DEF ServiceSound
  <2>9. F!Concluded(t, more) BY <1>1
  <2> HIDE DEF more, found
  <2> QED BY <1>0, <2>5, <2>7, <2>8, <2>9, FreeCADConcludes DEF Busy
<1>2. CASE F!Invalid(t) BY <1>0, <1>2, FreeCADInvalid DEF Busy
<1> QED BY <1>1, <1>2 DEF F!ReadAfter

\* A call that is idle, or runs, has no task and no lock.
LEMMA FreeCADUnlocked ==
  ASSUME FreeCADInv, NEW t \in Users, fThread[t].step \notin Busy
  PROVE  fThread[t].task = None /\ fThread[t].task # "design" /\ fLock # t
<1>1. ThreadHeld(fThread[t], fFile, fServer, fService) BY DEF FreeCADInv
<1>2. fThread[t].task = None /\ fThread[t].task # "design"
  BY <1>1, BoundsAssumption DEF ThreadHeld, Asked, Words
<1> QED BY <1>2 DEF FreeCADInv, F!TypeOK

\* Idle with another step, and what it starts: a call that waits, runs, or
\* validates a candidate without the lock.
LEMMA FreeCADBegins ==
  ASSUME FreeCADInv, NEW t \in Users, fThread[t].step \notin Busy,
         UNCHANGED <<fFile, fBuilds, fServer, fLock, fService>>,
         \/ F!Goes(t, [F!Idle EXCEPT !.step = "waiting"])
         \/ fService # None /\ F!Goes(t, [F!Idle EXCEPT !.step = "running"])
  PROVE  FreeCADKept
<1>1. PICK step \in {"waiting", "running"} :
        F!Goes(t, [F!Idle EXCEPT !.step = step]) /\ (step = "running" => fService # None)
  OBVIOUS
<1> DEFINE s == [F!Idle EXCEPT !.step = step]
<1>2. s \in Thread BY ThreadIdle DEF Thread, ThreadSteps, Running
<1>3. s.step = step /\ s.task = None /\ s.found = << >> /\ Len(s.found) = 0 /\ s.answer = None
  BY ThreadIdle DEF Thread
<1>4. F!Goes(t, s) BY <1>1
<1> HIDE DEF s
<1>5. ThreadHeld(s, fFile, fServer, fService)
  BY <1>1, <1>3, BoundsAssumption
     DEF ThreadHeld, Sound, Served, Asked, Said, Busy, Running, Tasks, Words
<1> QED BY <1>2, <1>3, <1>4, <1>5, FreeCADUnlocked, FreeCADFree

LEMMA FreeCADGets ==
  ASSUME FreeCADInv, NEW t \in Users, F!GetDesign(t) PROVE FreeCADKept
<1>1. fThread[t].step \notin Busy BY DEF F!GetDesign, F!Is, Busy
<1> QED BY <1>1, FreeCADBegins DEF F!GetDesign

\* A validation begins, with the lock when it is for the service.
LEMMA FreeCADValidates ==
  ASSUME FreeCADInv, NEW t \in Users, fThread[t].step \notin Busy, NEW task \in Tasks,
         NEW place \in Executables, NEW left \in Seq(Executables),
         task = "design" => place = fServer.command /\ fService = None /\ fLock = None /\ fLock' = t,
         task # "design" => fLock' = fLock,
         F!Goes(t, [F!Idle EXCEPT !.step = "reading", !.task = task, !.place = place, !.left = left]),
         UNCHANGED <<fFile, fBuilds, fServer, fService>>
  PROVE  FreeCADKept
<1> DEFINE s == [F!Idle EXCEPT !.step = "reading", !.task = task, !.place = place, !.left = left]
<1>1. s \in Thread BY ThreadIdle DEF Thread, ThreadSteps, Busy
<1>2. /\ s.step = "reading" /\ s.task = task /\ s.found = << >> /\ Len(s.found) = 0
      /\ s.answer = None /\ s.place = place
  BY ThreadIdle DEF Thread
<1>3. F!Goes(t, s) OBVIOUS
<1> HIDE DEF s
<1>4. ThreadHeld(s, fFile, fServer, fService')
  BY <1>2, BoundsAssumption
     DEF ThreadHeld, Sound, Served, Asked, Said, Busy, Running, Tasks, Words
<1>5. fLock' = t <=> s.task = "design" BY <1>2, FreeCADUnlocked
<1>6. fLock' # None => fService' = None BY DEF FreeCADInv
<1>7. fLock' = fLock \/ (fLock = None /\ fLock' = t) OBVIOUS
<1> QED BY <1>1, <1>3, <1>4, <1>5, <1>6, <1>7, FreeCADAlone

LEMMA FreeCADMakes ==
  ASSUME FreeCADInv, NEW t \in Users, F!MakeService(t) PROVE FreeCADKept
<1>0. /\ fThread[t] \in Thread /\ ThreadHeld(fThread[t], fFile, fServer, fService)
      /\ fThread[t].step = "waiting" /\ fLock = None
      /\ UNCHANGED <<fFile, fBuilds, fServer, fService>> /\ fThread[t].step \notin Busy
  BY DEF FreeCADInv, F!MakeService, F!Is, Busy
<1>1. CASE ~F!StillMissing
  <2>1. F!Step(t, "running") /\ fLock' = fLock /\ fService # None
    BY <1>1 DEF F!MakeService, F!StillMissing
  <2> DEFINE s == [fThread[t] EXCEPT !.step = "running"]
  <2>2. F!Goes(t, s) /\ s \in Thread BY <1>0, <2>1 DEF F!Step, Thread, ThreadSteps, Running
  <2>3. /\ s.step = "running" /\ s.task = fThread[t].task /\ s.found = fThread[t].found
        /\ s.answer = fThread[t].answer /\ s.ran = fThread[t].ran
    BY <1>0 DEF Thread
  <2> HIDE DEF s
  <2>4. ThreadHeld(s, fFile, fServer, fService)
    <3>1. Sound(s, fFile, fServer.digest) BY <1>0, <2>3 DEF ThreadHeld, Sound, Busy
    <3>2. Served(s, fFile, fService) BY <2>1, <2>3 DEF Served
    <3>3. Asked(s, fServer.command)
      BY <1>0, <2>3, FreeCADUnlocked DEF ThreadHeld, Asked, Busy
    <3>4. Said(s, fServer.digest) BY <1>0, <2>3 DEF ThreadHeld, Said
    <3> QED BY <3>1, <3>2, <3>3, <3>4 DEF ThreadHeld
  <2> QED BY <1>0, <2>1, <2>2, <2>3, <2>4, FreeCADFree
<1>2. CASE F!StillMissing /\ ~F!Configured
  <2>1. F!Goes(t, [F!Idle EXCEPT !.answer = "blocked"]) /\ fLock' = fLock
    BY <1>2 DEF F!MakeService
  <2> QED BY <1>0, <2>1, FreeCADUnlocked, FreeCADAnswers
<1>3. CASE F!StillMissing /\ F!Configured
  <2>1. /\ F!Goes(t, [F!Idle EXCEPT !.step = "reading", !.task = "design",
                                    !.place = fServer.command])
        /\ fLock' = t
    BY <1>3 DEF F!MakeService
  <2>2. fServer.command \in Executables /\ fService = None
    BY <1>3 DEF FreeCADInv, F!Configured, F!StillMissing
  <2>3. F!Idle.left \in Seq(Executables)
        /\ [F!Idle EXCEPT !.step = "reading", !.task = "design", !.place = fServer.command] =
           [F!Idle EXCEPT !.step = "reading", !.task = "design", !.place = fServer.command,
                          !.left = F!Idle.left]
    BY ThreadIdle DEF Thread
  <2> QED BY <1>0, <2>1, <2>2, <2>3, FreeCADValidates DEF Tasks
<1> QED BY <1>1, <1>2, <1>3

LEMMA FreeCADStatus ==
  ASSUME FreeCADInv, NEW t \in Users, F!Status(t) PROVE FreeCADKept
<1>0. /\ fThread[t].step \notin Busy
      /\ UNCHANGED <<fFile, fBuilds, fServer, fLock, fService>>
  BY DEF F!Status, F!Is, Busy
<1>1. CASE F!Configured
  <2>1. F!Goes(t, [F!Idle EXCEPT !.step = "reading", !.task = "status",
                                 !.place = fServer.command])
    BY <1>1 DEF F!Status
  <2>2. fServer.command \in Executables BY <1>1 DEF FreeCADInv, F!Configured
  <2>3. F!Idle.left \in Seq(Executables)
        /\ [F!Idle EXCEPT !.step = "reading", !.task = "status", !.place = fServer.command] =
           [F!Idle EXCEPT !.step = "reading", !.task = "status", !.place = fServer.command,
                          !.left = F!Idle.left]
    BY ThreadIdle DEF Thread
  <2> QED BY <1>0, <2>1, <2>2, <2>3, FreeCADValidates DEF Tasks
<1>2. CASE ~F!Configured
  <2>1. F!Goes(t, [F!Idle EXCEPT !.answer = "setup_required"]) BY <1>2 DEF F!Status
  <2> QED BY <1>0, <2>1, FreeCADUnlocked, FreeCADAnswers
<1> QED BY <1>1, <1>2

LEMMA FreeCADDiscovers ==
  ASSUME FreeCADInv, NEW t \in Users, F!Discover(t) PROVE FreeCADKept
<1>1. fThread[t].step \notin Busy BY DEF F!Discover, F!Is, Busy
<1>2. Head(Paths) \in Executables /\ Tail(Paths) \in Seq(Executables) BY FreeCADAssumption
<1> QED BY <1>1, <1>2, FreeCADValidates DEF F!Discover, Tasks

LEMMA FreeCADSelects ==
  ASSUME FreeCADInv, NEW t \in Users, F!Select(t) PROVE FreeCADKept
<1>0. /\ fThread[t] \in Thread /\ ThreadHeld(fThread[t], fFile, fServer, fService)
      /\ fThread[t].step = "selecting" /\ fThread[t].step \notin Busy
      /\ UNCHANGED <<fFile, fBuilds, fServer, fLock, fService>>
  BY DEF FreeCADInv, F!Select, F!Is, Busy
<1>1. CASE F!Only(fThread[t].found)
  <2> DEFINE s == [fThread[t] EXCEPT !.step = "idle", !.answer = "selected"]
  <2>1. F!Goes(t, s) /\ s \in Thread BY <1>0, <1>1 DEF F!Select, Thread, ThreadSteps
  <2>2. /\ s.step = "idle" /\ s.task = fThread[t].task /\ s.found = fThread[t].found
        /\ s.answer = "selected"
    BY <1>0 DEF Thread
  <2> HIDE DEF s
  <2>3. ThreadHeld(s, fFile, fServer, fService)
    BY <1>0, <1>1, <2>2 DEF ThreadHeld, Sound, Served, Asked, Said, Busy, Running, F!Only
  <2> QED BY <1>0, <2>1, <2>2, <2>3, FreeCADFree
<1>2. CASE ~F!Only(fThread[t].found)
  <2>1. F!Goes(t, [F!Idle EXCEPT !.answer = "not_selected"]) BY <1>2 DEF F!Select
  <2> QED BY <1>0, <2>1, FreeCADUnlocked, FreeCADAnswers
<1> QED BY <1>1, <1>2

-----------------------------------------------------------------------------
(* Running a script                                                        *)

\* What s says when it neither validates nor has found anything.
LEMMA FreeCADRunning ==
  ASSUME FreeCADInv, NEW t \in Users, fThread[t].step \in Running,
         NEW s \in Thread, F!Goes(t, s), s.step \in Running, s.task = fThread[t].task,
         s.found = fThread[t].found, s.answer = fThread[t].answer,
         s.step = "returning" /\ F!Same(fFile[fService.place], fService) =>
           s.ran \in {None, fService.build},
         UNCHANGED <<fFile, fBuilds, fServer, fLock, fService>>
  PROVE  FreeCADKept
<1>0. ThreadHeld(fThread[t], fFile, fServer, fService) BY DEF FreeCADInv
<1>1. s.answer = None /\ s.step \notin Busy /\ fThread[t].step \notin Busy
  BY <1>0 DEF ThreadHeld, Said, Busy, Running
<1>2. Sound(s, fFile, fServer.digest) BY <1>0, <1>1 DEF ThreadHeld, Sound, Busy
<1>3. Served(s, fFile, fService) BY <1>0 DEF ThreadHeld, Served
<1>4. Asked(s, fServer.command) BY <1>0, <1>1, FreeCADUnlocked DEF ThreadHeld, Asked
<1>5. Said(s, fServer.digest)
  BY <1>1, BoundsAssumption DEF Said, Running, Words
<1>6. ThreadHeld(s, fFile, fServer, fService) BY <1>2, <1>3, <1>4, <1>5 DEF ThreadHeld
<1> QED BY <1>6, FreeCADFree

LEMMA FreeCADRunPins ==
  ASSUME FreeCADInv, NEW t \in Users, F!RunPin(t) PROVE FreeCADKept
<1>0. /\ fThread[t] \in Thread /\ fThread[t].step = "running" /\ fThread[t].step \notin Busy
      /\ UNCHANGED <<fFile, fBuilds, fServer, fLock, fService>>
  BY DEF FreeCADInv, F!RunPin, F!Is, Busy
<1>1. CASE F!Pinned
  <2> DEFINE s == [fThread[t] EXCEPT !.step = "executing"]
  <2>1. F!Goes(t, s) /\ s \in Thread
    BY <1>0, <1>1 DEF F!RunPin, F!Step, Thread, ThreadSteps, Running
  <2>2. /\ s.step = "executing" /\ s.task = fThread[t].task /\ s.found = fThread[t].found
        /\ s.answer = fThread[t].answer
    BY <1>0 DEF Thread
  <2> HIDE DEF s
  <2> QED BY <1>0, <2>1, <2>2, FreeCADRunning DEF Running
<1>2. CASE ~F!Pinned
  BY <1>0, <1>2, FreeCADUnlocked, FreeCADAnswers DEF F!RunPin
<1> QED BY <1>1, <1>2

LEMMA FreeCADExecutes ==
  ASSUME FreeCADInv, NEW t \in Users, F!Execute(t) PROVE FreeCADKept
<1>0. /\ fThread[t] \in Thread /\ ThreadHeld(fThread[t], fFile, fServer, fService)
      /\ fThread[t].step = "executing"
      /\ UNCHANGED <<fFile, fBuilds, fServer, fLock, fService>>
  BY DEF FreeCADInv, F!Execute, F!Is
<1>1. fService # None BY <1>0 DEF ThreadHeld, Served, Running
<1>2. fFile[fService.place] \in F!File BY <1>1 DEF FreeCADInv, ServiceSound
<1>3. PICK ran \in Nat \cup {None} :
        ran = IF F!Exists(fService.place) THEN fFile[fService.place].build ELSE None
  BY <1>2 DEF F!File
<1> DEFINE s == [fThread[t] EXCEPT !.step = "returning", !.ran = ran]
<1>4. s \in Thread BY <1>0 DEF Thread, ThreadSteps, Running
<1>5. F!Goes(t, s) BY <1>3 DEF F!Execute
<1>6. /\ s.step = "returning" /\ s.task = fThread[t].task /\ s.found = fThread[t].found
      /\ s.answer = fThread[t].answer /\ s.ran = ran
  BY <1>0 DEF Thread
<1>7. F!Same(fFile[fService.place], fService) => ran \in {None, fService.build}
  BY <1>3 DEF F!Same
<1> HIDE DEF s
<1> QED BY <1>0, <1>4, <1>5, <1>6, <1>7, FreeCADRunning DEF Running

LEMMA FreeCADReturns ==
  ASSUME FreeCADInv, NEW t \in Users, F!RunReturns(t) PROVE FreeCADKept
<1>0. /\ fThread[t] \in Thread /\ ThreadHeld(fThread[t], fFile, fServer, fService)
      /\ fThread[t].step = "returning" /\ fThread[t].step \notin Busy
      /\ UNCHANGED <<fFile, fBuilds, fServer, fLock, fService>>
  BY DEF FreeCADInv, F!RunReturns, F!Is, Busy
<1>1. CASE fThread[t].ran # None /\ F!PinnedAfter
  <2>1. fService # None /\ F!Same(fFile[fService.place], fService)
    BY <1>0, <1>1 DEF ThreadHeld, Served, Running, F!PinnedAfter, F!Pinned
  <2>2. fThread[t].ran = fServer.digest
    BY <1>0, <1>1, <2>1 DEF ThreadHeld, Served, FreeCADInv, ServiceSound
  <2> DEFINE s == [F!Idle EXCEPT !.answer = "result", !.ran = fThread[t].ran]
  <2>3. s \in Thread BY <1>0, ThreadIdle DEF Thread
  <2>4. /\ s.step = "idle" /\ s.task = None /\ s.found = << >> /\ Len(s.found) = 0
        /\ s.answer = "result" /\ s.ran = fServer.digest
    BY <2>2, ThreadIdle DEF Thread
  <2>5. F!Goes(t, s) BY <1>1 DEF F!RunReturns
  <2> HIDE DEF s
  <2>6. ThreadHeld(s, fFile, fServer, fService)
    BY <2>4, BoundsAssumption
       DEF ThreadHeld, Sound, Served, Asked, Said, Busy, Running, Tasks, Words
  <2> QED BY <1>0, <2>3, <2>4, <2>5, <2>6, FreeCADUnlocked, FreeCADFree
<1>2. CASE ~(fThread[t].ran # None /\ F!PinnedAfter)
  <2>1. F!Goes(t, [F!Idle EXCEPT !.answer = "refused"]) BY <1>2 DEF F!RunReturns
  <2> QED BY <1>0, <2>1, FreeCADUnlocked, FreeCADAnswers
<1> QED BY <1>1, <1>2

-----------------------------------------------------------------------------
(* Files change, servers are started anew                                  *)

LEMMA FreeCADMoves ==
  ASSUME FreeCADInv, fFile' \in [Executables -> F!File \cup {None}], Moved(fFile, fFile'),
         fBuilds' \in 1..MaxBuilds,
         \A p \in Executables :
           fFile'[p] # None => fFile'[p].identity <= fBuilds' /\ fFile'[p].build \in 1..fBuilds',
         UNCHANGED <<fServer, fLock, fService, fThread>>
  PROVE  FreeCADKept
<1>1. ASSUME NEW t \in Users PROVE ThreadHeld(fThread[t], fFile', fServer, fService)
  <2>0. fThread[t] \in Thread /\ ThreadHeld(fThread[t], fFile, fServer, fService)
    BY DEF FreeCADInv
  <2>1. Sound(fThread[t], fFile', fServer.digest)
    <3>1. ASSUME fThread[t].step \in Busy \ {"reading"}
          PROVE  /\ fThread[t].seen \in F!File /\ fThread[t].seen.build = fServer.digest
                 /\ fFile'[fThread[t].place] \in F!File
                 /\ Since(fThread[t].seen, fFile'[fThread[t].place])
                 /\ fThread[t].step = "rereading"
                      /\ F!Same(fFile'[fThread[t].place], fThread[t].seen) =>
                        fThread[t].version = fThread[t].seen.build
      <4> DEFINE p == fThread[t].place
      <4>1. /\ fThread[t].seen \in F!File /\ fThread[t].seen.build = fServer.digest
            /\ fFile[p] \in F!File /\ Since(fThread[t].seen, fFile[p]) /\ p \in Executables
        BY <2>0, <3>1 DEF ThreadHeld, Sound, Asked, Busy
      <4>2. fFile'[p] \in F!File /\ Since(fFile[p], fFile'[p])
        BY <4>1, FreeCADAssumption DEF Moved
      <4>3. /\ Since(fThread[t].seen, fFile'[p])
            /\ F!Same(fFile'[p], fThread[t].seen) => F!Same(fFile[p], fThread[t].seen)
        BY <4>1, <4>2, SinceMoved DEF F!File
      <4> QED BY <2>0, <4>1, <4>2, <4>3 DEF ThreadHeld, Sound
    <3> QED BY <2>0, <3>1 DEF ThreadHeld, Sound, Busy
  <2>2. Served(fThread[t], fFile', fService)
    <3>1. ASSUME fThread[t].step = "returning", F!Same(fFile'[fService.place], fService)
          PROVE  fThread[t].ran \in {None, fService.build}
      <4> DEFINE p == fService.place
      <4>1. fService # None BY <2>0, <3>1 DEF ThreadHeld, Served, Running
      <4>2. /\ fService \in Candidate /\ fFile[p] \in F!File /\ Since(fService, fFile[p])
            /\ p \in Executables
        BY <4>1 DEF FreeCADInv, ServiceSound, Candidate
      <4>3. fFile'[p] \in F!File /\ Since(fFile[p], fFile'[p])
        BY <4>2, FreeCADAssumption DEF Moved
      <4>4. F!Same(fFile[p], fService) BY <3>1, <4>2, <4>3, SinceMoved DEF Candidate
      <4> QED BY <2>0, <3>1, <4>4 DEF ThreadHeld, Served
    <3> QED BY <2>0, <3>1 DEF ThreadHeld, Served
  <2> QED BY <2>0, <2>1, <2>2 DEF ThreadHeld
<1>2. ServiceSound(fService, fFile', fServer)
  <2> SUFFICES ASSUME fService # None PROVE ServiceSound(fService, fFile', fServer)
    BY DEF ServiceSound
  <2> DEFINE p == fService.place
  <2>1. /\ fService \in Candidate /\ fFile[p] \in F!File /\ Since(fService, fFile[p])
        /\ p \in Executables
    BY DEF FreeCADInv, ServiceSound, Candidate
  <2>2. fFile'[p] \in F!File /\ Since(fFile[p], fFile'[p])
    BY <2>1, FreeCADAssumption DEF Moved
  <2>3. Since(fService, fFile'[p]) BY <2>1, <2>2, SinceMoved DEF Candidate
  <2> QED BY <2>2, <2>3 DEF FreeCADInv, ServiceSound
<1>3. F!TypeOK' BY DEF FreeCADInv, F!TypeOK, F!Exists, F!File, F!Steps
<1>4. F!ServiceStep BY DEF F!ServiceStep
<1> QED BY <1>1, <1>2, <1>3, <1>4 DEF FreeCADInv, FreeCADKept

LEMMA FreeCADInstalls ==
  ASSUME FreeCADInv, NEW p \in Executables, F!Install(p) PROVE FreeCADKept
<1>0. /\ fBuilds \in 1..MaxBuilds /\ fBuilds \in Nat /\ fBuilds' = fBuilds + 1
      /\ fBuilds' \in 1..MaxBuilds /\ fBuilds' \in Nat /\ fBuilds < fBuilds'
      /\ UNCHANGED <<fServer, fLock, fService, fThread>>
      /\ fFile \in [Executables -> F!File \cup {None}]
  BY BoundsAssumption DEF FreeCADInv, F!TypeOK, F!Install
<1>1. ASSUME NEW q \in Executables, fFile[q] # None
      PROVE  /\ fFile[q] \in F!File /\ fFile[q].identity \in Nat /\ fFile[q].build \in Nat
             /\ fFile[q].identity <= fBuilds /\ fFile[q].build \in 1..fBuilds
  BY <1>1 DEF FreeCADInv, F!TypeOK, F!Exists, F!File
<1>2. ASSUME NEW g \in F!File, fFile' = [fFile EXCEPT ![p] = g],
             g.identity <= fBuilds', g.build \in 1..fBuilds',
             fFile[p] # None => Newer(fFile[p], g)
      PROVE  FreeCADKept
  <2>1. /\ fFile' \in [Executables -> F!File \cup {None}] /\ fFile'[p] = g
        /\ \A q \in Executables \ {p} : fFile'[q] = fFile[q]
    BY <1>0, <1>2
  <2>2. Moved(fFile, fFile') BY <1>1, <1>2, <2>1 DEF Moved, Since, F!Same
  <2>3. ASSUME NEW q \in Executables, fFile'[q] # None
        PROVE  fFile'[q].identity <= fBuilds' /\ fFile'[q].build \in 1..fBuilds'
    <3>1. CASE q = p BY <1>2, <2>1, <3>1
    <3>2. CASE q # p
      <4>1. fFile'[q] = fFile[q] BY <2>1, <3>2
      <4>2. /\ fFile[q].identity \in Nat /\ fFile[q].identity <= fBuilds
            /\ fFile[q].build \in 1..fBuilds
        BY <1>1, <2>3, <4>1
      <4> QED BY <1>0, <4>1, <4>2
    <3> QED BY <3>1, <3>2
  <2> QED BY <1>0, <2>1, <2>2, <2>3, FreeCADMoves
<1>3. CASE fFile' = [fFile EXCEPT ![p] = [identity |-> fBuilds', build |-> fBuilds', links |-> 1]]
  <2> DEFINE g == [identity |-> fBuilds', build |-> fBuilds', links |-> 1]
  <2>1. /\ g \in F!File /\ g.identity <= fBuilds' /\ g.build \in 1..fBuilds'
        /\ g.identity = fBuilds'
    BY <1>0 DEF F!File
  <2>2. fFile[p] # None => Newer(fFile[p], g) BY <1>0, <1>1, <2>1 DEF Newer
  <2> HIDE DEF g
  <2>3. fFile' = [fFile EXCEPT ![p] = g] BY <1>3 DEF g
  <2> QED BY <1>2, <2>1, <2>2, <2>3
<1>4. CASE F!Exists(p) /\ fFile' = [fFile EXCEPT ![p].build = fBuilds']
  <2>1. fFile[p] # None BY <1>4 DEF F!Exists
  <2> DEFINE g == [fFile[p] EXCEPT !.build = fBuilds']
  <2>2. /\ g \in F!File /\ g.identity = fFile[p].identity /\ g.build = fBuilds'
    BY <1>0, <1>1, <2>1 DEF F!File
  <2>3. fFile' = [fFile EXCEPT ![p] = g] BY <1>4
  <2> HIDE DEF g
  <2>4. Newer(fFile[p], g) BY <1>0, <1>1, <2>1, <2>2 DEF Newer
  <2>5. g.identity <= fBuilds' /\ g.build \in 1..fBuilds' BY <1>0, <1>1, <2>1, <2>2
  <2> QED BY <1>2, <2>2, <2>3, <2>4, <2>5
<1>5. ASSUME NEW other \in Executables, ~F!Exists(p), F!Exists(other),
             fFile' = [fFile EXCEPT ![p] = [identity |-> fBuilds', build |-> fFile[other].build,
                                            links |-> 1]]
      PROVE  FreeCADKept
  <2> DEFINE g == [identity |-> fBuilds', build |-> fFile[other].build, links |-> 1]
  <2>1. fFile[p] = None /\ fFile[other] # None BY <1>5 DEF F!Exists
  <2>2. /\ g \in F!File /\ g.identity <= fBuilds' /\ g.build \in 1..fBuilds'
    BY <1>0, <1>1, <2>1 DEF F!File
  <2> HIDE DEF g
  <2>3. fFile' = [fFile EXCEPT ![p] = g] BY <1>5 DEF g
  <2> QED BY <1>2, <2>1, <2>2, <2>3
<1> QED BY <1>3, <1>4, <1>5 DEF F!Install

LEMMA FreeCADLinks == ASSUME FreeCADInv, NEW p \in Executables, F!Link(p) PROVE FreeCADKept
<1>0. /\ fBuilds \in 1..MaxBuilds /\ fBuilds' = fBuilds /\ fFile[p] \in F!File
      /\ UNCHANGED <<fServer, fLock, fService, fThread>>
      /\ fFile \in [Executables -> F!File \cup {None}]
  BY DEF FreeCADInv, F!TypeOK, F!Link, F!Exists
<1> DEFINE g == [fFile[p] EXCEPT !.links = 3 - @]
<1>1. g \in F!File /\ g.identity = fFile[p].identity /\ g.build = fFile[p].build
  BY <1>0 DEF F!File
<1>2. fFile' = [fFile EXCEPT ![p] = g] BY DEF F!Link
<1> HIDE DEF g
<1>3. /\ fFile' \in [Executables -> F!File \cup {None}] /\ fFile'[p] = g
      /\ \A q \in Executables \ {p} : fFile'[q] = fFile[q]
  BY <1>0, <1>1, <1>2
<1>4. fFile[p] # None BY <1>0, FreeCADAssumption
<1>5. Moved(fFile, fFile') BY <1>0, <1>1, <1>3 DEF Moved, Since, F!Same
<1>6. ASSUME NEW q \in Executables, fFile'[q] # None
      PROVE  fFile'[q].identity <= fBuilds' /\ fFile'[q].build \in 1..fBuilds'
  <2>1. fFile[q] # None => fFile[q].identity <= fBuilds /\ fFile[q].build \in 1..fBuilds
    BY DEF FreeCADInv, F!TypeOK, F!Exists
  <2> QED BY <1>0, <1>1, <1>3, <1>4, <1>6, <2>1
<1> QED BY <1>0, <1>3, <1>5, <1>6, FreeCADMoves

LEMMA FreeCADRestarts == ASSUME FreeCADInv, F!Restart PROVE FreeCADKept
<1>1. /\ fThread' = [t \in Users |-> F!Idle] /\ fLock' = None /\ fService' = None
      /\ UNCHANGED <<fFile, fBuilds, fServer>>
  BY DEF F!Restart
<1>2. fThread' \in [Users -> Thread] /\ \A t \in Users : fThread'[t] = F!Idle
  BY <1>1, ThreadIdle
<1>3. ASSUME NEW t \in Users PROVE ThreadHeld(fThread'[t], fFile', fServer', fService')
  BY <1>2, ThreadIdle, BoundsAssumption
     DEF ThreadHeld, Sound, Served, Asked, Said, Busy, Running, Tasks, Words
<1>4. F!TypeOK'
  BY <1>1, <1>2, ThreadIdle, BoundsAssumption
     DEF FreeCADInv, F!TypeOK, F!Exists, F!File, F!Steps, Words
<1> QED BY <1>1, <1>2, <1>3, <1>4 DEF FreeCADInv, FreeCADKept, ServiceSound, F!ServiceStep

LEMMA FreeCADKeeps == FreeCADInv /\ F!Next => FreeCADKept
BY FreeCADReadsBefore, FreeCADPins, FreeCADProbes, FreeCADReadsAfter, FreeCADGets, FreeCADMakes,
   FreeCADStatus, FreeCADDiscovers, FreeCADSelects, FreeCADRunPins, FreeCADExecutes,
   FreeCADReturns, FreeCADInstalls, FreeCADLinks, FreeCADRestarts
   DEF F!Next, F!Validate, F!Call

-----------------------------------------------------------------------------
(* The workspace: what was begun under a lock that may be taken away ends  *)
(* with a workspace that is complete, and no binding leads inside it.      *)

SourcesFile == [schema : {"v1", "legacy"}, enabled : BOOLEAN, root : Roots \cup {None}]
WorkspaceUser ==
  [step : W!Steps, actor : Actors \cup {None}, group : Groups \cup {None},
   place : Roots \cup {None}, read : SourcesFile \cup {None}, root : Roots \cup {None},
   answer : W!Answers]

\* What a process between two steps relies on: directories of the workspace are there
\* to stay, what it read was written whole, and what it is going to bind was outside.
WorkspaceHeld(s, dirs, sources) ==
  /\ s.step \in {"locking", "directories", "manifest", "unlocking"} => dirs > 0
  /\ s.step = "manifest" => dirs = W!Directories /\ sources # None
  /\ s.step = "unlocking" => s.answer \in {"initialized", "refused"}
  /\ s.step \notin {"idle", "unlocking"} => s.answer = None
  /\ s.step \in {"enabling", "resolving", "probing"} => s.place \in Roots
  /\ s.step \in {"enabling", "disabling", "confirming", "loading"} =>
       s.read \in SourcesFile /\ s.read.enabled = (s.read.root # None)
  /\ s.step \in {"probing", "publishing", "verifying", "confirming"} => s.place \notin Protected
Written(sources) ==
  sources # None => sources \in SourcesFile /\ sources.enabled = (sources.root # None)

WorkspaceInv ==
  /\ wDirs \in 0..W!Directories /\ wManifest \in W!Manifest \cup {None} /\ Written(wSources)
  /\ wLock \in Users \cup {"stale", None} /\ wLeads \in [Roots -> Roots \cup {None}]
  /\ \A place \in Roots : wLeads[place] # None => wLeads[wLeads[place]] = wLeads[place]
  /\ wUser \in [Users -> WorkspaceUser]
  /\ \A u \in Users : WorkspaceHeld(wUser[u], wDirs, wSources)
  /\ W!InitializedComplete

WorkspaceKept == WorkspaceInv' /\ W!IdentityStep /\ W!CatalogStep

LEMMA WorkspaceTyped == WorkspaceInv => W!TypeOK
<1>1. ASSUME NEW file \in SourcesFile, file.enabled = (file.root # None)
      PROVE  file # None /\ W!SourcesTyped(file)
  BY <1>1, WorkspaceAssumption DEF SourcesFile, W!SourcesTyped
<1> QED BY <1>1 DEF WorkspaceInv, WorkspaceHeld, Written, WorkspaceUser, W!TypeOK

LEMMA WorkspaceIdle ==
  /\ W!Idle \in WorkspaceUser /\ W!Idle.step = "idle" /\ W!Idle.answer = None
  /\ W!Idle.place = None
BY DEF W!Idle, WorkspaceUser, W!Steps, W!Answers

LEMMA WorkspaceStarts == W!Init => WorkspaceInv
<1> SUFFICES ASSUME W!Init PROVE WorkspaceInv OBVIOUS
<1>1. wUser \in [Users -> WorkspaceUser] /\ \A u \in Users : wUser[u] = W!Idle
  BY WorkspaceIdle DEF W!Init
<1>2. \A u \in Users : WorkspaceHeld(wUser[u], wDirs, wSources)
  BY <1>1, WorkspaceIdle DEF WorkspaceHeld
<1>3. ASSUME NEW place \in Roots, wSources = W!Source("legacy", place)
      PROVE  wSources \in SourcesFile /\ wSources.enabled = (wSources.root # None)
  BY <1>3 DEF W!Source, SourcesFile
<1>4. Written(wSources) BY <1>3 DEF W!Init, Written
<1>5. wSources # None \/ wManifest = None
  BY <1>3, WorkspaceAssumption DEF W!Init, SourcesFile
<1> QED
  BY <1>1, <1>2, <1>4, <1>5 DEF W!Init, WorkspaceInv, W!Directories, W!Manifest,
     W!InitializedComplete, W!Initialized

\* A step of u: what is there stays there, a manifest is published over nothing
\* by the one who answers so, a place that is answered is outside.
LEMMA WorkspaceGoes ==
  ASSUME WorkspaceInv, NEW u \in Users, NEW s \in WorkspaceUser, W!Goes(u, s),
         wDirs' \in wDirs..W!Directories, Written(wSources'), wSources # None => wSources' # None,
         wLock' \in Users \cup {"stale", None}, wLeads' = wLeads,
         \/ wManifest' = wManifest /\ (s.answer = "initialized" => wUser[u].answer # None)
         \/ /\ wManifest = None /\ wManifest' \in W!Manifest /\ wManifest'.by = u
            /\ wDirs = W!Directories /\ wSources' # None,
         WorkspaceHeld(s, wDirs', wSources'),
         wSources' # wSources => wSources'.root \notin Protected,
         s.answer \in {"settings", "configured"} => s.place \notin Protected,
         s.answer = "configured" => wLeads[s.place] # None /\ W!BindingLed(u, s.place)
  PROVE  WorkspaceKept
<1>1. /\ wUser' \in [Users -> WorkspaceUser] /\ wUser'[u] = s
      /\ \A v \in Users \ {u} : wUser'[v] = wUser[v]
  BY DEF W!Goes, WorkspaceInv
<1>2. /\ wDirs \in Nat /\ wDirs' \in Nat /\ wDirs <= wDirs' /\ wDirs' <= W!Directories
      /\ wDirs' \in 0..W!Directories
  BY DEF WorkspaceInv, W!Directories
<1>3. ASSUME NEW v \in Users PROVE WorkspaceHeld(wUser'[v], wDirs', wSources')
  <2>1. CASE v = u BY <1>1, <2>1
  <2>2. CASE v # u
    <3>1. wUser'[v] = wUser[v] /\ WorkspaceHeld(wUser[v], wDirs, wSources)
      BY <1>1, <2>2 DEF WorkspaceInv
    <3> QED BY <1>2, <3>1 DEF WorkspaceHeld, W!Directories
  <2> QED BY <2>1, <2>2
<1>4. wManifest' \in W!Manifest \cup {None} BY DEF WorkspaceInv
<1>5. W!InitializedComplete'
  BY <1>2 DEF WorkspaceInv, W!InitializedComplete, W!Initialized, W!Directories
<1>6. W!IdentityStep
  <2>1. W!Initialized => wManifest' = wManifest BY DEF W!Initialized
  <2>2. ASSUME NEW v \in Users, wUser'[v].answer = "initialized", wUser[v].answer = None
        PROVE  wManifest'.by = v
    BY <1>1, <2>2, BoundsAssumption DEF Words
  <2> QED BY <2>1, <2>2 DEF W!IdentityStep
<1>7. W!CatalogStep BY <1>1 DEF W!CatalogStep
<1> QED BY <1>1, <1>2, <1>3, <1>4, <1>5, <1>6, <1>7 DEF WorkspaceInv, WorkspaceKept

\* A step that answers, and one that goes on, while the files stay.
LEMMA WorkspaceAnswers ==
  ASSUME WorkspaceInv, NEW u \in Users, UNCHANGED <<wDirs, wSources, wManifest, wLeads>>,
         wLock' \in Users \cup {"stale", None},
         NEW answer \in W!Answers, W!Answer(u, answer), answer \notin {"settings", "configured"},
         answer = "initialized" => wUser[u].answer # None
  PROVE  WorkspaceKept
<1> DEFINE s == [W!Idle EXCEPT !.answer = answer]
<1>1. s \in WorkspaceUser /\ s.step = "idle" /\ s.answer = answer
  BY WorkspaceIdle DEF WorkspaceUser, W!Answers
<1>2. W!Goes(u, s) BY DEF W!Answer
<1> HIDE DEF s
<1>3. WorkspaceHeld(s, wDirs', wSources') BY <1>1 DEF WorkspaceHeld
<1>4. wDirs' \in wDirs..W!Directories /\ Written(wSources') BY DEF WorkspaceInv, W!Directories
<1> QED BY <1>1, <1>2, <1>3, <1>4, WorkspaceGoes
LEMMA WorkspaceGoesOn ==
  ASSUME WorkspaceInv, NEW u \in Users, UNCHANGED <<wDirs, wSources, wManifest, wLeads>>,
         wLock' \in Users \cup {"stale", None},
         NEW s \in WorkspaceUser, W!Goes(u, s), WorkspaceHeld(s, wDirs, wSources),
         s.step # "idle", s.answer = "initialized" => wUser[u].answer # None
  PROVE  WorkspaceKept
<1>1. s.answer \notin {"settings", "configured"}
  BY BoundsAssumption DEF WorkspaceHeld, Words
<1>2. wDirs' \in wDirs..W!Directories /\ Written(wSources') BY DEF WorkspaceInv, W!Directories
<1> QED BY <1>1, <1>2, WorkspaceGoes

LEMMA WorkspaceBegins ==
  ASSUME WorkspaceInv, NEW u \in Users,
         NEW actor \in Actors \cup {None}, NEW group \in Groups \cup {None}
  PROVE  /\ W!AlreadyInitialized(u, actor, group) => WorkspaceKept
         /\ W!Begin(u, actor, group) => WorkspaceKept
         /\ W!DryRun(u) => WorkspaceKept
<1>0. wLock \in Users \cup {"stale", None} BY DEF WorkspaceInv
<1>1. ASSUME W!AlreadyInitialized(u, actor, group) PROVE WorkspaceKept
  BY <1>0, <1>1, WorkspaceAnswers DEF W!AlreadyInitialized, W!files, W!Answers
<1>2. ASSUME W!DryRun(u) PROVE WorkspaceKept
  BY <1>0, <1>2, WorkspaceAnswers DEF W!DryRun, W!files, W!Answers
<1>3. ASSUME W!Begin(u, actor, group) PROVE WorkspaceKept
  <2> DEFINE s == [W!Idle EXCEPT !.step = "making", !.actor = actor, !.group = group]
  <2>1. s \in WorkspaceUser /\ s.step = "making" /\ s.answer = None
    BY WorkspaceIdle DEF WorkspaceUser, W!Steps
  <2>2. W!Goes(u, s) BY <1>3 DEF W!Begin
  <2> HIDE DEF s
  <2>3. WorkspaceHeld(s, wDirs, wSources) BY <2>1 DEF WorkspaceHeld
  <2> QED
    BY <1>0, <1>3, <2>1, <2>2, <2>3, WorkspaceGoesOn, BoundsAssumption DEF W!Begin, W!files, Words
<1> QED BY <1>1, <1>2, <1>3

LEMMA WorkspaceMakes ==
  ASSUME WorkspaceInv, NEW u \in Users, W!MakeWorkspace(u) PROVE WorkspaceKept
<1>0. wUser[u] \in WorkspaceUser /\ wUser[u].step = "making" /\ wUser[u].answer = None
  BY DEF WorkspaceInv, WorkspaceHeld, W!MakeWorkspace, W!Is
<1> DEFINE s == [wUser[u] EXCEPT !.step = "locking"]
<1>1. s \in WorkspaceUser /\ s.step = "locking" /\ s.answer = None
  BY <1>0 DEF WorkspaceUser, W!Steps
<1>2. W!Goes(u, s) BY DEF W!MakeWorkspace, W!Step
<1> HIDE DEF s
<1>3. wDirs' \in wDirs..W!Directories /\ wDirs' > 0
  BY DEF WorkspaceInv, W!MakeWorkspace, W!Directories
<1>4. WorkspaceHeld(s, wDirs', wSources') BY <1>1, <1>3 DEF WorkspaceHeld
<1> QED
  BY <1>1, <1>2, <1>3, <1>4, WorkspaceGoes, BoundsAssumption DEF WorkspaceInv, W!MakeWorkspace, Words

LEMMA WorkspaceLocks == ASSUME WorkspaceInv, NEW u \in Users, W!Lock(u) PROVE WorkspaceKept
<1>0. /\ wUser[u] \in WorkspaceUser /\ wUser[u].step = "locking" /\ wUser[u].answer = None
      /\ wDirs > 0 /\ wLock \in Users \cup {"stale", None}
      /\ UNCHANGED <<wDirs, wSources, wManifest, wLeads>>
  BY DEF WorkspaceInv, WorkspaceHeld, W!Lock, W!Is, W!files
<1>1. CASE wLock = None
  <2> DEFINE s == [wUser[u] EXCEPT !.step = "directories"]
  <2>1. s \in WorkspaceUser /\ s.step = "directories" /\ s.answer = None
    BY <1>0 DEF WorkspaceUser, W!Steps
  <2>2. W!Goes(u, s) /\ wLock' = u BY <1>1 DEF W!Lock, W!Step
  <2> HIDE DEF s
  <2>3. WorkspaceHeld(s, wDirs, wSources) BY <1>0, <2>1 DEF WorkspaceHeld
  <2> QED BY <1>0, <2>1, <2>2, <2>3, WorkspaceGoesOn, BoundsAssumption DEF Words
<1>2. CASE wLock # None BY <1>0, <1>2, WorkspaceAnswers DEF W!Lock, W!Answers
<1> QED BY <1>1, <1>2

LEMMA WorkspaceMakesDirectory ==
  ASSUME WorkspaceInv, NEW u \in Users, W!MakeDirectory(u) PROVE WorkspaceKept
<1>1. /\ wDirs \in Nat /\ wDirs' = wDirs + 1 /\ wDirs' \in 0..W!Directories /\ wDirs # W!Directories
      /\ UNCHANGED <<wSources, wManifest, wLock, wLeads, wUser>>
  BY DEF WorkspaceInv, W!MakeDirectory, W!Directories
<1>2. \A v \in Users : WorkspaceHeld(wUser[v], wDirs', wSources)
  BY <1>1 DEF WorkspaceInv, WorkspaceHeld
<1>3. wManifest = None BY <1>1 DEF WorkspaceInv, W!InitializedComplete, W!Initialized
<1>4. W!IdentityStep /\ W!CatalogStep
  BY <1>1, <1>3, BoundsAssumption DEF W!IdentityStep, W!CatalogStep, W!Initialized, Words
<1> QED
  BY <1>1, <1>2, <1>3, <1>4
     DEF WorkspaceInv, WorkspaceKept, Written, W!InitializedComplete, W!Initialized

\* What was begun under the lock ends by giving it up.
LEMMA WorkspaceGivesUp ==
  ASSUME WorkspaceInv, NEW u \in Users, wDirs > 0, W!GivesUp(u, "refused"),
         UNCHANGED <<wDirs, wSources, wManifest, wLeads, wLock>>
  PROVE  WorkspaceKept
<1>0. wUser[u] \in WorkspaceUser /\ wLock \in Users \cup {"stale", None} BY DEF WorkspaceInv
<1> DEFINE s == [wUser[u] EXCEPT !.step = "unlocking", !.answer = "refused"]
<1>1. s \in WorkspaceUser /\ s.step = "unlocking" /\ s.answer = "refused"
  BY <1>0 DEF WorkspaceUser, W!Steps, W!Answers
<1>2. W!Goes(u, s) BY DEF W!GivesUp
<1> HIDE DEF s
<1>3. WorkspaceHeld(s, wDirs, wSources) BY <1>1 DEF WorkspaceHeld
<1> QED BY <1>0, <1>1, <1>2, <1>3, WorkspaceGoesOn

LEMMA WorkspacePublishesSources ==
  ASSUME WorkspaceInv, NEW u \in Users, W!PublishSources(u) PROVE WorkspaceKept
<1>0. /\ wUser[u] \in WorkspaceUser /\ wUser[u].step = "directories" /\ wUser[u].answer = None
      /\ wDirs = W!Directories /\ wDirs > 0 /\ wLock \in Users \cup {"stale", None}
      /\ UNCHANGED <<wDirs, wManifest, wLock, wLeads>>
  BY DEF WorkspaceInv, WorkspaceHeld, W!PublishSources, W!Is, W!Complete
<1>1. W!Template \in SourcesFile /\ W!Template.enabled = (W!Template.root # None)
  BY DEF W!Template, W!Source, SourcesFile
<1>2. W!Template # None BY <1>1, WorkspaceAssumption DEF SourcesFile
<1>3. W!Template.root \notin Protected BY WorkspaceAssumption DEF W!Template, W!Source
<1>4. CASE wSources \in {None, W!Template}
  <2> DEFINE s == [wUser[u] EXCEPT !.step = "manifest"]
  <2>1. s \in WorkspaceUser /\ s.step = "manifest" /\ s.answer = None
    BY <1>0 DEF WorkspaceUser, W!Steps
  <2>2. W!Goes(u, s) /\ wSources' = W!Template BY <1>4 DEF W!PublishSources, W!Step
  <2> HIDE DEF s
  <2>3. Written(wSources') /\ wSources' # None BY <1>1, <1>2, <2>2 DEF Written
  <2>4. WorkspaceHeld(s, wDirs', wSources') BY <1>0, <2>1, <2>3 DEF WorkspaceHeld
  <2>5. wDirs' \in wDirs..W!Directories BY <1>0 DEF W!Directories
  <2> QED BY <1>0, <1>3, <2>1, <2>2, <2>3, <2>4, <2>5, WorkspaceGoes, BoundsAssumption DEF Words
<1>5. CASE wSources \notin {None, W!Template}
  BY <1>0, <1>5, WorkspaceGivesUp DEF W!PublishSources
<1> QED BY <1>4, <1>5

LEMMA WorkspacePublishesManifest ==
  ASSUME WorkspaceInv, NEW u \in Users, W!PublishManifest(u) PROVE WorkspaceKept
<1>0. /\ wUser[u] \in WorkspaceUser /\ wUser[u].step = "manifest" /\ wUser[u].answer = None
      /\ wDirs = W!Directories /\ wDirs > 0 /\ wLock \in Users \cup {"stale", None}
      /\ wSources # None /\ UNCHANGED <<wDirs, wSources, wLock, wLeads>>
  BY DEF WorkspaceInv, WorkspaceHeld, W!PublishManifest, W!Is, W!Directories
<1>1. CASE wManifest = None
  <2> DEFINE s == [wUser[u] EXCEPT !.step = "unlocking", !.answer = "initialized"]
             m == [actor |-> IF wUser[u].actor = None THEN "generated" ELSE wUser[u].actor,
                   group |-> wUser[u].group, by |-> u]
  <2>1. s \in WorkspaceUser /\ s.step = "unlocking" /\ s.answer = "initialized"
    BY <1>0 DEF WorkspaceUser, W!Steps, W!Answers
  <2>2. W!Goes(u, s) /\ wManifest' = m
    BY <1>1 DEF W!PublishManifest, W!Unpublished, W!GivesUp
  <2>3. m \in W!Manifest /\ m.by = u BY <1>0 DEF W!Manifest, WorkspaceUser
  <2> HIDE DEF s, m
  <2>4. WorkspaceHeld(s, wDirs', wSources') BY <1>0, <2>1 DEF WorkspaceHeld
  <2>5. wDirs' \in wDirs..W!Directories /\ Written(wSources') BY <1>0 DEF WorkspaceInv, W!Directories
  <2> QED BY <1>0, <1>1, <2>1, <2>2, <2>3, <2>4, <2>5, WorkspaceGoes
<1>2. CASE wManifest # None
  BY <1>0, <1>2, WorkspaceGivesUp DEF W!PublishManifest, W!Unpublished
<1> QED BY <1>1, <1>2

LEMMA WorkspaceWriteFails ==
  ASSUME WorkspaceInv, NEW u \in Users, W!WriteFails(u) PROVE WorkspaceKept
<1>1. wDirs > 0 BY DEF WorkspaceInv, WorkspaceHeld, W!WriteFails
<1> QED BY <1>1, WorkspaceGivesUp DEF W!WriteFails, W!files

LEMMA WorkspaceUnlocks == ASSUME WorkspaceInv, NEW u \in Users, W!Unlock(u) PROVE WorkspaceKept
<1>0. wUser[u].answer \in {"initialized", "refused"} /\ wLock \in Users \cup {"stale", None}
  BY DEF WorkspaceInv, WorkspaceHeld, W!Unlock, W!Is
<1>1. wUser[u].answer # None BY <1>0, BoundsAssumption DEF Words
<1>2. PICK answer \in {"initialized", "refused"} : W!Answer(u, answer)
  BY <1>0 DEF W!Unlock
<1> QED BY <1>0, <1>1, <1>2, WorkspaceAnswers DEF W!Unlock, W!files, W!Answers

\* The directory that sources lead to once they load.
LEMMA LoadedOutside ==
  ASSUME WorkspaceInv, NEW read \in SourcesFile, read.enabled = (read.root # None), W!Loads(read)
  PROVE  /\ W!Root(read) \in Roots \cup {None} /\ W!Root(read) \notin Protected
         /\ read.enabled => W!Root(read) \in Roots /\ W!Root(read) = wLeads[read.root]
<1>1. CASE read.enabled
  <2>1. read.root \in Roots BY <1>1 DEF SourcesFile
  <2> QED BY <1>1, <2>1 DEF WorkspaceInv, W!Loads, W!Usable, W!Root
<1>2. CASE ~read.enabled BY <1>2, WorkspaceAssumption DEF W!Root
<1> QED BY <1>1, <1>2

\* The sources are read: what was written whole is read whole.
LEMMA WorkspaceReads ==
  ASSUME WorkspaceInv, NEW u \in Users, NEW place \in Roots \cup {None},
         NEW step \in {"enabling", "disabling", "confirming", "loading"}, W!Read(u, step, place),
         step = "enabling" => place \in Roots, step = "confirming" => place \notin Protected
  PROVE  WorkspaceKept
<1>0. wLock \in Users \cup {"stale", None} BY DEF WorkspaceInv
<1>1. CASE wSources = None
  BY <1>0, <1>1, WorkspaceAnswers DEF W!Read, W!files, W!Answers
<1>2. CASE wSources # None
  <2> DEFINE s == [W!Idle EXCEPT !.step = step, !.place = place, !.read = wSources]
  <2>1. wSources \in SourcesFile /\ wSources.enabled = (wSources.root # None)
    BY <1>2 DEF WorkspaceInv, Written
  <2>2. /\ s \in WorkspaceUser /\ s.step = step /\ s.place = place /\ s.read = wSources
        /\ s.answer = None
    BY <2>1, WorkspaceIdle DEF WorkspaceUser, W!Steps
  <2>3. W!Goes(u, s) BY <1>2 DEF W!Read
  <2> HIDE DEF s
  <2>4. WorkspaceHeld(s, wDirs, wSources) BY <2>1, <2>2 DEF WorkspaceHeld
  <2> QED
    BY <1>0, <2>2, <2>3, <2>4, WorkspaceGoesOn, BoundsAssumption DEF W!Read, W!files, Words
<1> QED BY <1>1, <1>2

\* An answer that names a place, the files left as they are.
LEMMA WorkspaceEnds ==
  ASSUME WorkspaceInv, NEW u \in Users, W!files' = W!files, UNCHANGED <<wLock, wLeads>>,
         NEW place \in Roots \cup {None}, place \notin Protected,
         NEW answer \in {"settings", "configured", "disabled"}, W!Ends(u, answer, place),
         answer = "configured" => wLeads[place] # None /\ W!BindingLed(u, place)
  PROVE  WorkspaceKept
<1> DEFINE s == [W!Idle EXCEPT !.answer = answer, !.place = place]
<1>1. s \in WorkspaceUser /\ s.step = "idle" /\ s.answer = answer /\ s.place = place
  BY WorkspaceIdle DEF WorkspaceUser, W!Answers
<1>2. W!Goes(u, s) BY DEF W!Ends
<1> HIDE DEF s
<1>3. WorkspaceHeld(s, wDirs', wSources') BY <1>1 DEF WorkspaceHeld
<1>4. wDirs' \in wDirs..W!Directories /\ Written(wSources')
  BY DEF WorkspaceInv, W!Directories, W!files
<1> QED BY <1>1, <1>2, <1>3, <1>4, WorkspaceGoes DEF WorkspaceInv, W!files

\* A step that goes on towards a place.
LEMMA WorkspaceDecides ==
  ASSUME WorkspaceInv, NEW u \in Users, W!files' = W!files, UNCHANGED <<wLock, wLeads>>,
         NEW s \in WorkspaceUser, W!Goes(u, s), s.answer = None,
         \/ s.step = "resolving" /\ s.place \in Roots
         \/ s.step = "probing" /\ s.place \in Roots \ Protected
         \/ s.step = "publishing" /\ s.place \notin Protected
  PROVE  WorkspaceKept
<1>1. WorkspaceHeld(s, wDirs, wSources) BY DEF WorkspaceHeld
<1>2. wLock' \in Users \cup {"stale", None} BY DEF WorkspaceInv
<1> QED BY <1>1, <1>2, WorkspaceGoesOn, BoundsAssumption DEF W!files, Words

LEMMA WorkspaceEnableLoads ==
  ASSUME WorkspaceInv, NEW u \in Users, W!EnableLoads(u) PROVE WorkspaceKept
<1>0. /\ W!files' = W!files /\ UNCHANGED <<wLock, wLeads>> /\ wLock \in Users \cup {"stale", None}
      /\ wUser[u] \in WorkspaceUser /\ wUser[u].place \in Roots /\ wUser[u].answer = None
      /\ wUser[u].read \in SourcesFile /\ wUser[u].read.enabled = (wUser[u].read.root # None)
  BY DEF WorkspaceInv, WorkspaceHeld, W!EnableLoads, W!Is
<1>1. CASE W!Loads(wUser[u].read)
  <2>1. PICK root \in Roots \cup {None} :
          root = IF wUser[u].read.schema = "v1" THEN W!Root(wUser[u].read) ELSE None
    BY <1>0, <1>1, LoadedOutside
  <2> DEFINE s == [wUser[u] EXCEPT !.step = "resolving", !.read = None, !.root = root]
  <2>2. s \in WorkspaceUser /\ s.step = "resolving" /\ s.place \in Roots /\ s.answer = None
    BY <1>0 DEF WorkspaceUser, W!Steps
  <2>3. W!Goes(u, s) BY <1>1, <2>1 DEF W!EnableLoads
  <2> HIDE DEF s
  <2> QED BY <1>0, <2>2, <2>3, WorkspaceDecides
<1>2. CASE ~W!Loads(wUser[u].read)
  BY <1>0, <1>2, WorkspaceAnswers DEF W!EnableLoads, W!files, W!Answers
<1> QED BY <1>1, <1>2

LEMMA WorkspaceResolves ==
  ASSUME WorkspaceInv, NEW u \in Users, W!Resolve(u) PROVE WorkspaceKept
<1>0. /\ W!files' = W!files /\ UNCHANGED <<wLock, wLeads>> /\ wLock \in Users \cup {"stale", None}
      /\ wUser[u] \in WorkspaceUser /\ wUser[u].place \in Roots /\ wUser[u].answer = None
  BY DEF WorkspaceInv, WorkspaceHeld, W!Resolve, W!Is
<1>1. CASE W!Usable(wUser[u].place)
  <2>1. PICK place \in Roots \ Protected : place = wLeads[wUser[u].place]
    BY <1>0, <1>1 DEF WorkspaceInv, W!Usable
  <2> DEFINE s == [wUser[u] EXCEPT !.step = "probing", !.place = place]
  <2>2. s \in WorkspaceUser /\ s.step = "probing" /\ s.place = place /\ s.answer = None
    BY <1>0 DEF WorkspaceUser, W!Steps
  <2>3. W!Goes(u, s) BY <1>1, <2>1 DEF W!Resolve
  <2> HIDE DEF s
  <2> QED BY <1>0, <2>2, <2>3, WorkspaceDecides
<1>2. CASE ~W!Usable(wUser[u].place)
  BY <1>0, <1>2, WorkspaceAnswers DEF W!Resolve, W!files, W!Answers
<1> QED BY <1>1, <1>2

LEMMA WorkspaceProbes ==
  ASSUME WorkspaceInv, NEW u \in Users, W!Probe(u) PROVE WorkspaceKept
<1>0. /\ W!files' = W!files /\ UNCHANGED <<wLock, wLeads>> /\ wLock \in Users \cup {"stale", None}
      /\ wUser[u].step = "probing" /\ wUser[u].place \in Roots /\ wUser[u].place \notin Protected
  BY DEF WorkspaceInv, WorkspaceHeld, W!Probe, W!Is
<1>1. CASE wLeads[wUser[u].place] = None
  BY <1>0, <1>1, WorkspaceAnswers DEF W!Probe, W!files, W!Answers
<1>2. CASE wLeads[wUser[u].place] # None /\ wUser[u].root = wUser[u].place
  <2>1. W!Ends(u, "configured", wUser[u].place) BY <1>2 DEF W!Probe
  <2>2. W!BindingLed(u, wUser[u].place) BY <1>0, <1>2 DEF W!BindingLed, W!Is
  <2> QED BY <1>0, <1>2, <2>1, <2>2, WorkspaceEnds
<1>3. CASE wLeads[wUser[u].place] # None /\ wUser[u].root # wUser[u].place
  <2> DEFINE s == [W!Idle EXCEPT !.step = "publishing", !.place = wUser[u].place]
  <2>1. /\ s \in WorkspaceUser /\ s.step = "publishing" /\ s.place = wUser[u].place
        /\ s.answer = None
    BY <1>0, WorkspaceIdle DEF WorkspaceUser, W!Steps
  <2>2. W!Goes(u, s) BY <1>3 DEF W!Probe
  <2> HIDE DEF s
  <2> QED BY <1>0, <2>1, <2>2, WorkspaceDecides
<1> QED BY <1>1, <1>2, <1>3

LEMMA WorkspaceDisables ==
  ASSUME WorkspaceInv, NEW u \in Users, W!DisableLoads(u) PROVE WorkspaceKept
<1> DEFINE off == /\ W!Loads(wUser[u].read) /\ wUser[u].read.schema = "v1"
                  /\ ~wUser[u].read.enabled
<1>0. W!files' = W!files /\ UNCHANGED <<wLock, wLeads>> /\ wLock \in Users \cup {"stale", None}
  BY DEF WorkspaceInv, W!DisableLoads
<1>1. CASE ~W!Loads(wUser[u].read)
  BY <1>0, <1>1, WorkspaceAnswers DEF W!DisableLoads, W!files, W!Answers
<1>2. CASE off
  BY <1>0, <1>2, WorkspaceAnswers DEF W!DisableLoads, W!files, W!Answers
<1>3. CASE W!Loads(wUser[u].read) /\ ~off
  <2> DEFINE s == [W!Idle EXCEPT !.step = "publishing"]
  <2>1. s \in WorkspaceUser /\ s.step = "publishing" /\ s.place = None /\ s.answer = None
    BY WorkspaceIdle DEF WorkspaceUser, W!Steps
  <2>2. W!Goes(u, s) BY <1>3 DEF W!DisableLoads
  <2> HIDE DEF s
  <2> QED BY <1>0, <2>1, <2>2, WorkspaceDecides, WorkspaceAssumption
<1> QED BY <1>1, <1>2, <1>3

LEMMA WorkspaceReplaces ==
  ASSUME WorkspaceInv, NEW u \in Users, W!ReplaceSources(u) PROVE WorkspaceKept
<1>0. /\ wUser[u] \in WorkspaceUser /\ wUser[u].step = "publishing" /\ wUser[u].answer = None
      /\ wUser[u].place \notin Protected /\ wLock \in Users \cup {"stale", None}
      /\ wSources' = W!Source("v1", wUser[u].place)
      /\ UNCHANGED <<wDirs, wManifest, wLock, wLeads>>
  BY DEF WorkspaceInv, WorkspaceHeld, W!ReplaceSources, W!Is
<1> DEFINE s == [wUser[u] EXCEPT !.step = "verifying"]
<1>1. s \in WorkspaceUser /\ s.step = "verifying" /\ s.place = wUser[u].place /\ s.answer = None
  BY <1>0 DEF WorkspaceUser, W!Steps
<1>2. W!Goes(u, s) BY DEF W!ReplaceSources, W!Step
<1> HIDE DEF s
<1>3. /\ wSources' \in SourcesFile /\ wSources'.enabled = (wSources'.root # None)
      /\ wSources'.root \notin Protected
  BY <1>0 DEF W!Source, SourcesFile, WorkspaceUser
<1>4. Written(wSources') /\ wSources' # None
  BY <1>3, WorkspaceAssumption DEF Written, SourcesFile
<1>5. WorkspaceHeld(s, wDirs', wSources') BY <1>0, <1>1 DEF WorkspaceHeld
<1>6. wDirs' \in wDirs..W!Directories BY <1>0 DEF WorkspaceInv, W!Directories
<1> QED BY <1>0, <1>1, <1>2, <1>3, <1>4, <1>5, <1>6, WorkspaceGoes, BoundsAssumption DEF Words

LEMMA WorkspaceReadsSources ==
  ASSUME WorkspaceInv, NEW u \in Users
  PROVE  /\ \A place \in Roots : W!Enable(u, place) => WorkspaceKept
         /\ W!Disable(u) \/ W!LoadSettings(u) \/ W!ReadBack(u) => WorkspaceKept
<1>1. ASSUME NEW place \in Roots, W!Enable(u, place) PROVE WorkspaceKept
  BY <1>1, WorkspaceReads DEF W!Enable
<1>2. ASSUME W!Disable(u) \/ W!LoadSettings(u) PROVE WorkspaceKept
  BY <1>2, WorkspaceReads DEF W!Disable, W!LoadSettings
<1>3. ASSUME W!ReadBack(u) PROVE WorkspaceKept
  <2>1. wUser[u].place \in Roots \cup {None} /\ wUser[u].place \notin Protected
    BY <1>3 DEF WorkspaceInv, WorkspaceHeld, WorkspaceUser, W!ReadBack, W!Is
  <2> QED BY <1>3, <2>1, WorkspaceReads DEF W!ReadBack
<1> QED BY <1>1, <1>2, <1>3

LEMMA WorkspaceVerifies ==
  ASSUME WorkspaceInv, NEW u \in Users, W!Verify(u) PROVE WorkspaceKept
<1>0. /\ wUser[u].step = "confirming"
      /\ wUser[u].place \notin Protected /\ wUser[u].place \in Roots \cup {None}
      /\ wUser[u].read \in SourcesFile /\ wUser[u].read.enabled = (wUser[u].read.root # None)
      /\ W!files' = W!files /\ UNCHANGED <<wLock, wLeads>> /\ wLock \in Users \cup {"stale", None}
  BY DEF WorkspaceInv, WorkspaceHeld, WorkspaceUser, W!Verify, W!Is
<1>1. CASE W!Verified(wUser[u].read, wUser[u].place)
  <2>1. PICK answer \in {"configured", "disabled"} :
          /\ answer = IF wUser[u].place = None THEN "disabled" ELSE "configured"
          /\ W!Ends(u, answer, wUser[u].place)
    BY <1>1 DEF W!Verify
  <2>2. ASSUME answer = "configured"
        PROVE  wLeads[wUser[u].place] # None /\ W!BindingLed(u, wUser[u].place)
    <3>1. wUser[u].place # None /\ wUser[u].read.enabled BY <1>1, <2>1, <2>2 DEF W!Verified
    <3>2. wUser[u].place = wLeads[wUser[u].read.root]
      BY <1>0, <1>1, <3>1, LoadedOutside DEF W!Verified
    <3>3. wUser[u].read.root \in Roots BY <1>0, <3>1 DEF SourcesFile
    <3>4. wLeads[wUser[u].place] = wUser[u].place BY <3>1, <3>2, <3>3 DEF WorkspaceInv
    <3> QED BY <1>0, <3>1, <3>2, <3>4, BoundsAssumption DEF W!BindingLed, W!Is
  <2> QED BY <1>0, <2>1, <2>2, WorkspaceEnds
<1>2. CASE ~W!Verified(wUser[u].read, wUser[u].place)
  BY <1>0, <1>2, WorkspaceAnswers DEF W!Verify, W!files, W!Answers
<1> QED BY <1>1, <1>2

LEMMA WorkspaceLoads ==
  ASSUME WorkspaceInv, NEW u \in Users, W!SettingsLoad(u) PROVE WorkspaceKept
<1>0. /\ W!files' = W!files /\ UNCHANGED <<wLock, wLeads>> /\ wLock \in Users \cup {"stale", None}
      /\ wUser[u].read \in SourcesFile /\ wUser[u].read.enabled = (wUser[u].read.root # None)
  BY DEF WorkspaceInv, WorkspaceHeld, W!SettingsLoad, W!Is
<1>1. CASE W!Loads(wUser[u].read)
  <2>1. PICK place \in Roots \cup {None} : place \notin Protected /\ place = W!Root(wUser[u].read)
    BY <1>0, <1>1, LoadedOutside
  <2>2. W!Ends(u, "settings", place) BY <1>1, <2>1 DEF W!SettingsLoad
  <2> QED BY <1>0, <2>1, <2>2, WorkspaceEnds
<1>2. CASE ~W!Loads(wUser[u].read)
  BY <1>0, <1>2, WorkspaceAnswers DEF W!SettingsLoad, W!files, W!Answers
<1> QED BY <1>1, <1>2

LEMMA WorkspaceDies == ASSUME WorkspaceInv, NEW u \in Users, W!Die(u) PROVE WorkspaceKept
<1>1. W!Answer(u, None)
  <2>1. [W!Idle EXCEPT !.answer = None] = W!Idle BY DEF W!Idle
  <2> QED BY <2>1 DEF W!Die, W!Answer
<1>2. wLock' \in Users \cup {"stale", None} BY DEF WorkspaceInv, W!Die
<1> QED BY <1>1, <1>2, WorkspaceAnswers, BoundsAssumption DEF W!Die, W!files, W!Answers, Words

\* Directories outside change, or somebody takes the lock away.
LEMMA WorkspaceAround ==
  ASSUME WorkspaceInv, (\E place \in Roots : W!Move(place)) \/ W!RemoveLock PROVE WorkspaceKept
<1>1. UNCHANGED <<wDirs, wSources, wManifest, wUser>> BY DEF W!Move, W!RemoveLock, W!files
<1>2. wLock' \in Users \cup {"stale", None} BY DEF WorkspaceInv, W!Move, W!RemoveLock
<1>3. /\ wLeads' \in [Roots -> Roots \cup {None}]
      /\ \A place \in Roots : wLeads'[place] # None => wLeads'[wLeads'[place]] = wLeads'[place]
  BY DEF WorkspaceInv, W!Move, W!RemoveLock
<1>4. W!IdentityStep /\ W!CatalogStep
  BY <1>1, BoundsAssumption DEF W!IdentityStep, W!CatalogStep, W!Initialized, Words
<1> QED
  BY <1>1, <1>2, <1>3, <1>4
     DEF WorkspaceInv, WorkspaceKept, WorkspaceHeld, Written, W!InitializedComplete, W!Initialized

LEMMA WorkspaceKeeps == WorkspaceInv /\ W!Next => WorkspaceKept
BY WorkspaceBegins, WorkspaceMakes, WorkspaceLocks, WorkspaceMakesDirectory,
   WorkspacePublishesSources, WorkspacePublishesManifest, WorkspaceWriteFails, WorkspaceUnlocks,
   WorkspaceReadsSources, WorkspaceEnableLoads, WorkspaceResolves, WorkspaceProbes,
   WorkspaceDisables, WorkspaceReplaces, WorkspaceVerifies, WorkspaceLoads,
   WorkspaceDies, WorkspaceAround
   DEF W!Next, W!Initialize, W!Configure

-----------------------------------------------------------------------------
(* The migration: a source is analyzed once, and what is cut over to holds *)
(* that export and answers for it.                                         *)

Exports == {M!Export(s) : s \in {s \in Sources : M!Exportable(s)}}
MigrationSteps == {"checked", "created", "imported", "verified", "reported"}
MigrationOperator ==
  [step : M!Steps, export : Exports \cup {None}, target : Targets \cup {None}, cutover : BOOLEAN]

\* What a command between two steps relies on: the backup is there to stay, and
\* nobody else writes a target that was created for it.
OperatorHeld(s, backup, target) ==
  /\ s.step # "idle" => s.export \in Exports
  /\ s.step \in MigrationSteps \cup {"backed up"} => backup # None /\ s.export = backup
  /\ s.step \in MigrationSteps => s.target \in Targets
  /\ s.step \in MigrationSteps \ {"checked"} => target[s.target] # None
  /\ s.step \in {"imported", "verified", "reported"} => M!Importable(M!Payload(s.export))
  /\ s.step \in {"verified", "reported"} => target[s.target] = M!Payload(s.export)
  /\ s.step = "reported" => M!Parity(M!Payload(s.export), s.export)

MigrationInv ==
  /\ mSource \in Sources /\ mEnv \in {"source"} \cup Targets
  /\ mBackup \in Exports \cup {None} /\ mAnalysis \in {None, mBackup}
  /\ mTarget \in [Targets -> {None, M!Empty} \cup {M!Payload(e) : e \in Exports}]
  /\ mOutcome # None => mOutcome.target \in Targets /\ mTarget[mOutcome.target] # None
  /\ mOperator \in [Users -> MigrationOperator]
  /\ \A o \in Users : OperatorHeld(mOperator[o], mBackup, mTarget)
  /\ mEnv # "source" =>
       /\ mBackup # None /\ mTarget[mEnv] = M!Payload(mBackup)
       /\ M!Importable(M!Payload(mBackup)) /\ M!Parity(M!Payload(mBackup), mBackup)

\* An export of a source is sound.
LEMMA LatestChosen ==
  ASSUME NEW s \in Sources, NEW key \in M!Keys(s)
  PROVE  /\ M!Chosen(s, key) \in M!Approved(s.events) /\ M!Chosen(s, key).key = key
         /\ \A e \in M!Approved(s.events) : e.key = key => M!Chosen(s, key).revision >= e.revision
<1> DEFINE events == {e \in M!Approved(s.events) : e.key = key}
<1>1. M!Latest(events) # {} BY SourceAssumption
<1>2. M!Chosen(s, key) \in M!Latest(events) BY <1>1 DEF M!Chosen
<1>3. M!Chosen(s, key) \in events /\ \A e \in events : e.revision <= M!Chosen(s, key).revision
  BY <1>2 DEF M!Latest
<1>4. \A e \in M!Approved(s.events) : e.revision \in Nat BY SourceAssumption DEF M!Approved
<1> QED BY <1>3, <1>4

LEMMA FamiliesExported ==
  ASSUME NEW s PROVE M!Ids(M!Export(s).families) = M!Ids(s.families)
<1> DEFINE out(f) ==
      [id |-> f.id, scope |-> f.scope, names |-> f.terms,
       retrieval |-> UNION {d.terms : d \in {d \in s.documents : d.family = f.id}},
       profile |-> M!Latest({p \in M!Approved(s.profiles) : p.family = f.id})]
<1>1. M!Export(s).families = {out(f) : f \in s.families} BY DEF M!Export, M!ExportedFamilies
<1>2. \A f : out(f).id = f.id OBVIOUS
<1> HIDE DEF out
<1> QED BY <1>1, <1>2 DEF M!Ids

LEMMA LessonExported ==
  ASSUME NEW s, NEW row \in M!Export(s).lessons
  PROVE  /\ row.id \in M!Keys(s) /\ row.family = M!Chosen(s, row.id).family
         /\ row.terms = M!Chosen(s, row.id).terms
         /\ row.supersedes = IF M!Chosen(s, row.id).supersedes = None THEN None
                             ELSE M!Superseded(s, M!Chosen(s, row.id))
<1> DEFINE lesson(key) ==
      LET e == M!Chosen(s, key)
      IN [id |-> key, scope |-> e.scope, family |-> e.family, terms |-> e.terms,
          supersedes |-> IF e.supersedes = None THEN None ELSE M!Superseded(s, e)]
<1>1. row \in M!ExportedLessons(s) BY DEF M!Export
<1>2. PICK key \in M!Keys(s) : row = lesson(key) BY <1>1, Zenon DEF M!ExportedLessons
<1>3. row.id = key BY <1>2
<1> QED BY <1>2, <1>3

LEMMA KeyExported ==
  ASSUME NEW s, NEW key \in M!Keys(s) PROVE \E row \in M!Export(s).lessons : row.id = key
<1> DEFINE lesson(k) ==
      LET e == M!Chosen(s, k)
      IN [id |-> k, scope |-> e.scope, family |-> e.family, terms |-> e.terms,
          supersedes |-> IF e.supersedes = None THEN None ELSE M!Superseded(s, e)]
<1>1. lesson(key) \in M!ExportedLessons(s) BY Zenon DEF M!ExportedLessons
<1>2. M!Export(s).lessons = M!ExportedLessons(s) BY DEF M!Export
<1>3. lesson(key).id = key OBVIOUS
<1> QED BY <1>1, <1>2, <1>3

LEMMA ExportIsSound ==
  ASSUME NEW s \in Sources, M!Exportable(s) PROVE M!ExportSound(M!Export(s))
<1> DEFINE lessons == M!Export(s).lessons
<1>1. ASSUME NEW row \in M!Export(s).assertions
      PROVE  row.family \in M!Ids(s.families) \cup {None}
  BY DEF M!Export, M!ExportedAssertions, M!Exportable
<1>2. ASSUME NEW row \in lessons PROVE row.family \in M!Ids(s.families) \cup {None}
  BY LessonExported DEF M!Exportable
<1>3. ASSUME NEW row \in lessons PROVE row.supersedes \in M!Ids(lessons) \cup {None}
  <2> DEFINE e == M!Chosen(s, row.id)
  <2>1. row.id \in M!Keys(s) /\ row.supersedes = IF e.supersedes = None THEN None ELSE M!Superseded(s, e)
    BY LessonExported
  <2>2. M!Resolves(s, e) BY <2>1 DEF M!Exportable
  <2> HIDE DEF e
  <2>3. CASE e.supersedes = None BY <2>1, <2>3
  <2>4. CASE e.supersedes # None
    <3>1. M!Superseded(s, e) \in M!Keys(s) BY <2>2, <2>4 DEF M!Resolves, M!Superseded
    <3> QED BY <2>1, <2>4, <3>1, KeyExported DEF M!Ids
  <2> QED BY <2>3, <2>4
<1>4. ASSUME NEW row \in lessons, NEW other \in lessons, row.id = other.id PROVE row = other
  BY <1>4 DEF M!Export, M!ExportedLessons
<1> QED BY <1>1, <1>2, <1>3, <1>4, FamiliesExported DEF M!ExportSound

LEMMA MigrationExportsSound == MigrationInv => M!ExportsSound
<1> SUFFICES ASSUME MigrationInv PROVE M!ExportsSound OBVIOUS
<1>1. mSource \in Sources BY DEF MigrationInv
<1>2. ASSUME NEW e \in M!Approved(mSource.events)
      PROVE  \E row \in M!Export(mSource).lessons :
               /\ row.id = e.key
               /\ \E latest \in M!Approved(mSource.events) :
                    /\ latest.key = e.key /\ latest.revision >= e.revision
                    /\ row.terms = latest.terms /\ row.family = latest.family
  <2>1. e.key \in M!Keys(mSource) BY DEF M!Keys
  <2>2. PICK row \in M!Export(mSource).lessons : row.id = e.key BY <2>1, KeyExported
  <2> QED BY <1>1, <2>1, <2>2, LatestChosen, LessonExported
<1>3. mAnalysis # None => M!ExportSound(mAnalysis)
  BY ExportIsSound DEF MigrationInv, Exports
<1> QED BY <1>1, <1>2, <1>3, ExportIsSound DEF M!ExportsSound

\* A target that answers every question about its families has no two of one
\* scope with a term in common.
LEMMA FamiliesApart ==
  ASSUME NEW s \in Sources, M!Parity(M!Payload(M!Export(s)), M!Export(s)),
         NEW f \in M!Payload(M!Export(s)).families, NEW g \in M!Payload(M!Export(s)).families,
         f # g, f.scope = g.scope
  PROVE  f.terms \cap g.terms = {}
<1> DEFINE e == M!Export(s)
           p == M!Payload(e)
           row(x) == [id |-> x.id, scope |-> x.scope, terms |-> x.names \cup x.retrieval,
                      profile |-> x.profile, status |-> "active"]
           out(x) == [id |-> x.id, scope |-> x.scope, names |-> x.terms,
                      retrieval |-> UNION {d.terms : d \in {d \in s.documents : d.family = x.id}},
                      profile |-> M!Latest({q \in M!Approved(s.profiles) : q.family = x.id})]
<1>1. p.families = {row(x) : x \in e.families} BY DEF M!Payload
<1>2. e.families = {out(x) : x \in s.families} BY DEF M!Export, M!ExportedFamilies
<1>3. PICK f1 \in e.families : f = row(f1) BY <1>1
<1>4. PICK g1 \in e.families : g = row(g1) BY <1>1
<1>5. f1.id # g1.id
  <2>1. PICK f2 \in s.families : f1 = out(f2) BY <1>2
  <2>2. PICK g2 \in s.families : g1 = out(g2) BY <1>2
  <2>3. f1.id = f2.id /\ g1.id = g2.id BY <2>1, <2>2
  <2>4. f2 # g2 BY <1>3, <1>4, <2>1, <2>2
  <2> QED BY <2>3, <2>4, SourceAssumption
<1> SUFFICES ASSUME NEW x, x \in f.terms, x \in g.terms PROVE FALSE OBVIOUS
<1> DEFINE q == [kind |-> "families", id |-> f1.id, scope |-> f1.scope, family |-> None, term |-> x]
<1>6. x \in f1.names \cup f1.retrieval BY <1>3
<1>7. q \in M!ProbesOf("families", f1, None, f1.names \cup f1.retrieval) BY <1>6 DEF M!ProbesOf
<1>8. q \in M!Probes(e) BY <1>7 DEF M!Probes
<1>9. M!Answered(p, q) BY <1>8 DEF M!Parity
<1>10. M!Ids(M!Matches(p, f1.scope, x)) = {f1.id} BY <1>9 DEF M!Answered
<1>11. g \in M!Matches(p, f1.scope, x) BY <1>3, <1>4 DEF M!Matches
<1>12. g.id = g1.id BY <1>4
<1> QED BY <1>5, <1>10, <1>11, <1>12 DEF M!Ids

LEMMA MigrationServes == MigrationInv => M!CutoverServes
<1> SUFFICES ASSUME MigrationInv, mEnv # "source"
             PROVE  /\ mBackup # None /\ mTarget[mEnv] = M!Payload(mBackup)
                    /\ M!Importable(mTarget[mEnv])
                    /\ \A f, g \in mTarget[mEnv].families :
                         f # g /\ f.scope = g.scope => f.terms \cap g.terms = {}
  BY DEF M!CutoverServes
<1>1. /\ mBackup \in Exports /\ mTarget[mEnv] = M!Payload(mBackup) /\ mBackup # None
      /\ M!Importable(M!Payload(mBackup)) /\ M!Parity(M!Payload(mBackup), mBackup)
  BY DEF MigrationInv
<1>2. PICK s \in Sources : mBackup = M!Export(s) BY <1>1 DEF Exports
<1> QED BY <1>1, <1>2, FamiliesApart

LEMMA MigrationIdle ==
  /\ M!Idle \in MigrationOperator /\ M!Idle.step = "idle"
BY DEF M!Idle, MigrationOperator, M!Steps

LEMMA MigrationTyped == MigrationInv => M!TypeOK
<1> SUFFICES ASSUME MigrationInv PROVE M!TypeOK OBVIOUS
<1>1. \A o \in Users : mOperator[o].step \in M!Steps /\ mOperator[o].target \in Targets \cup {None}
  BY DEF MigrationInv, MigrationOperator
<1>2. \A e : DOMAIN M!Payload(e) = DOMAIN M!Empty BY DEF M!Payload, M!Empty
<1>3. \A t \in Targets : mTarget[t] # None => DOMAIN mTarget[t] = DOMAIN M!Empty
  BY <1>2 DEF MigrationInv
<1> QED BY <1>1, <1>3 DEF MigrationInv, M!TypeOK

LEMMA MigrationStarts == M!Init => MigrationInv
<1> SUFFICES ASSUME M!Init PROVE MigrationInv OBVIOUS
<1>1. mOperator \in [Users -> MigrationOperator] /\ \A o \in Users : mOperator[o] = M!Idle
  BY MigrationIdle DEF M!Init
<1>2. \A o \in Users : OperatorHeld(mOperator[o], mBackup, mTarget)
  BY <1>1, MigrationIdle DEF OperatorHeld, MigrationSteps
<1> QED BY <1>1, <1>2 DEF M!Init, MigrationInv

LEMMA ExportsThere ==
  ASSUME NEW e \in Exports
  PROVE  e # None /\ M!Payload(e) # None
BY SourceAssumption DEF Exports

\* A step of o: the backup and the targets that are there stay there, or a
\* target becomes the payload of the backup.
LEMMA MigrationGoes ==
  ASSUME MigrationInv, NEW o \in Users, NEW s \in MigrationOperator, M!Goes(o, s),
         mSource' = mSource, mBackup' \in Exports \cup {None}, mAnalysis' \in {None, mBackup'},
         mBackup # None => mBackup' = mBackup,
         \/ mTarget' = mTarget
         \/ /\ mBackup # None
            /\ \E t \in Targets :
                 /\ mTarget' = [mTarget EXCEPT ![t] = M!Payload(mBackup)]
                 /\ mTarget[t] # None
         \/ \E t \in Targets : mTarget' = [mTarget EXCEPT ![t] = M!Empty] /\ mTarget[t] = None,
         \/ mOutcome' = mOutcome
         \/ mOutcome' # None => mOutcome'.target \in Targets /\ mTarget'[mOutcome'.target] # None,
         \/ mEnv' = mEnv
         \/ /\ mEnv' \in Targets /\ mBackup # None /\ mTarget'[mEnv'] = M!Payload(mBackup)
            /\ M!Importable(M!Payload(mBackup)) /\ M!Parity(M!Payload(mBackup), mBackup),
         OperatorHeld(s, mBackup', mTarget')
  PROVE  MigrationInv'
<1>1. /\ mOperator' \in [Users -> MigrationOperator] /\ mOperator'[o] = s
      /\ \A v \in Users \ {o} : mOperator'[v] = mOperator[v]
  BY DEF M!Goes, MigrationInv
<1>2. /\ mTarget' \in [Targets -> {None, M!Empty} \cup {M!Payload(e) : e \in Exports}]
      /\ \A t \in Targets : mTarget[t] # None => mTarget'[t] # None
      /\ \A t \in Targets : mTarget[t] # None /\ mTarget'[t] # mTarget[t] =>
           mBackup # None /\ mTarget'[t] = M!Payload(mBackup)
  BY ExportsThere DEF MigrationInv
<1>3. ASSUME NEW v \in Users PROVE OperatorHeld(mOperator'[v], mBackup', mTarget')
  <2>1. CASE v = o BY <1>1, <2>1
  <2>2. CASE v # o
    <3>1. mOperator'[v] = mOperator[v] /\ OperatorHeld(mOperator[v], mBackup, mTarget)
      BY <1>1, <2>2 DEF MigrationInv
    <3> QED BY <1>2, <3>1, ExportsThere DEF OperatorHeld, MigrationSteps, MigrationInv
  <2> QED BY <2>1, <2>2
<1>4. mEnv' # "source" =>
        /\ mBackup' # None /\ mTarget'[mEnv'] = M!Payload(mBackup')
        /\ M!Importable(M!Payload(mBackup')) /\ M!Parity(M!Payload(mBackup'), mBackup')
  BY <1>2, ExportsThere DEF MigrationInv
<1>5. mOutcome' # None => mOutcome'.target \in Targets /\ mTarget'[mOutcome'.target] # None
  BY <1>2 DEF MigrationInv
<1> QED BY <1>1, <1>2, <1>3, <1>4, <1>5 DEF MigrationInv

\* A step of o that leaves the databases and the files alone.
LEMMA MigrationOn ==
  ASSUME MigrationInv, NEW o \in Users, NEW s \in MigrationOperator, M!Goes(o, s),
         UNCHANGED <<mSource, mAnalysis, mBackup, mTarget, mOutcome, mEnv>>,
         OperatorHeld(s, mBackup, mTarget)
  PROVE  MigrationInv'
BY MigrationGoes DEF MigrationInv

LEMMA MigrationAnalyzes ==
  ASSUME MigrationInv, NEW o \in Users, M!Analyze(o) PROVE MigrationInv'
<1> DEFINE s == [M!Idle EXCEPT !.step = "exported", !.export = M!Export(mSource)]
<1>0. M!Export(mSource) \in Exports BY DEF M!Analyze, MigrationInv, Exports
<1>1. s \in MigrationOperator /\ s.step = "exported" /\ s.export \in Exports
  BY <1>0, MigrationIdle DEF MigrationOperator, M!Steps
<1>2. M!Goes(o, s) BY DEF M!Analyze
<1> HIDE DEF s
<1>3. OperatorHeld(s, mBackup, mTarget) BY <1>1 DEF OperatorHeld, MigrationSteps
<1> QED BY <1>1, <1>2, <1>3, MigrationOn DEF M!Analyze

LEMMA MigrationBacksUp ==
  ASSUME MigrationInv, NEW o \in Users, M!Backup(o) PROVE MigrationInv'
<1>0. /\ mOperator[o] \in MigrationOperator /\ mOperator[o].export \in Exports
      /\ mBackup \in {None, mOperator[o].export} /\ mBackup' = mOperator[o].export
      /\ UNCHANGED <<mSource, mAnalysis, mTarget, mOutcome, mEnv>>
  BY DEF M!Backup, M!Is, MigrationInv, OperatorHeld
<1> DEFINE s == [mOperator[o] EXCEPT !.step = "backed up"]
<1>1. s \in MigrationOperator /\ s.step = "backed up" /\ s.export = mOperator[o].export
  BY <1>0 DEF MigrationOperator, M!Steps
<1>2. M!Goes(o, s) BY DEF M!Backup, M!Step
<1> HIDE DEF s
<1>3. OperatorHeld(s, mBackup', mTarget')
  BY <1>0, <1>1, ExportsThere DEF OperatorHeld, MigrationSteps
<1>4. mAnalysis' \in {None, mBackup'} BY <1>0 DEF MigrationInv
<1> QED BY <1>0, <1>1, <1>2, <1>3, <1>4, MigrationGoes

LEMMA MigrationWrites ==
  ASSUME MigrationInv, NEW o \in Users, M!WriteAnalysis(o) PROVE MigrationInv'
<1>0. mOperator[o].export = mBackup
  BY DEF M!WriteAnalysis, M!Is, MigrationInv, OperatorHeld
<1>1. OperatorHeld(M!Idle, mBackup', mTarget') BY MigrationIdle DEF OperatorHeld, MigrationSteps
<1> QED BY <1>0, <1>1, MigrationIdle, MigrationGoes DEF M!WriteAnalysis, MigrationInv

LEMMA MigrationExecutes ==
  ASSUME MigrationInv, NEW o \in Users, NEW t \in Targets, NEW cutover \in BOOLEAN,
         M!Execute(o, t, cutover)
  PROVE  MigrationInv'
<1>0. /\ M!Export(mSource) \in Exports /\ M!Export(mSource) = mBackup /\ mBackup # None
      /\ UNCHANGED <<mSource, mAnalysis, mBackup, mTarget, mOutcome, mEnv>>
  BY DEF M!Execute, M!StillAnalyzed, MigrationInv, Exports
<1> DEFINE s == [step |-> "checked", export |-> M!Export(mSource), target |-> t, cutover |-> cutover]
<1>1. /\ s \in MigrationOperator /\ s.step = "checked" /\ s.export = M!Export(mSource)
      /\ s.target = t
  BY <1>0 DEF MigrationOperator, M!Steps
<1>2. M!Goes(o, s) BY DEF M!Execute
<1> HIDE DEF s
<1>3. OperatorHeld(s, mBackup, mTarget) BY <1>0, <1>1 DEF OperatorHeld, MigrationSteps
<1> QED BY <1>0, <1>1, <1>2, <1>3, MigrationOn

\* What every later step of an execution holds.
LEMMA MigrationExecuting ==
  ASSUME MigrationInv, NEW o \in Users, mOperator[o].step \in MigrationSteps
  PROVE  /\ mOperator[o] \in MigrationOperator /\ OperatorHeld(mOperator[o], mBackup, mTarget)
         /\ mOperator[o].target \in Targets /\ mOperator[o].export \in Exports
         /\ mOperator[o].export = mBackup /\ mBackup # None
         /\ \A step \in M!Steps :
              /\ [mOperator[o] EXCEPT !.step = step] \in MigrationOperator
              /\ [mOperator[o] EXCEPT !.step = step].step = step
              /\ [mOperator[o] EXCEPT !.step = step].export = mOperator[o].export
              /\ [mOperator[o] EXCEPT !.step = step].target = mOperator[o].target
<1>1. mOperator[o] \in MigrationOperator /\ OperatorHeld(mOperator[o], mBackup, mTarget)
  BY DEF MigrationInv
<1>2. mOperator[o].step # "idle" BY DEF MigrationSteps
<1>3. ASSUME NEW step \in M!Steps
      PROVE  /\ [mOperator[o] EXCEPT !.step = step] \in MigrationOperator
             /\ [mOperator[o] EXCEPT !.step = step].step = step
             /\ [mOperator[o] EXCEPT !.step = step].export = mOperator[o].export
             /\ [mOperator[o] EXCEPT !.step = step].target = mOperator[o].target
  BY <1>1 DEF MigrationOperator
<1> QED BY <1>1, <1>2, <1>3 DEF OperatorHeld

LEMMA MigrationCreates ==
  ASSUME MigrationInv, NEW o \in Users, M!Create(o) PROVE MigrationInv'
<1>0. mOperator[o].step = "checked" /\ mOperator[o].step \in MigrationSteps
  BY DEF M!Create, M!Is, MigrationSteps
<1> DEFINE s == [mOperator[o] EXCEPT !.step = "created"]
           t == mOperator[o].target
<1>1. /\ s \in MigrationOperator /\ s.step = "created" /\ s.export = mOperator[o].export
      /\ s.target = t /\ t \in Targets /\ mOperator[o].export \in Exports
      /\ mOperator[o].export = mBackup /\ mBackup # None
  BY <1>0, MigrationExecuting DEF M!Steps
<1>2. M!Goes(o, s) /\ mTarget[t] = None /\ mTarget' = [mTarget EXCEPT ![t] = M!Empty]
  BY DEF M!Create, M!Step, M!MayCreate
<1> HIDE DEF s, t
<1>3. mTarget'[t] = M!Empty /\ M!Empty # None
  BY <1>1, <1>2, TargetAssumption DEF MigrationInv
<1>4. OperatorHeld(s, mBackup', mTarget')
  BY <1>1, <1>3 DEF OperatorHeld, MigrationSteps, M!Create
<1> QED BY <1>1, <1>2, <1>4, MigrationGoes DEF M!Create, MigrationInv

LEMMA MigrationImports ==
  ASSUME MigrationInv, NEW o \in Users, M!Import(o) PROVE MigrationInv'
<1>0. mOperator[o].step = "created" /\ mOperator[o].step \in MigrationSteps
  BY DEF M!Import, M!Is, MigrationSteps
<1> DEFINE s == [mOperator[o] EXCEPT !.step = "imported"]
           t == mOperator[o].target
<1>1. /\ s \in MigrationOperator /\ s.step = "imported" /\ s.export = mOperator[o].export
      /\ s.target = t /\ t \in Targets /\ mOperator[o].export \in Exports
      /\ mOperator[o].export = mBackup /\ mBackup # None
  BY <1>0, MigrationExecuting DEF M!Steps
<1>2. /\ M!Goes(o, s) /\ mTarget' = [mTarget EXCEPT ![t] = M!Payload(mBackup)]
      /\ M!Importable(M!Payload(mBackup))
  BY <1>1 DEF M!Import, M!Step
<1>3. mTarget[t] # None BY <1>0, MigrationExecuting DEF OperatorHeld, MigrationSteps
<1> HIDE DEF s, t
<1>4. mTarget'[t] = M!Payload(mBackup) BY <1>1, <1>2 DEF MigrationInv
<1>5. OperatorHeld(s, mBackup', mTarget')
  BY <1>1, <1>2, <1>4, ExportsThere DEF OperatorHeld, MigrationSteps, M!Import
<1> QED BY <1>1, <1>2, <1>3, <1>5, MigrationGoes DEF M!Import, MigrationInv

LEMMA MigrationVerifies ==
  ASSUME MigrationInv, NEW o \in Users, M!Verify(o) PROVE MigrationInv'
<1>0. mOperator[o].step = "imported" /\ mOperator[o].step \in MigrationSteps
  BY DEF M!Verify, M!Is, MigrationSteps
<1> DEFINE s == [mOperator[o] EXCEPT !.step = "verified"]
<1>1. /\ s \in MigrationOperator /\ s.step = "verified" /\ s.export = mOperator[o].export
      /\ s.target = mOperator[o].target /\ OperatorHeld(mOperator[o], mBackup, mTarget)
  BY <1>0, MigrationExecuting DEF M!Steps
<1>2. M!Goes(o, s) BY DEF M!Verify, M!Step
<1> HIDE DEF s
<1>3. OperatorHeld(s, mBackup, mTarget)
  BY <1>0, <1>1 DEF OperatorHeld, MigrationSteps, M!Verify
<1> QED BY <1>1, <1>2, <1>3, MigrationOn DEF M!Verify

LEMMA MigrationReports ==
  ASSUME MigrationInv, NEW o \in Users, M!WriteOutcome(o) PROVE MigrationInv'
<1>0. mOperator[o].step = "verified" /\ mOperator[o].step \in MigrationSteps
  BY DEF M!WriteOutcome, M!Is, MigrationSteps
<1>1. /\ OperatorHeld(mOperator[o], mBackup, mTarget) /\ mOperator[o].target \in Targets
      /\ mTarget[mOperator[o].target] # None
      /\ mTarget[mOperator[o].target] = M!Payload(mOperator[o].export)
  BY <1>0, MigrationExecuting DEF OperatorHeld, MigrationSteps
<1>2. mOutcome'.target = mOperator[o].target /\ UNCHANGED <<mSource, mAnalysis, mBackup, mTarget, mEnv>>
  BY DEF M!WriteOutcome
<1> DEFINE passed == M!Parity(mTarget[mOperator[o].target], mOperator[o].export)
<1>3. CASE passed /\ mOperator[o].cutover
  <2> DEFINE s == [mOperator[o] EXCEPT !.step = "reported"]
  <2>1. /\ s \in MigrationOperator /\ s.step = "reported" /\ s.export = mOperator[o].export
        /\ s.target = mOperator[o].target
    BY <1>0, MigrationExecuting DEF M!Steps
  <2>2. M!Goes(o, s) BY <1>3 DEF M!WriteOutcome, M!Step
  <2> HIDE DEF s
  <2>3. OperatorHeld(s, mBackup, mTarget)
    BY <1>0, <1>1, <1>3, <2>1 DEF OperatorHeld, MigrationSteps
  <2> QED BY <1>1, <1>2, <2>1, <2>2, <2>3, MigrationGoes DEF MigrationInv
<1>4. CASE ~(passed /\ mOperator[o].cutover)
  <2>1. M!Goes(o, M!Idle) BY <1>4 DEF M!WriteOutcome
  <2>2. OperatorHeld(M!Idle, mBackup, mTarget) BY MigrationIdle DEF OperatorHeld, MigrationSteps
  <2> QED BY <1>1, <1>2, <2>1, <2>2, MigrationIdle, MigrationGoes DEF MigrationInv
<1> QED BY <1>3, <1>4

LEMMA MigrationCutsOver ==
  ASSUME MigrationInv, NEW o \in Users, M!CutOver(o) PROVE MigrationInv'
<1>0. mOperator[o].step = "reported" /\ mOperator[o].step \in MigrationSteps
  BY DEF M!CutOver, M!Is, MigrationSteps
<1>1. /\ OperatorHeld(mOperator[o], mBackup, mTarget) /\ mOperator[o].target \in Targets
      /\ mOperator[o].export = mBackup /\ mBackup # None
  BY <1>0, MigrationExecuting
<1>2. /\ mEnv' \in Targets /\ mTarget'[mEnv'] = M!Payload(mBackup)
      /\ M!Importable(M!Payload(mBackup)) /\ M!Parity(M!Payload(mBackup), mBackup)
  BY <1>0, <1>1 DEF M!CutOver, OperatorHeld
<1>3. OperatorHeld(M!Idle, mBackup, mTarget) BY MigrationIdle DEF OperatorHeld, MigrationSteps
<1> QED BY <1>1, <1>2, <1>3, MigrationIdle, MigrationGoes DEF M!CutOver, MigrationInv

LEMMA MigrationStops ==
  ASSUME MigrationInv, NEW o \in Users, M!Stop(o) PROVE MigrationInv'
<1>1. OperatorHeld(M!Idle, mBackup, mTarget) BY MigrationIdle DEF OperatorHeld, MigrationSteps
<1> QED BY <1>1, MigrationIdle, MigrationOn DEF M!Stop

LEMMA MigrationChanges == ASSUME MigrationInv, M!Change PROVE MigrationInv'
BY DEF MigrationInv, M!Change

LEMMA MigrationKeeps == MigrationInv /\ M!Next => MigrationInv'
BY MigrationAnalyzes, MigrationBacksUp, MigrationWrites, MigrationExecutes, MigrationCreates,
   MigrationImports, MigrationVerifies, MigrationReports, MigrationCutsOver, MigrationStops,
   MigrationChanges
   DEF M!Next, M!Command

-----------------------------------------------------------------------------
(* The knowledge database: rows are there to stay, and what was read of    *)
(* them once stays true of them.                                           *)

Statuses == {"active", "superseded", "revoked"}
Nodes ==
  [families : SUBSET Families, assertions : SUBSET Families,
   lessons : SUBSET [id : Lessons, status : Statuses]]
KnowledgeClient ==
  [step : K!Reading, read : Nodes, family : Families \cup {None}, found : BOOLEAN]

Rows(rows) == {id \in DOMAIN rows : rows[id] # None}
\* What is shown was stored, and a lesson shown retired is retired.
Within(shown, families, lessons) ==
  /\ shown.families \cup shown.assertions \subseteq Rows(families)
  /\ \A node \in shown.lessons :
       /\ node.id \in Rows(lessons)
       /\ node.status # "active" => lessons[node.id].status = node.status
\* A row that is stored stays stored, a lesson that is retired as it is.
Grown(rows, then) == Rows(rows) \subseteq Rows(then)
Retired(lessons, then) ==
  \A l \in Rows(lessons) :
    /\ then[l] # None /\ then[l].of = lessons[l].of
    /\ lessons[l].status # "active" => then[l] = lessons[l]

\* An analysis was made before it is reviewed, a review is of the last one.
Reviewed(row) ==
  row # None =>
    /\ row.review = K!Verdict(row.status)
    /\ row.status # "started" => row.analysis # None
PublishedAs(row, schema, families) ==
  row # None /\ row.status = "published" =>
    schema = "ready" /\ families[row.family] = [name |-> row.name, knowledge |-> row.analysis]

KnowledgeInv ==
  /\ kSchema \in {"none", "foreign", "ready"}
  /\ kFamily \in [Families -> K!Family \cup {None}]
  /\ kLesson \in [Lessons -> K!Lesson \cup {None}]
  /\ kOnboarding \in [Onboardings -> K!Onboarding \cup {None}]
  /\ kClient \in [Clients -> KnowledgeClient] /\ kGraph \in Nodes
  /\ kKnowledge \in {"not_executed", "unavailable", "completed_no_match", "completed_matches"}
  /\ kSchema # "ready" => Rows(kFamily) = {} /\ Rows(kLesson) = {}
  /\ \A o \in Onboardings : Reviewed(kOnboarding[o]) /\ PublishedAs(kOnboarding[o], kSchema, kFamily)
  /\ Within(kGraph, kFamily, kLesson)
  /\ \A c \in Clients : Within(kClient[c].read, kFamily, kLesson)

KnowledgeKept == KnowledgeInv' /\ K!RowsStep

LEMMA KnowledgeTyped == KnowledgeInv => K!TypeOK /\ K!PublishedIsStored /\ K!GraphWithin
<1> SUFFICES ASSUME KnowledgeInv PROVE K!TypeOK /\ K!PublishedIsStored /\ K!GraphWithin OBVIOUS
<1>1. K!TypeOK BY DEF KnowledgeInv, KnowledgeClient, Reviewed, K!TypeOK
<1>2. K!PublishedIsStored BY DEF KnowledgeInv, PublishedAs, K!PublishedIsStored, K!Row
<1>3. K!GraphWithin BY DEF KnowledgeInv, Within, Rows, K!GraphWithin, K!Stored
<1> QED BY <1>1, <1>2, <1>3

LEMMA KnowledgeIdle ==
  /\ K!Idle \in KnowledgeClient /\ K!Idle.step = "idle" /\ K!Idle.read = K!Nothing
  /\ K!Nothing \in Nodes
  /\ \A families, lessons : Within(K!Nothing, families, lessons)
<1>1. K!Nothing \in Nodes BY DEF K!Nothing, Nodes
<1>2. K!Idle \in KnowledgeClient /\ K!Idle.step = "idle" /\ K!Idle.read = K!Nothing
  BY <1>1 DEF K!Idle, KnowledgeClient, K!Reading
<1> QED BY <1>1, <1>2 DEF Within, K!Nothing

LEMMA KnowledgeStarts == K!Init => KnowledgeInv
<1> SUFFICES ASSUME K!Init PROVE KnowledgeInv OBVIOUS
<1>1. kClient \in [Clients -> KnowledgeClient] /\ \A c \in Clients : kClient[c].read = K!Nothing
  BY KnowledgeIdle DEF K!Init
<1>2. Rows(kFamily) = {} /\ Rows(kLesson) = {} BY DEF K!Init, Rows
<1>3. \A o \in Onboardings : kOnboarding[o] = None BY DEF K!Init
<1> QED BY <1>1, <1>2, <1>3, KnowledgeIdle DEF K!Init, KnowledgeInv, Reviewed, PublishedAs

LEMMA WithinGrown ==
  ASSUME NEW shown, NEW families, NEW lessons, NEW families2, NEW lessons2,
         Within(shown, families, lessons), Grown(families, families2),
         Grown(lessons, lessons2), Retired(lessons, lessons2)
  PROVE  Within(shown, families2, lessons2)
<1>1. ASSUME NEW node \in shown.lessons
      PROVE  /\ node.id \in Rows(lessons2)
             /\ node.status # "active" => lessons2[node.id].status = node.status
  <2>1. /\ node.id \in Rows(lessons)
        /\ node.status # "active" => lessons[node.id].status = node.status
    BY <1>1 DEF Within
  <2> QED BY <2>1 DEF Grown, Retired
<1> QED BY <1>1 DEF Within, Grown

\* A step of a client: nothing is written.
LEMMA KnowledgeGoes ==
  ASSUME KnowledgeInv, NEW c \in Clients, NEW s \in KnowledgeClient, K!Goes(c, s),
         Within(s.read, kFamily, kLesson), K!database' = K!database, kOnboarding' = kOnboarding,
         kGraph' \in Nodes, Within(kGraph', kFamily, kLesson),
         kKnowledge' \in {"not_executed", "unavailable", "completed_no_match", "completed_matches"}
  PROVE  KnowledgeKept
<1>0. UNCHANGED <<kSchema, kFamily, kLesson>> BY DEF K!database
<1>1. /\ kClient' \in [Clients -> KnowledgeClient]
      /\ \A v \in Clients : Within(kClient'[v].read, kFamily, kLesson)
  BY DEF KnowledgeInv, K!Goes
<1>2. K!RowsStep
  BY <1>0 DEF K!RowsStep, K!Stored, KnowledgeInv
<1> QED BY <1>0, <1>1, <1>2 DEF KnowledgeInv, KnowledgeKept

\* A transaction: rows are added, lessons retired.
LEMMA KnowledgeGrows ==
  ASSUME KnowledgeInv, UNCHANGED <<kGraph, kClient, kKnowledge>>,
         kSchema' \in {"none", "foreign", "ready"},
         kFamily' \in [Families -> K!Family \cup {None}],
         kLesson' \in [Lessons -> K!Lesson \cup {None}],
         kOnboarding' \in [Onboardings -> K!Onboarding \cup {None}],
         kSchema' # "ready" => Rows(kFamily') = {} /\ Rows(kLesson') = {},
         \A o \in Onboardings :
           Reviewed(kOnboarding'[o]) /\ PublishedAs(kOnboarding'[o], kSchema', kFamily'),
         \A f \in Families :
           \/ kFamily'[f] = kFamily[f]
           \/ /\ kFamily[f] = None
              /\ kFamily'[f] # None =>
                   \E o \in Onboardings :
                     /\ kOnboarding[o] # None /\ kOnboarding[o].family = f
                     /\ kOnboarding[o].review = "APPROVE" /\ kFamily'[f] = K!Row(o),
         Retired(kLesson, kLesson')
  PROVE  KnowledgeKept
<1>1. DOMAIN kFamily = Families /\ DOMAIN kFamily' = Families BY DEF KnowledgeInv
<1>2. DOMAIN kLesson = Lessons /\ DOMAIN kLesson' = Lessons BY DEF KnowledgeInv
<1>3. Grown(kFamily, kFamily') BY <1>1 DEF Grown, Rows
<1>4. Grown(kLesson, kLesson') BY <1>2 DEF Grown, Rows, Retired
<1>5. Within(kGraph', kFamily', kLesson') BY <1>3, <1>4, WithinGrown DEF KnowledgeInv
<1>6. ASSUME NEW c \in Clients PROVE Within(kClient'[c].read, kFamily', kLesson')
  BY <1>3, <1>4, WithinGrown DEF KnowledgeInv
<1>7. K!RowsStep
  <2>1. ASSUME NEW l \in K!Stored(kLesson)
        PROVE  /\ kLesson'[l] # None /\ kLesson'[l].of = kLesson[l].of
               /\ l \notin K!Active => kLesson'[l] = kLesson[l]
    BY <2>1 DEF K!Stored, K!Active, Retired, Rows
  <2> QED BY <2>1 DEF K!RowsStep
<1> QED BY <1>5, <1>6, <1>7 DEF KnowledgeInv, KnowledgeKept

\* A step of a client that reads, and goes on.
LEMMA KnowledgeReads ==
  ASSUME KnowledgeInv, NEW c \in Clients, NEW s \in KnowledgeClient, K!Goes(c, s),
         Within(s.read, kFamily, kLesson), K!database' = K!database,
         UNCHANGED <<kOnboarding, kGraph, kKnowledge>>
  PROVE  KnowledgeKept
BY KnowledgeGoes DEF KnowledgeInv
LEMMA KnowledgeSteps ==
  ASSUME KnowledgeInv, NEW c \in Clients, NEW step \in K!Reading, K!Step(c, step)
  PROVE  \E s \in KnowledgeClient :
           K!Goes(c, s) /\ s.read = kClient[c].read /\ Within(s.read, kFamily, kLesson)
<1> DEFINE s == [kClient[c] EXCEPT !.step = step]
<1>1. kClient[c] \in KnowledgeClient BY DEF KnowledgeInv
<1>2. s \in KnowledgeClient /\ s.read = kClient[c].read BY <1>1 DEF KnowledgeClient
<1>3. K!Goes(c, s) BY DEF K!Step
<1> HIDE DEF s
<1> QED BY <1>2, <1>3 DEF KnowledgeInv

LEMMA KnowledgeMigrates ==
  ASSUME KnowledgeInv, NEW c \in Clients, K!Bootstrap(c) \/ K!Migrate(c) PROVE KnowledgeKept
<1>1. CASE K!Bootstrap(c)
  BY <1>1, KnowledgeSteps, KnowledgeReads DEF K!Bootstrap, K!Reading
<1>2. CASE K!Migrate(c) /\ kSchema # "none"
  BY <1>2, KnowledgeSteps, KnowledgeReads DEF K!Migrate, K!Creatable, K!Reading
<1>3. CASE K!Migrate(c) /\ kSchema = "none"
  <2>1. PICK s \in KnowledgeClient :
          K!Goes(c, s) /\ s.read = kClient[c].read /\ Within(s.read, kFamily, kLesson)
    BY <1>3, KnowledgeSteps DEF K!Migrate, K!Creatable, K!Reading
  <2>2. /\ kSchema' = "ready" /\ kFamily' = [f \in Families |-> None]
        /\ kLesson' = [l \in Lessons |-> None] /\ UNCHANGED <<kOnboarding, kGraph, kKnowledge>>
    BY <1>3 DEF K!Migrate, K!Creatable
  <2>3. Rows(kFamily) = {} /\ Rows(kLesson) = {} BY <1>3 DEF KnowledgeInv
  <2>4. kFamily = kFamily' /\ kLesson = kLesson'
    BY <2>2, <2>3 DEF KnowledgeInv, Rows
  <2>5. /\ kClient' \in [Clients -> KnowledgeClient]
        /\ \A v \in Clients : Within(kClient'[v].read, kFamily, kLesson)
    BY <2>1 DEF KnowledgeInv, K!Goes
  <2>6. \A o \in Onboardings : PublishedAs(kOnboarding[o], "ready", kFamily)
    BY DEF KnowledgeInv, PublishedAs
  <2>7. K!RowsStep BY <2>4 DEF K!RowsStep, K!Stored, KnowledgeInv
  <2> QED BY <2>2, <2>4, <2>5, <2>6, <2>7 DEF KnowledgeInv, KnowledgeKept
<1> QED BY <1>1, <1>2, <1>3

\* A step of an onboarding that leaves the database alone.
LEMMA KnowledgeOnboards ==
  ASSUME KnowledgeInv, K!database' = K!database, UNCHANGED <<kGraph, kClient, kKnowledge>>,
         NEW o \in Onboardings, NEW row \in K!Onboarding,
         kOnboarding' = [kOnboarding EXCEPT ![o] = row],
         Reviewed(row), row.status # "published"
  PROVE  KnowledgeKept
<1>0. UNCHANGED <<kSchema, kFamily, kLesson>> BY DEF K!database
<1>1. kOnboarding' \in [Onboardings -> K!Onboarding \cup {None}] BY DEF KnowledgeInv
<1>2. \A v \in Onboardings : kOnboarding'[v] = IF v = o THEN row ELSE kOnboarding[v]
  BY DEF KnowledgeInv
<1>3. \A v \in Onboardings :
        Reviewed(kOnboarding'[v]) /\ PublishedAs(kOnboarding'[v], kSchema, kFamily)
  BY <1>2 DEF KnowledgeInv, PublishedAs
<1>4. Retired(kLesson, kLesson') BY <1>0 DEF Retired, Rows
<1> QED BY <1>0, <1>1, <1>3, <1>4, KnowledgeGrows DEF KnowledgeInv

LEMMA OnboardingStarts ==
  ASSUME KnowledgeInv, NEW o \in Onboardings, K!Start(o) PROVE KnowledgeKept
<1>1. PICK f \in Families, n \in Names :
        kOnboarding' = [kOnboarding EXCEPT ![o] =
          [family |-> f, name |-> n, analysis |-> None, review |-> None, status |-> "started"]]
  BY DEF K!Start
<1> DEFINE row == [family |-> f, name |-> n, analysis |-> None, review |-> None,
                   status |-> "started"]
<1>2. row \in K!Onboarding BY DEF K!Onboarding
<1>3. Reviewed(row) /\ row.status # "published" BY DEF Reviewed, K!Verdict
<1>4. kOnboarding' = [kOnboarding EXCEPT ![o] = row] BY <1>1
<1> HIDE DEF row
<1> QED BY <1>2, <1>3, <1>4, KnowledgeOnboards DEF K!Start

LEMMA OnboardingAnalyzes ==
  ASSUME KnowledgeInv, NEW o \in Onboardings, K!Analyze(o) PROVE KnowledgeKept
<1>1. PICK a \in Analyses : kOnboarding' = [kOnboarding EXCEPT ![o] = K!Analyzed(o, a)]
  BY DEF K!Analyze
<1>2. kOnboarding[o] \in K!Onboarding BY DEF KnowledgeInv, K!Analyze
<1> DEFINE row == K!Analyzed(o, a)
<1>3. /\ row \in K!Onboarding /\ row.review = None /\ row.status = "analyzed"
      /\ row.analysis = a
  BY <1>2 DEF K!Onboarding, K!Analyzed
<1>4. kOnboarding' = [kOnboarding EXCEPT ![o] = row] BY <1>1
<1> HIDE DEF row
<1>5. a # None BY RowsAssumption
<1>6. Reviewed(row) /\ row.status # "published" BY <1>3, <1>5 DEF Reviewed, K!Verdict
<1> QED BY <1>3, <1>4, <1>6, KnowledgeOnboards DEF K!Analyze

LEMMA OnboardingReviews ==
  ASSUME KnowledgeInv, NEW o \in Onboardings, K!Review(o) PROVE KnowledgeKept
<1>1. PICK d \in {"APPROVE", "REJECT"} :
        kOnboarding' = [kOnboarding EXCEPT ![o].review = d,
                          ![o].status = IF d = "APPROVE" THEN "approved" ELSE "rejected"]
  BY DEF K!Review
<1>2. PICK status \in {"approved", "rejected"} :
        status = IF d = "APPROVE" THEN "approved" ELSE "rejected"
  OBVIOUS
<1>3. kOnboarding[o] \in K!Onboarding /\ kOnboarding[o].analysis # None
  BY DEF KnowledgeInv, K!Review
<1> DEFINE row == [kOnboarding[o] EXCEPT !.review = d, !.status = status]
<1>4. /\ row \in K!Onboarding /\ row.review = d /\ row.status = status
      /\ row.analysis = kOnboarding[o].analysis
  BY <1>3 DEF K!Onboarding
<1>5. kOnboarding' = [kOnboarding EXCEPT ![o] = row] BY <1>1, <1>2 DEF KnowledgeInv
<1> HIDE DEF row
<1>6. Reviewed(row) /\ row.status # "published" BY <1>2, <1>3, <1>4 DEF Reviewed, K!Verdict
<1> QED BY <1>4, <1>5, <1>6, KnowledgeOnboards DEF K!Review

LEMMA OnboardingPublishes ==
  ASSUME KnowledgeInv, NEW o \in Onboardings, NEW n \in 0..1, K!Publish(o, n)
  PROVE  KnowledgeKept
<1> DEFINE f == kOnboarding[o].family
<1>0. /\ kOnboarding[o] \in K!Onboarding /\ kOnboarding[o] # None
      /\ kOnboarding[o].status = "approved" /\ Reviewed(kOnboarding[o])
      /\ kSchema = "ready" /\ f \in Families /\ kFamily[f] \in {None, K!Row(o)}
      /\ UNCHANGED <<kSchema, kLesson, kGraph, kClient, kKnowledge>>
  BY DEF KnowledgeInv, K!Publish, K!Accepts, K!Onboarding
<1>1. /\ kOnboarding[o].review = "APPROVE" /\ kOnboarding[o].analysis \in Analyses
      /\ kOnboarding[o].name \in Names
  BY <1>0 DEF Reviewed, K!Verdict, K!Onboarding
<1>2. K!Row(o) \in K!Family /\ K!Row(o) # None
  BY <1>1, RowsAssumption DEF K!Row, K!Family
<1>3. kFamily' = [kFamily EXCEPT ![f] = K!Row(o)]
  BY <1>0 DEF K!Publish, KnowledgeInv
<1>4. /\ kFamily' \in [Families -> K!Family \cup {None}] /\ kFamily'[f] = K!Row(o)
      /\ \A g \in Families \ {f} : kFamily'[g] = kFamily[g]
  BY <1>0, <1>2, <1>3 DEF KnowledgeInv
<1>5. ASSUME NEW v \in Onboardings PROVE PublishedAs(kOnboarding[v], kSchema', kFamily')
  <2> SUFFICES ASSUME kOnboarding[v] # None, kOnboarding[v].status = "published"
               PROVE  kFamily'[kOnboarding[v].family] =
                        [name |-> kOnboarding[v].name, knowledge |-> kOnboarding[v].analysis]
    BY <1>0 DEF PublishedAs
  <2>1. kFamily[kOnboarding[v].family] = K!Row(v) BY DEF KnowledgeInv, PublishedAs, K!Row
  <2>2. kOnboarding[v] \in K!Onboarding /\ Reviewed(kOnboarding[v]) BY DEF KnowledgeInv
  <2>3. /\ kOnboarding[v].analysis \in Analyses /\ kOnboarding[v].name \in Names
        /\ kOnboarding[v].family \in Families
    BY <2>2 DEF Reviewed, K!Onboarding
  <2>4. K!Row(v) # None BY <2>3, RowsAssumption DEF K!Row, K!Family
  <2>5. kFamily'[kOnboarding[v].family] = K!Row(v) BY <1>0, <1>4, <2>1, <2>3, <2>4
  <2> QED BY <2>5 DEF K!Row
<1>6. /\ kOnboarding' \in [Onboardings -> K!Onboarding \cup {None}]
      /\ \A v \in Onboardings :
           Reviewed(kOnboarding'[v]) /\ PublishedAs(kOnboarding'[v], kSchema', kFamily')
  <2>1. CASE n = 0
    <3>1. kOnboarding' = kOnboarding BY <2>1 DEF K!Publish
    <3> QED BY <1>5, <3>1 DEF KnowledgeInv
  <2>2. CASE n = 1
    <3> DEFINE row == [kOnboarding[o] EXCEPT !.status = "published"]
    <3>1. kOnboarding' = [kOnboarding EXCEPT ![o] = row] BY <2>2 DEF K!Publish, KnowledgeInv
    <3>2. /\ row \in K!Onboarding /\ row.status = "published" /\ row.family = f
          /\ row.review = "APPROVE" /\ row.analysis = kOnboarding[o].analysis
          /\ row.name = kOnboarding[o].name
      BY <1>0, <1>1 DEF K!Onboarding
    <3> HIDE DEF row
    <3>3. Reviewed(row) BY <1>0, <1>1, <3>2 DEF Reviewed, K!Verdict
    <3>4. PublishedAs(row, kSchema', kFamily') BY <1>0, <1>4, <3>2 DEF PublishedAs, K!Row
    <3>5. \A v \in Onboardings : kOnboarding'[v] = IF v = o THEN row ELSE kOnboarding[v]
      BY <3>1 DEF KnowledgeInv
    <3>6. kOnboarding' \in [Onboardings -> K!Onboarding \cup {None}]
      BY <3>1, <3>2 DEF KnowledgeInv
    <3> QED BY <1>5, <3>3, <3>4, <3>5, <3>6 DEF KnowledgeInv
  <2> QED BY <2>1, <2>2
<1>7. \A g \in Families :
        \/ kFamily'[g] = kFamily[g]
        \/ /\ kFamily[g] = None
           /\ kFamily'[g] # None =>
                \E v \in Onboardings :
                  /\ kOnboarding[v] # None /\ kOnboarding[v].family = g
                  /\ kOnboarding[v].review = "APPROVE" /\ kFamily'[g] = K!Row(v)
  BY <1>0, <1>1, <1>4
<1>8. Retired(kLesson, kLesson') BY <1>0 DEF Retired, Rows
<1> HIDE DEF f
<1> QED BY <1>0, <1>4, <1>6, <1>7, <1>8, KnowledgeGrows DEF KnowledgeInv

\* A lesson is added, or one that is active retired.
LEMMA KnowledgeLearns ==
  ASSUME KnowledgeInv, NEW l \in Lessons, kSchema = "ready", NEW row \in K!Lesson,
         kLesson' = [kLesson EXCEPT ![l] = row],
         kLesson[l] # None => kLesson[l].status = "active" /\ row.of = kLesson[l].of,
         UNCHANGED <<kSchema, kFamily, kOnboarding, kGraph, kClient, kKnowledge>>
  PROVE  KnowledgeKept
<1>1. /\ kLesson' \in [Lessons -> K!Lesson \cup {None}] /\ kLesson'[l] = row /\ row # None
      /\ \A m \in Lessons \ {l} : kLesson'[m] = kLesson[m]
  BY RowsAssumption DEF KnowledgeInv
<1>2. DOMAIN kLesson = Lessons BY DEF KnowledgeInv
<1>3. Retired(kLesson, kLesson') BY <1>1, <1>2 DEF Retired, Rows
<1> QED BY <1>1, <1>3, KnowledgeGrows DEF KnowledgeInv

LEMMA LessonPublishes ==
  ASSUME KnowledgeInv, NEW l \in Lessons, K!PublishLesson(l) PROVE KnowledgeKept
<1>1. PICK of \in K!Stored(kFamily) \cup {None} :
        kLesson' = [kLesson EXCEPT ![l] = [status |-> "active", of |-> of, by |-> None]]
  BY DEF K!PublishLesson
<1> DEFINE row == [status |-> "active", of |-> of, by |-> None]
<1>2. row \in K!Lesson BY DEF K!Lesson, K!Stored, KnowledgeInv
<1>3. kLesson' = [kLesson EXCEPT ![l] = row] BY <1>1
<1> HIDE DEF row
<1> QED BY <1>2, <1>3, KnowledgeLearns DEF K!PublishLesson

LEMMA LessonRetires ==
  ASSUME KnowledgeInv, NEW l \in Lessons, K!SetStatus(l) PROVE KnowledgeKept
<1>1. PICK by \in {None} \cup (K!Stored(kLesson) \ {l}) :
        kLesson' = [kLesson EXCEPT
          ![l].status = IF by = None THEN "revoked" ELSE "superseded", ![l].by = by]
  BY DEF K!SetStatus
<1>2. PICK status \in {"revoked", "superseded"} :
        status = IF by = None THEN "revoked" ELSE "superseded"
  OBVIOUS
<1>3. /\ kLesson[l] \in K!Lesson /\ kLesson[l] # None /\ kLesson[l].status = "active"
      /\ kSchema = "ready"
  BY DEF K!SetStatus, K!Retirable, K!Active, K!Stored, KnowledgeInv
<1> DEFINE row == [kLesson[l] EXCEPT !.status = status, !.by = by]
<1>4. row \in K!Lesson /\ row.of = kLesson[l].of
  BY <1>3 DEF K!Lesson, K!Stored, KnowledgeInv
<1>5. kLesson' = [kLesson EXCEPT ![l] = row] BY <1>1, <1>2 DEF KnowledgeInv
<1> HIDE DEF row
<1> QED BY <1>3, <1>4, <1>5, KnowledgeLearns DEF K!SetStatus

-----------------------------------------------------------------------------
(* The rebuild of the graph, and retrieval                                 *)

\* What is stored may be shown.
LEMMA StoredShown ==
  ASSUME KnowledgeInv
  PROVE  /\ K!Stored(kFamily) \subseteq Families /\ K!Stored(kFamily) = Rows(kFamily)
         /\ K!LessonNodes \subseteq [id : Lessons, status : Statuses]
         /\ \A node \in K!LessonNodes :
              node.id \in Rows(kLesson) /\ kLesson[node.id].status = node.status
<1>1. /\ K!Stored(kFamily) \subseteq Families /\ K!Stored(kFamily) = Rows(kFamily)
      /\ K!Stored(kLesson) \subseteq Lessons /\ K!Stored(kLesson) = Rows(kLesson)
  BY DEF K!Stored, Rows, KnowledgeInv
<1>2. ASSUME NEW node \in K!LessonNodes
      PROVE  /\ node \in [id : Lessons, status : Statuses]
             /\ node.id \in Rows(kLesson) /\ kLesson[node.id].status = node.status
  <2>1. PICK l \in K!Stored(kLesson) : node = [id |-> l, status |-> kLesson[l].status]
    BY DEF K!LessonNodes
  <2>2. kLesson[l] \in K!Lesson BY <1>1 DEF K!Stored, KnowledgeInv
  <2>3. kLesson[l].status \in Statuses BY <2>2 DEF K!Lesson, Statuses
  <2> QED BY <1>1, <2>1, <2>3
<1> QED BY <1>1, <1>2

LEMMA RebuildReads ==
  ASSUME KnowledgeInv, NEW c \in Clients,
         K!ReadFamilies(c) \/ K!ReadAssertions(c) \/ K!ReadLessons(c)
  PROVE  KnowledgeKept
<1>0. kClient[c] \in KnowledgeClient /\ kClient[c].read \in Nodes /\ Within(kClient[c].read, kFamily, kLesson)
  BY DEF KnowledgeInv, KnowledgeClient
<1>1. CASE K!ReadFamilies(c)
  <2> DEFINE s == [K!Idle EXCEPT !.step = "assertions", !.read.families = K!Stored(kFamily)]
  <2>1. /\ s.read.families = K!Stored(kFamily) /\ s.read.assertions = {} /\ s.read.lessons = {}
        /\ s.read \in Nodes
    BY StoredShown DEF K!Idle, K!Nothing, Nodes
  <2>2. s \in KnowledgeClient
    BY KnowledgeIdle, StoredShown DEF KnowledgeClient, Nodes, K!Reading, K!Idle, K!Nothing
  <2>3. K!Goes(c, s) BY <1>1 DEF K!ReadFamilies
  <2> HIDE DEF s
  <2>4. Within(s.read, kFamily, kLesson) BY <2>1, StoredShown DEF Within
  <2> QED BY <1>1, <2>2, <2>3, <2>4, KnowledgeReads DEF K!ReadFamilies
<1>2. CASE K!ReadAssertions(c)
  <2> DEFINE s == [kClient[c] EXCEPT !.step = "lessons", !.read.assertions = K!Stored(kFamily)]
  <2>1. /\ s.read.families = kClient[c].read.families /\ s.read.assertions = K!Stored(kFamily)
        /\ s.read.lessons = kClient[c].read.lessons
    BY <1>0 DEF KnowledgeClient, Nodes
  <2>2. s \in KnowledgeClient BY <1>0, StoredShown DEF KnowledgeClient, Nodes, K!Reading
  <2>3. K!Goes(c, s) BY <1>2 DEF K!ReadAssertions
  <2> HIDE DEF s
  <2>4. Within(s.read, kFamily, kLesson) BY <1>0, <2>1, StoredShown DEF Within
  <2> QED BY <1>2, <2>2, <2>3, <2>4, KnowledgeReads DEF K!ReadAssertions
<1>3. CASE K!ReadLessons(c)
  <2> DEFINE s == [kClient[c] EXCEPT !.step = "rebuilding", !.read.lessons = K!LessonNodes]
  <2>1. /\ s.read.families = kClient[c].read.families /\ s.read.lessons = K!LessonNodes
        /\ s.read.assertions = kClient[c].read.assertions
    BY <1>0 DEF KnowledgeClient, Nodes
  <2>2. s \in KnowledgeClient BY <1>0, StoredShown DEF KnowledgeClient, Nodes, K!Reading
  <2>3. K!Goes(c, s) BY <1>3 DEF K!ReadLessons, K!Readable
  <2> HIDE DEF s
  <2>4. Within(s.read, kFamily, kLesson) BY <1>0, <2>1, StoredShown DEF Within
  <2> QED BY <1>3, <2>2, <2>3, <2>4, KnowledgeReads DEF K!ReadLessons
<1> QED BY <1>1, <1>2, <1>3

LEMMA GraphRebuilds ==
  ASSUME KnowledgeInv, NEW c \in Clients, K!Rebuild(c) \/ K!RebuildFails(c) PROVE KnowledgeKept
<1>1. kClient[c].read \in Nodes /\ Within(kClient[c].read, kFamily, kLesson)
  BY DEF KnowledgeInv, KnowledgeClient
<1>2. CASE K!Rebuild(c)
  BY <1>1, <1>2, KnowledgeIdle, KnowledgeGoes DEF K!Rebuild, KnowledgeInv
<1>3. CASE K!RebuildFails(c)
  BY <1>3, KnowledgeIdle, KnowledgeReads DEF K!RebuildFails
<1> QED BY <1>2, <1>3

LEMMA KnowledgeMatches ==
  ASSUME KnowledgeInv, NEW c \in Clients, K!Match(c) PROVE KnowledgeKept
<1>0. K!database' = K!database /\ UNCHANGED <<kOnboarding, kGraph>> BY DEF K!Match
<1>1. PICK fits \in SUBSET K!Stored(kFamily) :
        \/ kKnowledge' = "unavailable" /\ UNCHANGED kClient
        \/ /\ K!Goes(c, [K!Idle EXCEPT !.step = "matched",
                           !.family = IF fits = {} THEN None ELSE CHOOSE f \in fits : TRUE])
           /\ UNCHANGED kKnowledge
  BY DEF K!Match
<1>2. CASE kKnowledge' = "unavailable" /\ UNCHANGED kClient
  <2>1. UNCHANGED <<kSchema, kFamily, kLesson>> BY <1>0 DEF K!database
  <2>2. K!RowsStep BY <2>1 DEF K!RowsStep, K!Stored, KnowledgeInv
  <2> QED BY <1>0, <1>2, <2>1, <2>2 DEF KnowledgeInv, KnowledgeKept
<1>3. CASE /\ K!Goes(c, [K!Idle EXCEPT !.step = "matched",
                           !.family = IF fits = {} THEN None ELSE CHOOSE f \in fits : TRUE])
           /\ UNCHANGED kKnowledge
  <2>1. PICK f \in Families \cup {None} :
          f = IF fits = {} THEN None ELSE CHOOSE g \in fits : TRUE
    BY StoredShown
  <2> DEFINE s == [K!Idle EXCEPT !.step = "matched", !.family = f]
  <2>2. s \in KnowledgeClient /\ s.read = K!Nothing
    BY KnowledgeIdle DEF KnowledgeClient, K!Reading
  <2>3. K!Goes(c, s) BY <1>3, <2>1
  <2> HIDE DEF s
  <2> QED BY <1>0, <1>3, <2>2, <2>3, KnowledgeIdle, KnowledgeReads
<1> QED BY <1>1, <1>2, <1>3

LEMMA KnowledgeSearches ==
  ASSUME KnowledgeInv, NEW c \in Clients, K!Search(c) PROVE KnowledgeKept
<1>1. PICK some \in SUBSET K!Relevant(c) :
        K!Goes(c, [kClient[c] EXCEPT !.step = "found", !.found = some # {}])
  BY DEF K!Search
<1> DEFINE s == [kClient[c] EXCEPT !.step = "found", !.found = some # {}]
<1>2. s \in KnowledgeClient /\ s.read = kClient[c].read
  BY DEF KnowledgeInv, KnowledgeClient, K!Reading
<1>3. K!Goes(c, s) BY <1>1
<1> HIDE DEF s
<1>4. Within(s.read, kFamily, kLesson) BY <1>2 DEF KnowledgeInv
<1> QED BY <1>2, <1>3, <1>4, KnowledgeReads DEF K!Search

LEMMA KnowledgeRecords ==
  ASSUME KnowledgeInv, NEW c \in Clients, K!Record(c) PROVE KnowledgeKept
<1>1. kKnowledge' \in {"completed_no_match", "completed_matches"} BY DEF K!Record
<1> QED BY <1>1, KnowledgeIdle, KnowledgeGoes DEF K!Record, KnowledgeInv

LEMMA KnowledgeKeeps == KnowledgeInv /\ K!Next => KnowledgeKept
BY OnboardingStarts, OnboardingAnalyzes, OnboardingReviews, OnboardingPublishes, LessonPublishes,
   LessonRetires, KnowledgeMigrates, RebuildReads, GraphRebuilds, KnowledgeMatches,
   KnowledgeSearches, KnowledgeRecords
   DEF K!Next, K!Onboard, K!Learn, K!Project, K!Retrieve

-----------------------------------------------------------------------------
(* All parts together                                                      *)

PlatformInv ==
  /\ part = "workspace" => WorkspaceInv
  /\ part = "freecad" => FreeCADInv
  /\ part = "design" => DesignInv
  /\ part = "catalog" => CatalogInv
  /\ part = "migration" => MigrationInv
  /\ part = "knowledge" => KnowledgeInv

\* What the properties say of one step.
ExchangedStep ==
  /\ part = "workspace" => W!IdentityStep /\ W!CatalogStep
  /\ part = "freecad" => F!ServiceStep
  /\ part = "design" => D!KeptStep
  /\ part = "catalog" => C!DescribedStep
  /\ part = "knowledge" => K!RowsStep

LEMMA PlatformStarts == Init => PlatformInv
BY WorkspaceStarts, FreeCADStarts, DesignStarts, CatalogStarts, MigrationStarts, KnowledgeStarts
   DEF Init, PlatformInv

\* A step is one of the part, and the part stays what it is.
LEMMA PlatformSteps == PlatformInv /\ Next => PlatformInv' /\ ExchangedStep
<1> SUFFICES ASSUME PlatformInv, Next PROVE PlatformInv' /\ ExchangedStep OBVIOUS
<1>1. CASE part = "workspace" /\ W!Next /\ part' = part
  BY <1>1, WorkspaceKeeps DEF WorkspaceKept, PlatformInv, ExchangedStep
<1>2. CASE part = "freecad" /\ F!Next /\ part' = part
  BY <1>2, FreeCADKeeps DEF FreeCADKept, PlatformInv, ExchangedStep
<1>3. CASE part = "design" /\ D!Next /\ part' = part
  BY <1>3, DesignKeeps DEF DesignKept, PlatformInv, ExchangedStep
<1>4. CASE part = "catalog" /\ C!Next /\ part' = part
  BY <1>4, CatalogKeeps DEF CatalogKept, PlatformInv, ExchangedStep
<1>5. CASE part = "migration" /\ M!Next /\ part' = part
  BY <1>5, MigrationKeeps DEF PlatformInv, ExchangedStep
<1>6. CASE part = "knowledge" /\ K!Next /\ part' = part
  BY <1>6, KnowledgeKeeps DEF KnowledgeKept, PlatformInv, ExchangedStep
<1> QED BY <1>1, <1>2, <1>3, <1>4, <1>5, <1>6 DEF Next

LEMMA PlatformStutters == PlatformInv /\ UNCHANGED vars => PlatformInv'
<1> SUFFICES ASSUME PlatformInv, UNCHANGED vars PROVE PlatformInv' OBVIOUS
<1> USE DEF vars
<1>1. WorkspaceInv => WorkspaceInv'
  BY DEF wvars, WorkspaceInv, Written, WorkspaceHeld, W!InitializedComplete, W!Initialized
<1>2. FreeCADInv => FreeCADInv'
  BY DEF fvars, FreeCADInv, F!TypeOK, F!Exists
<1>3. DesignInv => DesignInv'
  BY DEF dvars, DesignInv, D!TypeOK, D!MadeOfOneSource
<1>4. CatalogInv => CatalogInv'
  BY DEF cvars, CatalogInv, CatalogHeld, C!TypeOK, C!CopiesHoldDigest
<1>5. MigrationInv => MigrationInv'
  BY DEF mvars, MigrationInv, OperatorHeld
<1>6. KnowledgeInv => KnowledgeInv'
  BY DEF kvars, KnowledgeInv, Within, PublishedAs, Reviewed
<1> QED BY <1>1, <1>2, <1>3, <1>4, <1>5, <1>6 DEF PlatformInv

\* Every part keeps its inductive invariant, whatever processes, places, parts,
\* rows and sources there are.
THEOREM PlatformCorrect == Spec => []PlatformInv
<1>1. PlatformInv /\ [Next]_vars => PlatformInv' BY PlatformSteps, PlatformStutters
<1> QED BY <1>1, PlatformStarts, PTL DEF Spec

\* The records of initialize_workspace, run_freecad_script, the start of a
\* design, PartCatalog, knowledge-migrate and the knowledge database keep their
\* shape and refer to what is there.
THEOREM PlatformTyped == Spec => []TypeOK
<1>1. PlatformInv => TypeOK
  BY WorkspaceTyped, MigrationTyped, KnowledgeTyped
     DEF PlatformInv, TypeOK, FreeCADInv, DesignInv, CatalogInv
<1> QED BY <1>1, PlatformCorrect, PTL

\* A manifest names a workspace that is complete, though initializations are
\* killed, overlap and lose their lock; what FreeCAD ran is what was reviewed,
\* though files are replaced between any two looks; a design is made of one
\* state of the CAD file, and a copy of a part of one state of its own.
THEOREM PlatformFilesAgree == Spec => []FilesAgree
<1>1. PlatformInv => FilesAgree
  BY FreeCADAgrees DEF PlatformInv, FilesAgree, WorkspaceInv, DesignInv, CatalogInv
<1> QED BY <1>1, PlatformCorrect, PTL

\* What an onboarding calls published is stored as it was analyzed and
\* approved, the graph shows nothing that was not, an export is closed and of
\* the latest approved revisions, and the database that is cut over to holds
\* the analyzed export and answers for every family of it.
THEOREM PlatformKnowledgeAgrees == Spec => []KnowledgeAgrees
<1>1. PlatformInv => KnowledgeAgrees
  BY KnowledgeTyped, MigrationExportsSound, MigrationServes DEF PlatformInv, KnowledgeAgrees
<1> QED BY <1>1, PlatformCorrect, PTL

\* A manifest is not replaced, no registry is given a protected directory, the
\* service of a server, a design that was started, the description of a part,
\* a row that was published and a lesson that was retired are not exchanged.
THEOREM PlatformKeepsWhatWasFound == Spec => NothingExchanged
<1>1. PlatformInv /\ [Next]_vars => [ExchangedStep]_vars BY PlatformSteps
<1> QED BY <1>1, PlatformCorrect, PTL DEF Spec, NothingExchanged, ExchangedStep
==============================================================================
