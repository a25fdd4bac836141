------------------------------ MODULE FreeCADTrust ------------------------------
(***************************************************************************)
(* Which FreeCAD executable the program trusts and runs: bootstrap_runtime,*)
(* freecad_discovery, freecad_runner and the services a server keeps.      *)
(*                                                                         *)
(* A person names a command and the SHA-256 of the build that was          *)
(* reviewed, in four places.  Before a server runs anything the file is    *)
(* read, pinned, asked for its version and read again; what was found is   *)
(* kept for the life of the server and pinned anew around every script.    *)
(* Every read and every execution is a step of its own, and files may be   *)
(* replaced, overwritten in place or linked between any two.               *)
(*                                                                         *)
(* A build is a number: its bytes, their digest and the version it prints. *)
(* A file never goes back to bytes it had before.  Left out: the check     *)
(* that a Windows executable is 64-bit, the environment of the child, the  *)
(* script and its arguments.                                               *)
(*                                                                         *)
(* Definitions marked "Wrong" are slips, not the model.                    *)
(***************************************************************************)
EXTENDS Naturals, Sequences, FiniteSets

CONSTANTS
  Threads,     \* tool calls of one server
  Places,      \* paths an executable may be found at
  Paths,       \* where discovery looks, in order: PATH, Program Files, registry
  Blank,       \* a value that is named and empty
  MaxBuilds,   \* bound: builds that ever exist
  None

VARIABLES
  file,        \* what lies at a place: a file with an identity, a build, its links
  builds,      \* builds so far
  server,      \* the command and the digest this process was started with
  lock,        \* the lock of create_mcp around the making of a service
  service,     \* the candidate design settings were made from, or None
  thread       \* what every tool call holds between two steps

vars == <<file, builds, server, lock, service, thread>>

-----------------------------------------------------------------------------
(* Settings: BootstrapRuntime *)

\* The first value that is named and not empty.
Named(values) == {i \in DOMAIN values : values[i] \notin {None, Blank}}
First(values) ==
  IF Named(values) = {} THEN None
  ELSE values[CHOOSE i \in Named(values) : \A j \in Named(values) : i <= j]
\* from_process: a value of the process, though blank, hides the env file.
Environ(process, envFile) == IF process # None THEN process ELSE envFile
\* _freecad_candidate: override, environment, manifest, for each on its own.
Setting(override, process, envFile, manifest) ==
  First(<<override, Environ(process, envFile), manifest>>)
Settings(values) ==
  {Setting(override, process, envFile, manifest) :
     override, manifest \in values \cup {None},
     process, envFile \in values \cup {None, Blank}}

-----------------------------------------------------------------------------
(* Vocabulary *)

File == [identity : Nat, build : Nat, links : 1..2]
Idle ==
  [step |-> "idle", task |-> None, place |-> None, left |-> << >>, found |-> << >>,
   seen |-> None, version |-> None, ran |-> None, answer |-> None]
Is(t, step) == thread[t].step = step
Goes(t, state) == thread' = [thread EXCEPT ![t] = state]
Step(t, step) == Goes(t, [thread[t] EXCEPT !.step = step])
Exists(place) == file[place] # None
Same(a, b) == a.identity = b.identity /\ a.build = b.build
\* A candidate: path, identity, digest and version, and the call it is made by.
Candidate(t) ==
  [by |-> t, place |-> thread[t].place, identity |-> thread[t].seen.identity,
   build |-> thread[t].seen.build, version |-> thread[t].version]

-----------------------------------------------------------------------------
(* _validate_freecadcmd_candidate *)

\* (Wrong: the lock of a service that could not be made is not given up.)
LockAfterError(found) == IF found = << >> THEN lock ELSE None
LockAfter(found) == None
\* What follows when the candidate is found invalid, and when it is valid: the
\* next path of a discovery, or an answer; the lock is given up.
Concluded(t, found) ==
  LET left == thread[t].left
  IN IF thread[t].task = "discover"
     THEN /\ Goes(t, IF left = << >> THEN [Idle EXCEPT !.step = "selecting", !.found = found]
                     ELSE [thread[t] EXCEPT !.step = "reading", !.place = Head(left),
                                            !.left = Tail(left), !.found = found])
          /\ UNCHANGED <<lock, service>>
     ELSE IF thread[t].task = "status"
     THEN /\ Goes(t, [Idle EXCEPT !.answer = IF found = << >> THEN "setup_required" ELSE "ready"])
          /\ UNCHANGED <<lock, service>>
     ELSE /\ lock' = LockAfter(found)
          /\ service' = IF found = << >> THEN service ELSE found[1]
          /\ Goes(t, [Idle EXCEPT !.answer = IF found = << >> THEN "blocked" ELSE "opened"])
Invalid(t) == Concluded(t, thread[t].found)

\* The managed file, read once: one link and the reviewed digest.
ReadBefore(t) ==
  LET here == file[thread[t].place]
  IN /\ Is(t, "reading")
     /\ IF Exists(thread[t].place) /\ here.links = 1 /\ here.build = server.digest
        THEN Goes(t, [thread[t] EXCEPT !.step = "pinning", !.seen = here]) /\ UNCHANGED <<lock, service>>
        ELSE Invalid(t)
     /\ UNCHANGED <<file, builds, server>>
\* The invocation pin: nothing about it has changed.
Pin(t) ==
  /\ Is(t, "pinning")
  /\ IF file[thread[t].place] = thread[t].seen
     THEN Step(t, "probing") /\ UNCHANGED <<lock, service>>
     ELSE Invalid(t)
  /\ UNCHANGED <<file, builds, server>>
\* run_freecad_version: what lies there is executed and prints its version; it
\* may fail, hang or print none.
Probe(t) ==
  LET here == file[thread[t].place]
  IN /\ Is(t, "probing")
     /\ \/ /\ Exists(thread[t].place)
           /\ Goes(t, [thread[t] EXCEPT !.step = "rereading", !.version = here.build])
           /\ UNCHANGED <<lock, service>>
        \/ Invalid(t)
     /\ UNCHANGED <<file, builds, server>>
\* (Wrong: the bytes are not looked at again.)
UnchangedIdentity(t) ==
  LET here == file[thread[t].place]
  IN here # None /\ here.identity = thread[t].seen.identity
\* Identity and digest once more, after the probe.
Unchanged(t) ==
  LET here == file[thread[t].place] IN here # None /\ Same(here, thread[t].seen)
\* A file already among the candidates of a discovery is not counted twice.
ReadAfter(t) ==
  LET found == thread[t].found
      known == \E i \in 1..Len(found) : found[i].identity = thread[t].seen.identity
  IN /\ Is(t, "rereading")
     /\ IF Unchanged(t) /\ ~known THEN Concluded(t, Append(found, Candidate(t))) ELSE Invalid(t)
     /\ UNCHANGED <<file, builds, server>>

-----------------------------------------------------------------------------
(* What starts a validation *)

\* (Wrong: whoever waited for the lock makes a service of its own.)
StillMissingAny == TRUE
\* get_design: the service is looked for again once the lock is held.
StillMissing == service = None
Configured == server.command # None /\ server.digest # None

\* get_design, the first look without the lock.
GetDesign(t) ==
  /\ Is(t, "idle")
  /\ Goes(t, [Idle EXCEPT !.step = IF service = None THEN "waiting" ELSE "running"])
  /\ UNCHANGED <<file, builds, server, lock, service>>
\* The lock, the second look, design_settings.
MakeService(t) ==
  /\ Is(t, "waiting") /\ lock = None
  /\ CASE ~StillMissing -> Step(t, "running") /\ UNCHANGED lock
       [] StillMissing /\ ~Configured ->
            Goes(t, [Idle EXCEPT !.answer = "blocked"]) /\ UNCHANGED lock
       [] OTHER ->
            /\ Goes(t, [Idle EXCEPT !.step = "reading", !.task = "design", !.place = server.command])
            /\ lock' = t
  /\ UNCHANGED <<file, builds, server, service>>
\* status: the candidate is validated and forgotten.
Status(t) ==
  /\ Is(t, "idle")
  /\ Goes(t, IF Configured
             THEN [Idle EXCEPT !.step = "reading", !.task = "status", !.place = server.command]
             ELSE [Idle EXCEPT !.answer = "setup_required"])
  /\ UNCHANGED <<file, builds, server, lock, service>>
\* discover_freecadcmd, for a digest that is named.
Discover(t) ==
  /\ Is(t, "idle") /\ server.digest # None
  /\ Goes(t, [Idle EXCEPT !.step = "reading", !.task = "discover", !.place = Head(Paths),
                          !.left = Tail(Paths)])
  /\ UNCHANGED <<file, builds, server, lock, service>>
\* (Wrong: the first of several is taken.)
OnlyFirst(found) == Len(found) >= 1
\* One distinct valid file is selected, more are a conflict.
Only(found) == Len(found) = 1
Select(t) ==
  /\ Is(t, "selecting")
  /\ Goes(t, IF Only(thread[t].found)
             THEN [thread[t] EXCEPT !.step = "idle", !.answer = "selected"]
             ELSE [Idle EXCEPT !.answer = "not_selected"])
  /\ UNCHANGED <<file, builds, server, lock, service>>

-----------------------------------------------------------------------------
(* run_freecad_script *)

\* _pin_executable.
Pinned == Exists(service.place) /\ file[service.place].links = 1 /\ Same(file[service.place], service)
\* (Wrong: the executable is pinned before the script only.)
PinnedAfterAny == TRUE
PinnedAfter == Pinned
RunPin(t) ==
  /\ Is(t, "running") /\ service # None
  /\ IF Pinned THEN Step(t, "executing") ELSE Goes(t, [Idle EXCEPT !.answer = "refused"])
  /\ UNCHANGED <<file, builds, server, lock, service>>
\* The child is whatever lies there; it may fail or run out of time, and is
\* looked after in the same finally clause.
Execute(t) ==
  /\ Is(t, "executing")
  /\ Goes(t, [thread[t] EXCEPT !.step = "returning",
                               !.ran = IF Exists(service.place) THEN file[service.place].build ELSE None])
  /\ UNCHANGED <<file, builds, server, lock, service>>
RunReturns(t) ==
  /\ Is(t, "returning")
  /\ Goes(t, IF thread[t].ran # None /\ PinnedAfter
             THEN [Idle EXCEPT !.answer = "result", !.ran = thread[t].ran]
             ELSE [Idle EXCEPT !.answer = "refused"])
  /\ UNCHANGED <<file, builds, server, lock, service>>

-----------------------------------------------------------------------------
(* Around the program *)

\* A new build is installed over the file or in its place, or a copy of a
\* build that lies elsewhere.
Install(place) ==
  /\ builds < MaxBuilds
  /\ builds' = builds + 1
  /\ \/ file' = [file EXCEPT ![place] = [identity |-> builds', build |-> builds', links |-> 1]]
     \/ Exists(place) /\ file' = [file EXCEPT ![place].build = builds']
     \/ \E other \in Places \ {place} :
          /\ ~Exists(place) /\ Exists(other)
          /\ file' = [file EXCEPT ![place] = [identity |-> builds', build |-> file[other].build, links |-> 1]]
  /\ UNCHANGED <<server, lock, service, thread>>
Link(place) ==
  /\ Exists(place)
  /\ file' = [file EXCEPT ![place].links = 3 - @]
  /\ UNCHANGED <<builds, server, lock, service, thread>>
\* The server ends and is started again; its calls and its service end with it.
Restart ==
  /\ service # None \/ lock # None
  /\ lock' = None /\ service' = None
  /\ thread' = [t \in Threads |-> Idle]
  /\ UNCHANGED <<file, builds, server>>

-----------------------------------------------------------------------------
\* Build 1 lies at some place; it or one to come was reviewed.
Init ==
  /\ builds = 1
  /\ \E place \in Places :
       file = [other \in Places |->
                 IF other = place THEN [identity |-> 1, build |-> 1, links |-> 1] ELSE None]
  /\ server \in [command : Settings(Places), digest : Settings(1..2)]
  /\ lock = None /\ service = None
  /\ thread = [t \in Threads |-> Idle]

Validate(t) == ReadBefore(t) \/ Pin(t) \/ Probe(t) \/ ReadAfter(t)
Call(t) ==
  \/ GetDesign(t) \/ MakeService(t) \/ Status(t) \/ Discover(t) \/ Select(t)
  \/ RunPin(t) \/ Execute(t) \/ RunReturns(t)
Next ==
  \/ \E t \in Threads : Validate(t) \/ Call(t)
  \/ \E place \in Places : Install(place) \/ Link(place)
  \/ Restart
Spec == Init /\ [][Next]_vars

-----------------------------------------------------------------------------
(* Properties *)

Steps ==
  {"idle", "waiting", "reading", "pinning", "probing", "rereading", "selecting", "running",
   "executing", "returning"}
TypeOK ==
  /\ builds \in 1..MaxBuilds
  /\ \A place \in Places :
       Exists(place) => file[place] \in File /\ file[place].build \in 1..builds
  /\ lock \in Threads \cup {None}
  /\ \A t \in Threads :
       /\ thread[t].step \in Steps
       /\ lock = t <=> thread[t].task = "design"

\* A result of a script was computed by the build a person reviewed, whatever
\* was installed in between; the version that was recorded, of the service and
\* of a selected candidate, is the version of the bytes that were reviewed,
\* and a candidate is selected only when it is the only file among the paths.
Reviewed(candidate) == candidate.build = server.digest /\ candidate.version = candidate.build
RunsReviewed ==
  /\ service # None => Reviewed(service) /\ service.place = server.command
  /\ \A t \in Threads :
       /\ thread[t].answer = "result" => thread[t].ran = server.digest
       /\ thread[t].answer = "selected" =>
            /\ Reviewed(thread[t].found[1])
            /\ \A i, j \in 1..Len(thread[t].found) :
                 thread[t].found[i].identity = thread[t].found[j].identity

\* Calls that arrive together share one service: what one of them relies on is
\* not exchanged while the server lives.
ServiceStep == service # None => service' \in {service, None}
ServiceKept == [][ServiceStep]_vars
=============================================================================
