------------------------------- MODULE Workspace -------------------------------
(***************************************************************************)
(* A design workspace and its catalog of standard parts:                   *)
(* workspace_bootstrap, standard_part_configuration and the creation lock  *)
(* of secure_fs.                                                           *)
(*                                                                         *)
(* initialize_workspace looks for the manifest, makes the workspace, takes *)
(* a lock that is a file, makes the managed directories one by one, writes *)
(* the sources file and, last, the manifest.  enable and disable read the  *)
(* sources, resolve the directory they name, decide, replace the file, and *)
(* read and resolve it once more, without a lock.  Every file operation    *)
(* is a step of its own and a process may be killed between any two;       *)
(* directories outside the workspace come and go meanwhile.                *)
(*                                                                         *)
(* Left out: symbolic links and reparse points inside the workspace, which *)
(* every operation refuses, and the texts of errors.                       *)
(*                                                                         *)
(* Definitions marked "Wrong" are slips, not the model.                    *)
(***************************************************************************)
EXTENDS Naturals, FiniteSets

CONSTANTS
  Users,       \* processes that initialize the workspace or set the catalog
  Actors,      \* actor ids a user may name
  Groups,      \* organization and design group a user may name
  Places,      \* directories a catalog may be asked for
  Protected,   \* those under config, output, knowledge or a managed directory
  MaxDeaths,   \* bound: processes killed
  None         \* nothing named, JSON null, a file that is absent

VARIABLES
  dirs,        \* how many of the managed directories exist
  sources,     \* config/standard_parts_sources.json
  manifest,    \* config/mechanical_design.json
  lock,        \* .mechanical-design-init.lock: who made it, "stale", or None
  leads,       \* the directory a place leads to, or None
  user,        \* what every process holds between two steps
  deaths

files == <<dirs, sources, manifest>>
vars == <<files, lock, leads, user, deaths>>

-----------------------------------------------------------------------------
(* Vocabulary *)

\* workspace, config, config/product_families, data, data/artifacts.
Directories == 5
Source(schema, root) == [schema |-> schema, enabled |-> root # None, root |-> root]
\* (Wrong: the template asks for the workspace itself as a catalog.)
TemplateOpen == Source("v1", "workspace")
Template == Source("v1", None)
Manifest == [actor : Actors \cup {"generated"}, group : Groups \cup {None}, by : Users]

\* place: what was asked for, then the directory it leads to.  read: the sources as
\* they were read.  root: the directory their binding of the current schema leads to.
Idle == [step |-> "idle", actor |-> None, group |-> None, place |-> None, read |-> None,
         root |-> None, answer |-> None]
Is(u, step) == user[u].step = step
Goes(u, state) == user' = [user EXCEPT ![u] = state]
Step(u, step) == Goes(u, [user[u] EXCEPT !.step = step])
Answer(u, answer) == Goes(u, [Idle EXCEPT !.answer = answer])
\* What was begun under the lock ends by giving it up.
GivesUp(u, answer) == Goes(u, [user[u] EXCEPT !.step = "unlocking", !.answer = answer])
Initialized == manifest # None

-----------------------------------------------------------------------------
(* initialize_workspace *)

\* read_workspace_manifest and _validate_initialized_managed_state: all of it
\* is there and the sources file is of the current schema.
ManagedStateValid ==
  dirs = Directories /\ sources # None /\ sources.schema = "v1"
\* What is asked for explicitly has to be what the manifest says.
Agrees(actor, group) ==
  actor \in {None, manifest.actor} /\ group \in {None, manifest.group}

\* A manifest that is there answers the request.
AlreadyInitialized(u, actor, group) ==
  /\ Is(u, "idle") /\ Initialized
  /\ Answer(u, IF Agrees(actor, group) /\ ManagedStateValid
               THEN "already_initialized" ELSE "refused")
  /\ UNCHANGED <<files, lock, leads, deaths>>
\* No manifest yet; a dry run ends here.
Begin(u, actor, group) ==
  /\ Is(u, "idle") /\ ~Initialized
  /\ Goes(u, [Idle EXCEPT !.step = "making", !.actor = actor, !.group = group])
  /\ UNCHANGED <<files, lock, leads, deaths>>
DryRun(u) ==
  /\ Is(u, "idle") /\ ~Initialized
  /\ Answer(u, "dry_run")
  /\ UNCHANGED <<files, lock, leads, deaths>>
\* ensure_managed_directory of the workspace, with its parents.
MakeWorkspace(u) ==
  /\ Is(u, "making")
  /\ dirs' = IF dirs = 0 THEN 1 ELSE dirs
  /\ Step(u, "locking")
  /\ UNCHANGED <<sources, manifest, lock, leads, deaths>>
\* exclusive_creation_lock: O_CREAT | O_EXCL.
Lock(u) ==
  /\ Is(u, "locking")
  /\ IF lock = None
     THEN lock' = u /\ Step(u, "directories")
     ELSE Answer(u, "locked") /\ UNCHANGED lock
  /\ UNCHANGED <<files, leads, deaths>>
\* _ensure_managed_directory: the next one that is missing.
MakeDirectory(u) ==
  /\ Is(u, "directories") /\ dirs < Directories
  /\ dirs' = dirs + 1
  /\ UNCHANGED <<sources, manifest, lock, leads, user, deaths>>
\* (Wrong: the directories are left to the first artifact.)
CompleteAny == TRUE
Complete == dirs = Directories
\* _reuse_exact_or_publish: the template, whoever wrote it.
PublishSources(u) ==
  /\ Is(u, "directories") /\ Complete
  /\ CASE sources = None -> sources' = Template /\ Step(u, "manifest")
       [] sources = Template -> Step(u, "manifest") /\ UNCHANGED sources
       [] OTHER -> GivesUp(u, "refused") /\ UNCHANGED sources
  /\ UNCHANGED <<dirs, manifest, lock, leads, deaths>>
\* (Wrong: the manifest is replaced.)
UnpublishedAny == TRUE
\* _publish_new_file: a manifest that came to be there is a conflict.
Unpublished == manifest = None
PublishManifest(u) ==
  /\ Is(u, "manifest")
  /\ IF Unpublished
     THEN /\ manifest' = [actor |-> IF user[u].actor = None THEN "generated" ELSE user[u].actor,
                          group |-> user[u].group, by |-> u]
          /\ GivesUp(u, "initialized")
     ELSE GivesUp(u, "refused") /\ UNCHANGED manifest
  /\ UNCHANGED <<dirs, sources, lock, leads, deaths>>
\* A directory or a file cannot be written.
WriteFails(u) ==
  /\ user[u].step \in {"directories", "manifest"}
  /\ GivesUp(u, "refused")
  /\ UNCHANGED <<files, lock, leads, deaths>>
\* The lock file is removed if it still is the one that was made.
Unlock(u) ==
  /\ Is(u, "unlocking")
  /\ lock' = IF lock = u THEN None ELSE lock
  /\ Answer(u, IF lock = u THEN user[u].answer ELSE "refused")
  /\ UNCHANGED <<files, leads, deaths>>

-----------------------------------------------------------------------------
(* enable_standard_part_catalog, disable_standard_part_catalog *)

\* (Wrong: a directory is taken for what its name says.)
UsableByName(place) == leads[place] # None /\ place \notin Protected
\* _resolve_catalog_root: a directory, with links followed, that overlaps no
\* protected tree.
Usable(place) == leads[place] # None /\ leads[place] \notin Protected
\* load_standard_part_sources reads the file, and then resolves the root it names.
Read(u, step, place) ==
  /\ IF sources = None
     THEN Answer(u, "refused")
     ELSE Goes(u, [Idle EXCEPT !.step = step, !.place = place, !.read = sources])
  /\ UNCHANGED <<files, lock, leads, deaths>>
\* The outcome of what was read: disabled, or a root that is usable by now.
Loads(read) == read.enabled => Usable(read.root)
Root(read) == IF read.enabled THEN leads[read.root] ELSE None
Ends(u, answer, place) == Goes(u, [Idle EXCEPT !.answer = answer, !.place = place])

Enable(u, place) == Is(u, "idle") /\ Initialized /\ Read(u, "enabling", place)
EnableLoads(u) ==
  LET read == user[u].read
  IN /\ Is(u, "enabling")
     /\ IF Loads(read)
        THEN Goes(u, [user[u] EXCEPT !.step = "resolving", !.read = None,
                        !.root = IF read.schema = "v1" THEN Root(read) ELSE None])
        ELSE Answer(u, "refused")
     /\ UNCHANGED <<files, lock, leads, deaths>>
Resolve(u) ==
  LET place == user[u].place
  IN /\ Is(u, "resolving")
     /\ IF Usable(place)
        THEN Goes(u, [user[u] EXCEPT !.step = "probing", !.place = leads[place]])
        ELSE Answer(u, "refused")
     /\ UNCHANGED <<files, lock, leads, deaths>>
\* probe_standard_part_catalog writes a file through whatever the path leads to by now.
Probe(u) ==
  LET place == user[u].place
  IN /\ Is(u, "probing")
     /\ CASE leads[place] = None -> Answer(u, "refused")
          [] leads[place] # None /\ user[u].root = place -> Ends(u, "configured", place)
          [] OTHER -> Goes(u, [Idle EXCEPT !.step = "publishing", !.place = place])
     /\ UNCHANGED <<files, lock, leads, deaths>>
Disable(u) == Is(u, "idle") /\ Initialized /\ Read(u, "disabling", None)
DisableLoads(u) ==
  LET read == user[u].read
  IN /\ Is(u, "disabling")
     /\ CASE ~Loads(read) -> Answer(u, "refused")
          [] Loads(read) /\ read.schema = "v1" /\ ~read.enabled -> Answer(u, "disabled")
          [] OTHER -> Goes(u, [Idle EXCEPT !.step = "publishing"])
     /\ UNCHANGED <<files, lock, leads, deaths>>
\* _publish_sources: the file is replaced whatever it says by now, and read again.
ReplaceSources(u) ==
  /\ Is(u, "publishing")
  /\ sources' = Source("v1", user[u].place)
  /\ Step(u, "verifying")
  /\ UNCHANGED <<dirs, manifest, lock, leads, deaths>>
ReadBack(u) == Is(u, "verifying") /\ Read(u, "confirming", user[u].place)
\* (Wrong: what was written is taken for what is there.)
VerifiedAny(read, place) == TRUE
Verified(read, place) ==
  Loads(read) /\ read.schema = "v1" /\ read.enabled = (place # None) /\ Root(read) = place
Verify(u) ==
  LET place == user[u].place
  IN /\ Is(u, "confirming")
     /\ IF Verified(user[u].read, place)
        THEN Ends(u, IF place = None THEN "disabled" ELSE "configured", place)
        ELSE Answer(u, "refused")
     /\ UNCHANGED <<files, lock, leads, deaths>>
\* standard_part_settings: what a registry of parts is given.
LoadSettings(u) == Is(u, "idle") /\ Initialized /\ Read(u, "loading", None)
SettingsLoad(u) ==
  LET read == user[u].read
  IN /\ Is(u, "loading")
     /\ IF Loads(read) THEN Ends(u, "settings", Root(read)) ELSE Answer(u, "refused")
     /\ UNCHANGED <<files, lock, leads, deaths>>

-----------------------------------------------------------------------------
(* Around the program *)

\* A catalog directory goes, comes back or becomes a link to another one.
Move(place) ==
  /\ place \notin Protected
  /\ \E to \in {None, place} \cup {other \in Places : leads[other] = other} :
       /\ \A other \in Places \ {place} : leads[other] # place
       /\ leads' = [leads EXCEPT ![place] = to]
  /\ UNCHANGED <<files, lock, user, deaths>>
\* Somebody removes the lock file of an initialization that was killed, or of
\* one that was taken for killed.
RemoveLock ==
  /\ lock # None
  /\ lock' = None
  /\ UNCHANGED <<files, leads, user, deaths>>
\* The lock file is not removed by anyone.
Die(u) ==
  /\ ~Is(u, "idle") /\ deaths < MaxDeaths
  /\ deaths' = deaths + 1
  /\ lock' = IF lock = u THEN "stale" ELSE lock
  /\ Goes(u, Idle)
  /\ UNCHANGED <<files, leads>>

-----------------------------------------------------------------------------
\* Nothing yet, or a workspace of an earlier release whose sources file has
\* no schema version.
Init ==
  /\ \/ dirs = 0 /\ sources = None /\ manifest = None
     \/ /\ dirs = Directories
        /\ \E place \in Places \ Protected : sources = Source("legacy", place)
        /\ manifest \in [actor : Actors, group : {None}, by : Users]
  /\ leads = [place \in Places |-> place]
  /\ lock = None /\ deaths = 0
  /\ user = [u \in Users |-> Idle]

Initialize(u) ==
  \/ \E actor \in Actors \cup {None}, group \in Groups \cup {None} :
       AlreadyInitialized(u, actor, group) \/ Begin(u, actor, group)
  \/ DryRun(u) \/ MakeWorkspace(u) \/ Lock(u) \/ MakeDirectory(u) \/ PublishSources(u)
  \/ PublishManifest(u) \/ WriteFails(u) \/ Unlock(u)
Configure(u) ==
  \/ (\E place \in Places : Enable(u, place))
  \/ EnableLoads(u) \/ Resolve(u) \/ Probe(u) \/ Disable(u) \/ DisableLoads(u)
  \/ ReplaceSources(u) \/ ReadBack(u) \/ Verify(u) \/ LoadSettings(u) \/ SettingsLoad(u)
Next ==
  \/ \E u \in Users : Initialize(u) \/ Configure(u) \/ Die(u)
  \/ (\E place \in Places : Move(place))
  \/ RemoveLock
Spec == Init /\ [][Next]_vars

-----------------------------------------------------------------------------
(* Properties *)

Answers ==
  {None, "initialized", "already_initialized", "dry_run", "refused", "locked", "configured",
   "disabled", "settings"}
Steps ==
  {"idle", "making", "locking", "directories", "manifest", "unlocking", "enabling", "resolving",
   "probing", "disabling", "publishing", "verifying", "confirming", "loading"}
SourcesTyped(value) ==
  /\ value.schema \in {"v1", "legacy"} /\ value.root \in Places \cup {None}
  /\ value.enabled = (value.root # None)
TypeOK ==
  /\ dirs \in 0..Directories
  /\ manifest \in Manifest \cup {None}
  /\ sources # None => SourcesTyped(sources)
  /\ lock \in Users \cup {"stale", None}
  /\ leads \in [Places -> Places \cup {None}]
  /\ \A u \in Users :
       /\ user[u].step \in Steps /\ user[u].answer \in Answers
       /\ user[u].step \in {"directories", "manifest", "unlocking"} => dirs > 0
       /\ user[u].step \in {"enabling", "disabling", "confirming", "loading"} =>
            user[u].read # None /\ SourcesTyped(user[u].read)

\* A workspace that has a manifest has everything the manifest names, however
\* many initializations were killed, failed, overlapped or lost their lock;
\* the manifest keeps the identity it was given first; and what the operation
\* answers is so: "initialized" is said by the one whose identity was kept.
InitializedComplete == Initialized => dirs = Directories /\ sources # None
IdentityStep ==
  /\ Initialized => manifest' = manifest
  /\ \A u \in Users : user'[u].answer = "initialized" /\ user[u].answer = None
                         => manifest'.by = u
IdentityKept == [][IdentityStep]_vars

\* The catalog directories may go, or become links into the workspace, at any time,
\* and nobody holds a lock while the binding is replaced.  All the same the sources
\* never name a protected directory, no registry of parts is given one, and who is
\* told "configured" is told of a directory that is there by then, and to which the
\* binding led that was in the file when it was last read.
BindingLed(u, place) ==
  IF Is(u, "probing") THEN user[u].root = place ELSE leads[user[u].read.root] = place
CatalogStep ==
  /\ sources' # sources => sources'.root \notin Protected
  /\ \A u \in Users : user'[u] # user[u] =>
       /\ user'[u].answer \in {"settings", "configured"} => user'[u].place \notin Protected
       /\ user'[u].answer = "configured" =>
            leads[user'[u].place] # None /\ BindingLed(u, user'[u].place)
CatalogOutside == [][CatalogStep]_vars
=============================================================================
