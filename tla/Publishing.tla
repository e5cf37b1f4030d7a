------------------------------ MODULE Publishing ------------------------------
(***************************************************************************)
(* The clients that publish versions of one project: `lwid push` and `lwid *)
(* pull` in working directories, and tabs of the web shell, where loading, *)
(* uploading, restoring and a viewer's save overlap at each request.       *)
(*                                                                         *)
(* A client reads the root, makes a version whose parent it is, and sets   *)
(* the root to it; the server does not compare the two.  What a client     *)
(* publishes is what it has, be it ever so old.                            *)
(***************************************************************************)
EXTENDS Integers, Sequences

CONSTANTS
  Dir,          \* working directories with keys
  Tab,          \* tabs of the shell with the write key
  Path,
  Task,         \* slots for commands and the shell's async functions
  MaxVersions,  \* bound on published versions
  MaxRevs,      \* bound on contents of files
  MaxFaults,    \* bound on failed requests
  None

ASSUME PublishingType ==
  /\ Dir \cap Tab = {}
  /\ MaxVersions \in Nat /\ MaxRevs \in Nat /\ MaxFaults \in Nat
  /\ None \notin 1 .. MaxRevs

VARIABLES
  version,  \* the published versions: their parent and their files
  root,     \* the project's root: the number of a version, or 0
  rev,      \* how many contents there were
  files,    \* files[d]: the directory's files; files[t]: currentFiles
  shown,    \* shown[t]: currentManifestCid
  task,     \* task[x]: the locals of what runs in slot x
  faults,
  base,     \* history: the version a place's files were taken from
  edited,   \* history: what was edited in a directory since
  torn      \* history: tabs where an assignment fell into another's load

vars == <<version, root, rev, files, shown, task, faults, base, edited, torn>>

Place == Dir \cup Tab
Rev == 1 .. MaxRevs
Files == [Path -> Rev \cup {None}]
NoFiles == [p \in Path |-> None]
Numbers == 0 .. MaxVersions
Version == [parent : Numbers, files : Files]

\* `own` and `from` are history: the paths a publication may change (all, once
\* it turns out that its files are not from its parent), and the version that
\* the rest of its files was taken from.
TaskType ==
  [pc : {"parent", "publish", "settle", "reload", "pull", "write"},
   kind : {"push", "pull", "load", "latest", "upload", "save", "restore"},
   at : Place, files : Files, sel : SUBSET Path, parent : Numbers,
   want : Numbers, todo : SUBSET Path, own : SUBSET Path, from : Numbers]

ASSUME NoneIsNoTask == None \notin TaskType

Busy(pl) == \E x \in Task : task[x] # None /\ task[x].at = pl
At(x, pc) == task[x] # None /\ task[x].pc = pc

TypeOK ==
  /\ version \in Seq(Version) /\ Len(version) <= MaxVersions
  /\ root \in 0 .. Len(version)
  /\ rev \in 0 .. MaxRevs
  /\ files \in [Place -> Files]
  /\ shown \in [Tab -> 0 .. Len(version)]
  /\ task \in [Task -> TaskType \cup {None}]
  /\ faults \in 0 .. MaxFaults
  /\ base \in [Place -> 0 .. Len(version)]
  /\ edited \in [Dir -> SUBSET Path]
  /\ torn \subseteq Tab
  /\ \A i \in DOMAIN version : version[i].parent < i
  /\ \A x \in Task : At(x, "pull") \/ At(x, "write") \/ At(x, "settle") =>
       task[x].want \in DOMAIN version

Init ==
  /\ version = <<>>
  /\ root = 0
  /\ rev = 0
  /\ files = [pl \in Place |-> NoFiles]
  /\ shown = [t \in Tab |-> 0]
  /\ task = [x \in Task |-> None]
  /\ faults = 0
  /\ base = [pl \in Place |-> 0]
  /\ edited = [d \in Dir |-> {}]
  /\ torn = {}

-----------------------------------------------------------------------------
(* Beginnings.                                                             *)

Locals ==
  [pl \in Place |->
    [pc |-> "parent", kind |-> "push", at |-> pl, files |-> NoFiles, sel |-> {},
     parent |-> 0, want |-> 0, todo |-> {}, own |-> {}, from |-> 0]]

Reloading(t) == [Locals[t] EXCEPT !.pc = "reload", !.kind = "latest"]

Begin(x, locals) ==
  /\ task[x] = None
  /\ task' = [task EXCEPT ![x] = locals]

Finish(x) == task' = [task EXCEPT ![x] = None]

\* The user writes or removes a file.
Edit(d, p) ==
  /\ \/ /\ rev < MaxRevs
        /\ rev' = rev + 1
        /\ files' = [files EXCEPT ![d][p] = rev']
     \/ /\ files[d][p] # None
        /\ files' = [files EXCEPT ![d][p] = None]
        /\ UNCHANGED rev
  /\ edited' = [edited EXCEPT ![d] = @ \cup {p}]
  /\ UNCHANGED <<version, root, shown, task, faults, base, torn>>

\* push.rs: all files, or those that were named.  (One command runs in a
\* directory at a time.)
PushBegin(x, d, sel) ==
  /\ ~ Busy(d)
  /\ \A p \in sel : files[d][p] # None
  /\ files[d] # NoFiles
  /\ Begin(x, [Locals[d] EXCEPT !.files = files[d], !.sel = sel,
                                !.own = IF sel = {} THEN edited[d] ELSE sel,
                                !.from = base[d]])
  /\ UNCHANGED <<version, root, rev, files, shown, faults, base, edited, torn>>

\* pull.rs: the project and its manifest.
PullBegin(x, d) ==
  /\ ~ Busy(d)
  /\ root # 0
  /\ Begin(x, [Locals[d] EXCEPT !.pc = "write", !.kind = "pull", !.want = root,
                                !.todo = {p \in Path : version[root].files[p] # None}])
  /\ base' = [base EXCEPT ![d] = 0]
  /\ edited' = [edited EXCEPT ![d] = {}]
  /\ UNCHANGED <<version, root, rev, files, shown, faults, torn>>

\* loadProject without a version, when the tab is opened.
OpenBegin(x, t) ==
  /\ Begin(x, Reloading(t))
  /\ UNCHANGED <<version, root, rev, files, shown, faults, base, edited, torn>>

\* loadProject with a version of the history panel.
SlipLoadBegin(x, t, v) ==
  /\ v \in DOMAIN version
  /\ Begin(x, [Locals[t] EXCEPT !.pc = "pull", !.kind = "load", !.want = v])
  /\ shown' = [shown EXCEPT ![t] = v]
  /\ UNCHANGED <<version, root, rev, files, faults, base, edited, torn>>

LoadBegin(x, t, v) ==
  /\ v \in DOMAIN version
  /\ Begin(x, [Locals[t] EXCEPT !.pc = "pull", !.kind = "load", !.want = v])
  /\ UNCHANGED <<version, root, rev, files, shown, faults, base, edited, torn>>

\* handlePushUpdate and LWID_HOST_SAVE: currentFiles, overlaid with a file that
\* was chosen or changed.
OverlayBegin(x, t, p, kind) ==
  /\ rev < MaxRevs
  /\ rev' = rev + 1
  /\ Begin(x, [Locals[t] EXCEPT !.kind = kind,
                                !.files = [files[t] EXCEPT ![p] = rev'],
                                !.own = {p}, !.from = base[t]])
  /\ UNCHANGED <<version, root, files, shown, faults, base, edited, torn>>

\* restoreVersion, which first pulls the version.  (The history panel may be
\* older than what the tab shows.)
RestoreBegin(x, t, v) ==
  /\ v \in DOMAIN version /\ shown[t] # 0
  /\ Begin(x, [Locals[t] EXCEPT !.kind = "restore",
                                !.files = version[v].files, !.own = Path])
  /\ UNCHANGED <<version, root, rev, files, shown, faults, base, edited, torn>>

-----------------------------------------------------------------------------
(* Publication: push.rs and pushVersion.                                   *)

\* merge_with_existing.
SlipMerged(x) ==
  [p \in Path |-> IF p \in task[x].sel THEN task[x].files[p] ELSE None]

Merged(x) ==
  [p \in Path |-> IF p \in task[x].sel THEN task[x].files[p]
                  ELSE IF root = 0 THEN None ELSE version[root].files[p]]

\* get_project; a push of named files is merged with the parent's.  (The
\* manifest is another request, but never changes.)
GetParent(x) ==
  LET t == task[x]
      selective == t.sel # {}
  IN
  /\ At(x, "parent")
  /\ task' = [task EXCEPT ![x] = [t EXCEPT
       !.pc = "publish", !.parent = root, !.from = 0,
       !.files = IF selective THEN Merged(x) ELSE t.files,
       !.own = IF selective \/ t.from = root THEN t.own ELSE Path]]
  /\ UNCHANGED <<version, root, rev, files, shown, faults, base, edited, torn>>

\* The new version is the root, whatever the root was.
Published(x) ==
  /\ Len(version) < MaxVersions
  /\ version' = Append(version, [parent |-> task[x].parent, files |-> task[x].files])
  /\ root' = Len(version')

\* update_root.  History: a directory that was pushed as a whole is what the
\* new version has, but for later edits.
Publish(x) ==
  LET t == task[x] IN
  /\ At(x, "publish")
  /\ Published(x)
  /\ CASE t.kind = "push" -> Finish(x)
       [] t.kind = "save" -> task' = [task EXCEPT ![x] =
            [Locals[t.at] EXCEPT !.pc = "settle", !.kind = "save",
                                 !.files = t.files, !.want = root']]
       [] OTHER -> task' = [task EXCEPT ![x] = Reloading(t.at)]
  /\ IF t.kind = "push" /\ t.sel = {}
     THEN /\ base' = [base EXCEPT ![t.at] = root']
          /\ edited' = [edited EXCEPT ![t.at] = {p \in Path : files[t.at][p] # t.files[p]}]
     ELSE UNCHANGED <<base, edited>>
  /\ UNCHANGED <<rev, files, shown, faults, torn>>

-----------------------------------------------------------------------------
(* What a client does with a version that it read or published.            *)

\* fs::write of one file of the version.
SlipPulled(x, p) == version[root].files[p]

Pulled(x, p) == version[task[x].want].files[p]

PullFile(x, p) ==
  LET d == task[x].at IN
  /\ At(x, "write")
  /\ p \in task[x].todo
  /\ files' = [files EXCEPT ![d][p] = Pulled(x, p)]
  /\ task' = [task EXCEPT ![x].todo = @ \ {p}]
  /\ edited' = [edited EXCEPT ![d] = @ \ {p}]
  /\ UNCHANGED <<version, root, rev, shown, faults, base, torn>>

PullDone(x) ==
  /\ At(x, "write")
  /\ task[x].todo = {}
  /\ base' = [base EXCEPT ![task[x].at] = task[x].want]
  /\ Finish(x)
  /\ UNCHANGED <<version, root, rev, files, shown, faults, edited, torn>>

\* The loads in tab t that have set currentManifestCid, but not yet currentFiles.
Gaps(t) == {x \in Task : At(x, "pull") /\ task[x].kind = "latest" /\ task[x].at = t}
InGap(x, t) == Gaps(t) \ {x} # {}

\* History: whether an assignment in tab t falls into another load's gap.
Torn(x, t) == torn' = IF InGap(x, t) THEN torn \cup {t} ELSE torn \ {t}

\* loadProject: the project's root is shown as current, then pulled.
SlipReload(x) ==
  LET t == task[x].at IN
  /\ At(x, "reload")
  /\ shown' = [shown EXCEPT ![t] = root]
  /\ task' = [task EXCEPT ![x].pc = "pull", ![x].want = root]
  /\ Torn(x, t)
  /\ UNCHANGED <<version, root, rev, files, faults, base, edited>>

Reload(x) ==
  LET t == task[x].at IN
  /\ At(x, "reload")
  /\ IF root = 0
     THEN Finish(x) /\ UNCHANGED <<shown, torn>>
     ELSE /\ shown' = [shown EXCEPT ![t] = root]
          /\ task' = [task EXCEPT ![x].pc = "pull", ![x].want = root]
          /\ Torn(x, t)
  /\ UNCHANGED <<version, root, rev, files, faults, base, edited>>

\* The version has been pulled; a version that was asked for is now current.
Load(x) ==
  LET t == task[x].at
      v == task[x].want
  IN
  /\ At(x, "pull")
  /\ files' = [files EXCEPT ![t] = version[v].files]
  /\ shown' = IF task[x].kind = "load" THEN [shown EXCEPT ![t] = v] ELSE shown
  /\ base' = [base EXCEPT ![t] = v]
  /\ IF task[x].kind = "load" \/ InGap(x, t) THEN Torn(x, t) ELSE UNCHANGED torn
  /\ Finish(x)
  /\ UNCHANGED <<version, root, rev, faults, edited>>

\* The rest of LWID_HOST_SAVE.
Settle(x) ==
  LET t == task[x].at IN
  /\ At(x, "settle")
  /\ shown' = [shown EXCEPT ![t] = task[x].want]
  /\ files' = [files EXCEPT ![t] = task[x].files]
  /\ base' = [base EXCEPT ![t] = task[x].want]
  /\ Torn(x, t)
  /\ Finish(x)
  /\ UNCHANGED <<version, root, rev, faults, edited>>

\* A request fails or a command is interrupted; update_root may have had its
\* effect.
RequestFails(x) ==
  /\ task[x] # None /\ task[x].pc # "settle"
  /\ faults < MaxFaults
  /\ faults' = faults + 1
  /\ \/ UNCHANGED <<version, root>>
     \/ At(x, "publish") /\ Published(x)
  /\ torn' = IF x \in Gaps(task[x].at) THEN torn \cup {task[x].at} ELSE torn
  /\ Finish(x)
  /\ UNCHANGED <<rev, files, shown, base, edited>>

-----------------------------------------------------------------------------

DirNext(d) ==
  \/ \E p \in Path : Edit(d, p)
  \/ \E x \in Task : PullBegin(x, d) \/ \E sel \in SUBSET Path : PushBegin(x, d, sel)

TabNext(t) ==
  \E x \in Task :
    \/ OpenBegin(x, t)
    \/ \E p \in Path, kind \in {"upload", "save"} : OverlayBegin(x, t, p, kind)
    \/ \E v \in 1 .. MaxVersions : LoadBegin(x, t, v) \/ RestoreBegin(x, t, v)

TaskNext(x) ==
  \/ GetParent(x) \/ Publish(x)
  \/ PullDone(x) \/ \E p \in Path : PullFile(x, p)
  \/ Reload(x) \/ Load(x) \/ Settle(x)
  \/ RequestFails(x)

Next ==
  \/ \E d \in Dir : DirNext(d)
  \/ \E t \in Tab : TabNext(t)
  \/ \E x \in Task : TaskNext(x)

Spec == Init /\ [][Next]_vars

-----------------------------------------------------------------------------
(* Properties.                                                             *)

\* A client whose files come from the current version, and that nobody
\* overtakes, changes only the files it means to: every other file of the
\* version stays as it was, through pulls, edits, loads, merges and saves.  (A
\* push of a whole directory may add a file: a pull never removes one.)
PublishedBy(x) == At(x, "publish") /\ task'[x] # task[x] /\ version' # version
UntouchedKept ==
  [][\A x \in Task :
       (PublishedBy(x) /\ root # 0 /\ task[x].parent = root) =>
       \A p \in Path \ task[x].own :
         \/ version'[root'].files[p] = version[root].files[p]
         \/ /\ version[root].files[p] = None
            /\ task[x].kind = "push" /\ task[x].sel = {}]_vars

\* What a place has, if its files are from a version: that version's files.  A
\* directory may have been edited since, and have files besides.
OneVersion(pl) ==
  LET v == version[base[pl]].files IN
  base[pl] # 0 =>
    \/ files[pl] = v
    \/ /\ pl \in Dir
       /\ \A p \in Path \ edited[pl] : v[p] # None => files[pl][p] = v[p]

\* A directory that was pulled has the files of one version, except for what
\* was edited, although versions were published while it was pulled file by
\* file; a tab always has the files of one version.
PullsOneVersion == \A pl \in Place : OneVersion(pl)

\* The tab marks the version as current whose files it has, unless a load of
\* the latest version is on its way or another load, or a save, ended while
\* one was.
Matches(t) == files[t] = IF shown[t] = 0 THEN NoFiles ELSE version[shown[t]].files
ShownMatches ==
  \A t \in Tab : t \notin torn /\ Gaps(t) = {} => Matches(t)

-----------------------------------------------------------------------------
(* Why the properties hold: what is inductive.                             *)

\* What runs in a slot knows only versions up to the last, and does what belongs
\* to the place it is at.
LocalsFit(t, last) ==
  /\ t.parent <= last /\ t.from <= last
  /\ t.at \in Dir <=> t.kind \in {"push", "pull"}
  /\ t.pc \in {"parent", "publish"} => t.kind \in {"push", "upload", "save", "restore"}
  /\ t.pc = "reload" => t.kind = "latest"
  /\ t.pc = "pull" => t.kind \in {"load", "latest"}
  /\ t.pc = "settle" => t.kind = "save"
  /\ t.pc = "write" => t.kind = "pull"

\* One command at a time runs in a directory.
Alone(x, y) ==
  task[x] # None /\ task[y] # None /\ task[x].at = task[y].at /\ task[x].at \in Dir => x = y

LocalsOK ==
  /\ \A x \in Task : task[x] # None => LocalsFit(task[x], Len(version))
  /\ \A x, y \in Task : Alone(x, y)

\* What a pull has written is of its version, and the directory is not taken
\* for that version before all is written.
PullOK(x) ==
  LET d == task[x].at
      v == version[task[x].want].files
  IN
  At(x, "write") =>
    /\ base[d] = 0
    /\ \A p \in Path \ (edited[d] \cup task[x].todo) : v[p] # None => files[d][p] = v[p]

\* A save settles with the files that it published.
SettleOK(x) == At(x, "settle") => task[x].files = version[task[x].want].files

\* What is to be published as version v's child has v's files, but for those
\* that are meant to change, and for those a whole directory has besides.
Derived(x, v) ==
  \A p \in Path \ task[x].own :
    \/ task[x].files[p] = version[v].files[p]
    \/ version[v].files[p] = None /\ task[x].kind = "push" /\ task[x].sel = {}

CarriedOK(x) ==
  /\ At(x, "parent") /\ task[x].sel = {} /\ task[x].from # 0 => Derived(x, task[x].from)
  /\ At(x, "publish") /\ task[x].parent # 0 => Derived(x, task[x].parent)
  /\ task[x] # None /\ task[x].sel # {} =>
       task[x].kind = "push" /\ (task[x].pc = "parent" => task[x].own = task[x].sel)

TaskOK(x) == PullOK(x) /\ SettleOK(x) /\ CarriedOK(x)

PublishingInv == PullsOneVersion /\ \A x \in Task : TaskOK(x)

\* A tab that is not torn is between loads, or in the middle of one alone, whose
\* version it marks already.
ShownOK(t) ==
  t \notin torn =>
    \/ Gaps(t) = {} /\ Matches(t)
    \/ \E x \in Task : Gaps(t) = {x} /\ shown[t] = task[x].want

ShownInv == \A t \in Tab : ShownOK(t)

=============================================================================
