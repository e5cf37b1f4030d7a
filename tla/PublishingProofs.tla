-------------------------- MODULE PublishingProofs --------------------------
(***************************************************************************)
(* What publishing changes and what a pull yields, for any number of       *)
(* directories, tabs, files, tasks, versions and failures.                 *)
(***************************************************************************)
EXTENDS Publishing, TLAPS

-----------------------------------------------------------------------------
(* Type correctness, in three parts.                                       *)

VersionsOK ==
  /\ version \in Seq(Version) /\ Len(version) <= MaxVersions
  /\ root \in 0 .. Len(version)
  /\ \A i \in DOMAIN version : version[i].parent < i

TasksOK ==
  /\ task \in [Task -> TaskType \cup {None}]
  /\ \A x \in Task : At(x, "pull") \/ At(x, "write") \/ At(x, "settle") =>
       task[x].want \in DOMAIN version

PlacesOK ==
  /\ rev \in 0 .. MaxRevs
  /\ files \in [Place -> Files]
  /\ shown \in [Tab -> 0 .. Len(version)]
  /\ faults \in 0 .. MaxFaults
  /\ base \in [Place -> 0 .. Len(version)]
  /\ edited \in [Dir -> SUBSET Path]
  /\ torn \subseteq Tab

LEMMA TypeParts == TypeOK <=> VersionsOK /\ TasksOK /\ PlacesOK
BY DEF TypeOK, VersionsOK, TasksOK, PlacesOK

\* Versions are added, and stay what they are.
Grows ==
  /\ Len(version) <= Len(version')
  /\ \A i \in DOMAIN version : i \in DOMAIN version' /\ version'[i] = version[i]

LEMMA Unpublished ==
  ASSUME VersionsOK, UNCHANGED <<version, root>>
  PROVE  VersionsOK' /\ Grows
BY DEF VersionsOK, Grows

LEMMA PublishedGrows ==
  ASSUME TypeOK, LocalsOK, NEW x \in Task, task[x] # None, Published(x)
  PROVE  /\ VersionsOK' /\ Grows
         /\ root' = Len(version) + 1 /\ root' \in DOMAIN version'
         /\ version'[root'].files = task[x].files
<1> DEFINE v == [parent |-> task[x].parent, files |-> task[x].files]
<1>1. v \in Version /\ v.parent <= Len(version) /\ v.files = task[x].files
  BY DEF TypeOK, TaskType, Version, LocalsOK, LocalsFit
<1>2. /\ version \in Seq(Version) /\ Len(version) < MaxVersions
      /\ version' = Append(version, v) /\ root' = Len(version')
  BY DEF Published, TypeOK
<1> HIDE DEF v
<1>3. /\ version' \in Seq(Version) /\ Len(version') = Len(version) + 1
      /\ \A i \in DOMAIN version : version'[i] = version[i]
      /\ version'[Len(version) + 1] = v
  BY <1>1, <1>2
<1>4. /\ Len(version) \in Nat
      /\ DOMAIN version = 1 .. Len(version) /\ DOMAIN version' = 1 .. Len(version) + 1
  BY <1>2, <1>3
<1>5. ASSUME NEW i \in DOMAIN version' PROVE version'[i].parent < i
  <2>1. CASE i \in DOMAIN version
    BY <1>3, <2>1 DEF TypeOK
  <2>2. CASE i = Len(version) + 1
    <3>1. v.parent \in Nat
      BY <1>1 DEF Version, Numbers
    <3> QED BY <1>1, <1>3, <1>4, <2>2, <3>1
  <2> QED BY <1>4, <2>1, <2>2
<1> QED BY <1>1, <1>2, <1>3, <1>4, <1>5, PublishingType DEF VersionsOK, Grows

\* Slot x gets the locals t, which fit, and does not join another command.
LEMMA TaskChanges ==
  ASSUME TypeOK, LocalsOK, Grows, NEW x \in Task, NEW t \in TaskType,
         task' = [task EXCEPT ![x] = t], LocalsFit(t, Len(version')),
         t.pc \in {"pull", "write", "settle"} => t.want \in DOMAIN version',
         \/ task[x] # None /\ t.at = task[x].at
         \/ t.at \notin Dir
         \/ ~ Busy(t.at)
  PROVE  TasksOK' /\ LocalsOK'
<1>1. task' \in [Task -> TaskType \cup {None}]
  BY DEF TypeOK
<1>2. \A y \in Task : y # x => task'[y] = task[y]
  BY DEF TypeOK
<1>3. task'[x] = t
  BY DEF TypeOK
<1>4. \A y \in Task : At(y, "pull")' \/ At(y, "write")' \/ At(y, "settle")' =>
        task'[y].want \in DOMAIN version'
  BY <1>2, <1>3 DEF At, TypeOK, Grows
<1>5. ASSUME NEW y \in Task, task'[y] # None PROVE LocalsFit(task'[y], Len(version'))
  <2>1. CASE y = x
    BY <1>3, <2>1 DEF LocalsFit
  <2>2. CASE y # x
    <3>1. LocalsFit(task[y], Len(version)) /\ task'[y] = task[y]
      BY <1>2, <1>5, <2>2 DEF LocalsOK
    <3>2. task[y].parent \in Int /\ task[y].from \in Int /\ Len(version) \in Int /\ Len(version') \in Int
      BY <1>2, <1>5, <2>2, PublishingType DEF TypeOK, TaskType, Numbers, Grows
    <3> QED BY <3>1, <3>2 DEF LocalsFit, Grows
  <2> QED BY <2>1, <2>2
<1>6. ASSUME NEW y \in Task, NEW z \in Task PROVE Alone(y, z)'
  <2>1. Alone(y, z) /\ Alone(x, z) /\ Alone(y, x)
    BY DEF LocalsOK
  <2> QED BY <1>2, <1>3, <2>1 DEF Alone, Busy
<1> QED BY <1>1, <1>4, <1>5, <1>6 DEF TasksOK, LocalsOK

LEMMA TaskEnds ==
  ASSUME TypeOK, LocalsOK, Grows, NEW x \in Task, Finish(x)
  PROVE  TasksOK' /\ LocalsOK'
<1>1. task' \in [Task -> TaskType \cup {None}]
  BY DEF TypeOK, Finish
<1>2. task'[x] = None /\ \A y \in Task : y # x => task'[y] = task[y]
  BY DEF TypeOK, Finish
<1>4. \A y \in Task : At(y, "pull")' \/ At(y, "write")' \/ At(y, "settle")' =>
        task'[y].want \in DOMAIN version'
  BY <1>2 DEF At, TypeOK, Grows
<1>5. ASSUME NEW y \in Task, task'[y] # None PROVE LocalsFit(task'[y], Len(version'))
  <2>1. LocalsFit(task[y], Len(version)) /\ task'[y] = task[y]
    BY <1>2, <1>5 DEF LocalsOK
  <2>2. task[y].parent \in Int /\ task[y].from \in Int /\ Len(version) \in Int /\ Len(version') \in Int
    BY <1>2, <1>5, PublishingType DEF TypeOK, TaskType, Numbers, Grows
  <2> QED BY <2>1, <2>2 DEF LocalsFit, Grows
<1>6. \A y, z \in Task : Alone(y, z)'
  BY <1>2 DEF LocalsOK, Alone
<1> QED BY <1>1, <1>4, <1>5, <1>6 DEF TasksOK, LocalsOK

\* The fields of the locals of a slot.
LEMMA TaskFields ==
  ASSUME TypeOK, LocalsOK, NEW x \in Task, task[x] # None
  PROVE  /\ task[x] \in TaskType /\ task[x].at \in Place /\ LocalsFit(task[x], Len(version))
         /\ task[x].parent \in Nat /\ task[x].from \in Nat
         /\ task[x].want \in Nat /\ Len(version) \in Nat
BY PublishingType DEF TypeOK, TaskType, Numbers, LocalsOK

\* A command or a function of the shell begins.
LEMMA BeginOK ==
  ASSUME TypeOK, LocalsOK, NEW x \in Task, NEW t \in TaskType, Begin(x, t),
         UNCHANGED <<version, root>>, LocalsFit(t, Len(version)),
         t.pc \in {"pull", "write", "settle"} => t.want \in DOMAIN version,
         t.at \notin Dir \/ ~ Busy(t.at)
  PROVE  VersionsOK' /\ TasksOK' /\ LocalsOK'
<1>1. VersionsOK' /\ Grows
  BY Unpublished, TypeParts
<1>2. LocalsFit(t, Len(version'))
  BY DEF LocalsFit
<1> QED BY <1>1, <1>2, TaskChanges DEF Begin

\* The locals at the beginning.
Fresh(pl) ==
  /\ Locals[pl] \in TaskType
  /\ Locals[pl].pc = "parent" /\ Locals[pl].kind = "push" /\ Locals[pl].at = pl
  /\ Locals[pl].sel = {} /\ Locals[pl].parent = 0 /\ Locals[pl].from = 0

LEMMA LocalsType == ASSUME NEW pl \in Place PROVE Fresh(pl)
BY PublishingType DEF Fresh, Locals, TaskType, Files, NoFiles, Numbers

LEMMA RootKnown ==
  ASSUME TypeOK
  PROVE  /\ root \in Numbers /\ Len(version) \in Nat
         /\ DOMAIN version = 1 .. Len(version)
         /\ DOMAIN version \subseteq Numbers
         /\ \A v \in DOMAIN version : version[v].files \in Files
<1>1. version \in Seq(Version) /\ Len(version) <= MaxVersions /\ root \in 0 .. Len(version)
  BY DEF TypeOK
<1>2. Len(version) \in Nat /\ DOMAIN version = 1 .. Len(version)
  BY <1>1
<1>3. \A v \in DOMAIN version : version[v] \in Version
  BY <1>1, <1>2
<1> QED BY <1>1, <1>2, <1>3, PublishingType DEF Numbers, Version

LEMMA InitOK == Init => TypeOK /\ LocalsOK
<1> SUFFICES ASSUME Init PROVE TypeOK /\ LocalsOK
  OBVIOUS
<1>1. VersionsOK
  BY PublishingType DEF Init, VersionsOK
<1>2. TasksOK /\ LocalsOK
  BY DEF Init, TasksOK, LocalsOK, At, Alone
<1>3. PlacesOK
  BY PublishingType DEF Init, PlacesOK, Files, NoFiles, Place
<1> QED BY <1>1, <1>2, <1>3, TypeParts

LEMMA BeginnersOK ==
  ASSUME TypeOK, LocalsOK
  PROVE  /\ \A x \in Task, d \in Dir, sel \in SUBSET Path : PushBegin(x, d, sel) => (TypeOK /\ LocalsOK)'
         /\ \A x \in Task, d \in Dir : PullBegin(x, d) => (TypeOK /\ LocalsOK)'
         /\ \A x \in Task, t \in Tab : OpenBegin(x, t) => (TypeOK /\ LocalsOK)'
         /\ \A x \in Task, t \in Tab, v \in Numbers : LoadBegin(x, t, v) => (TypeOK /\ LocalsOK)'
         /\ \A x \in Task, t \in Tab, p \in Path, kind \in {"upload", "save"} :
              OverlayBegin(x, t, p, kind) => (TypeOK /\ LocalsOK)'
         /\ \A x \in Task, t \in Tab, v \in Numbers : RestoreBegin(x, t, v) => (TypeOK /\ LocalsOK)'
<1>0. \A t \in Tab : t \notin Dir /\ t \in Place
  BY PublishingType DEF Place
<1>1. ASSUME NEW x \in Task, NEW d \in Dir, NEW sel \in SUBSET Path, PushBegin(x, d, sel)
      PROVE  (TypeOK /\ LocalsOK)'
  <2> DEFINE t == [Locals[d] EXCEPT !.files = files[d], !.sel = sel,
                     !.own = IF sel = {} THEN edited[d] ELSE sel, !.from = base[d]]
  <2>0. d \in Place
    BY DEF Place
  <2>1. base[d] \in Numbers /\ base[d] <= Len(version) /\ files[d] \in Files /\ edited[d] \in SUBSET Path
    BY <2>0, RootKnown, PublishingType DEF TypeOK, Numbers
  <2>9. Fresh(d)
    BY <2>0, LocalsType
  <2>2. t \in TaskType /\ t.pc = "parent" /\ t.kind = "push" /\ t.at = d /\ t.parent = 0 /\ t.from = base[d]
    BY <2>0, <2>1, <2>9 DEF Fresh, TaskType
  <2> HIDE DEF t
  <2>3. LocalsFit(t, Len(version))
    BY <2>1, <2>2, RootKnown DEF LocalsFit
  <2>4. Begin(x, t) /\ ~ Busy(d)
    BY <1>1 DEF PushBegin, t
  <2>5. VersionsOK' /\ TasksOK' /\ LocalsOK'
    BY <1>1, <2>2, <2>3, <2>4, BeginOK DEF PushBegin
  <2>6. PlacesOK'
    BY <1>1 DEF PushBegin, TypeOK, PlacesOK
  <2> QED BY <2>5, <2>6 DEF TypeOK, VersionsOK, TasksOK, PlacesOK
<1>2. ASSUME NEW x \in Task, NEW d \in Dir, PullBegin(x, d) PROVE (TypeOK /\ LocalsOK)'
  <2> DEFINE t == [Locals[d] EXCEPT !.pc = "write", !.kind = "pull", !.want = root,
                     !.todo = {p \in Path : version[root].files[p] # None}]
  <2>1. root \in Numbers /\ root \in DOMAIN version /\ d \in Place
    BY <1>2, RootKnown DEF PullBegin, TypeOK, Place
  <2>9. Fresh(d)
    BY <2>1, LocalsType
  <2>2. /\ t \in TaskType /\ t.pc = "write" /\ t.kind = "pull" /\ t.at = d
        /\ t.parent = 0 /\ t.from = 0 /\ t.want = root
    BY <2>1, <2>9 DEF Fresh, TaskType
  <2> HIDE DEF t
  <2>3. LocalsFit(t, Len(version))
    BY <2>1, <2>2, RootKnown DEF LocalsFit
  <2>4. Begin(x, t) /\ ~ Busy(d)
    BY <1>2 DEF PullBegin, t
  <2>5. VersionsOK' /\ TasksOK' /\ LocalsOK'
    BY <1>2, <2>1, <2>2, <2>3, <2>4, BeginOK DEF PullBegin
  <2>6. PlacesOK'
    BY <1>2, <2>1, RootKnown DEF PullBegin, TypeOK, PlacesOK
  <2> QED BY <2>5, <2>6 DEF TypeOK, VersionsOK, TasksOK, PlacesOK
<1>3. ASSUME NEW x \in Task, NEW pl \in Tab, OpenBegin(x, pl) PROVE (TypeOK /\ LocalsOK)'
  <2> DEFINE t == Reloading(pl)
  <2>9. Fresh(pl)
    BY <1>0, LocalsType
  <2>2. t \in TaskType /\ t.pc = "reload" /\ t.kind = "latest" /\ t.at = pl /\ t.parent = 0 /\ t.from = 0
    BY <1>0, <2>9 DEF Fresh, Reloading, TaskType
  <2> HIDE DEF t
  <2>3. LocalsFit(t, Len(version))
    BY <1>0, <2>2, RootKnown DEF LocalsFit
  <2>4. Begin(x, t) /\ t.at \notin Dir
    BY <1>0, <1>3, <2>2 DEF OpenBegin, t
  <2>5. VersionsOK' /\ TasksOK' /\ LocalsOK'
    BY <1>3, <2>2, <2>3, <2>4, BeginOK DEF OpenBegin
  <2>6. PlacesOK'
    BY <1>3 DEF OpenBegin, TypeOK, PlacesOK
  <2> QED BY <2>5, <2>6 DEF TypeOK, VersionsOK, TasksOK, PlacesOK
<1>4. ASSUME NEW x \in Task, NEW pl \in Tab, NEW v \in Numbers, LoadBegin(x, pl, v)
      PROVE  (TypeOK /\ LocalsOK)'
  <2> DEFINE t == [Locals[pl] EXCEPT !.pc = "pull", !.kind = "load", !.want = v]
  <2>9. Fresh(pl)
    BY <1>0, LocalsType
  <2>2. /\ t \in TaskType /\ t.pc = "pull" /\ t.kind = "load" /\ t.at = pl
        /\ t.parent = 0 /\ t.from = 0 /\ t.want = v
    BY <1>0, <2>9 DEF Fresh, TaskType
  <2> HIDE DEF t
  <2>3. LocalsFit(t, Len(version))
    BY <1>0, <2>2, RootKnown DEF LocalsFit
  <2>4. Begin(x, t) /\ t.at \notin Dir /\ t.want \in DOMAIN version
    BY <1>0, <1>4, <2>2 DEF LoadBegin, t
  <2>5. VersionsOK' /\ TasksOK' /\ LocalsOK'
    BY <1>4, <2>2, <2>3, <2>4, BeginOK DEF LoadBegin
  <2>6. PlacesOK'
    BY <1>4 DEF LoadBegin, TypeOK, PlacesOK
  <2> QED BY <2>5, <2>6 DEF TypeOK, VersionsOK, TasksOK, PlacesOK
<1>5. ASSUME NEW x \in Task, NEW pl \in Tab, NEW p \in Path, NEW kind \in {"upload", "save"},
             OverlayBegin(x, pl, p, kind)
      PROVE  (TypeOK /\ LocalsOK)'
  <2> DEFINE fs == [files[pl] EXCEPT ![p] = rev']
             t == [Locals[pl] EXCEPT !.kind = kind, !.files = fs, !.own = {p}, !.from = base[pl]]
  <2>1. /\ base[pl] \in Numbers /\ base[pl] <= Len(version)
        /\ files[pl] \in Files /\ rev' \in Rev /\ rev' \in 0 .. MaxRevs
    BY <1>0, <1>5, RootKnown, PublishingType DEF OverlayBegin, TypeOK, Numbers, Rev
  <2>2. fs \in Files
    BY <2>1 DEF Files
  <2> HIDE DEF fs
  <2>9. Fresh(pl)
    BY <1>0, LocalsType
  <2>3. /\ t \in TaskType /\ t.pc = "parent" /\ t.kind = kind /\ t.at = pl
        /\ t.parent = 0 /\ t.from = base[pl]
    BY <1>0, <2>1, <2>2, <2>9 DEF Fresh, TaskType
  <2> HIDE DEF t
  <2>4. LocalsFit(t, Len(version))
    BY <1>0, <2>1, <2>3, RootKnown DEF LocalsFit
  <2>5. Begin(x, t) /\ t.at \notin Dir
    BY <1>0, <1>5, <2>3 DEF OverlayBegin, t, fs
  <2>6. VersionsOK' /\ TasksOK' /\ LocalsOK'
    BY <1>5, <2>3, <2>4, <2>5, BeginOK DEF OverlayBegin
  <2>7. PlacesOK'
    BY <1>5, <2>1 DEF OverlayBegin, TypeOK, PlacesOK
  <2> QED BY <2>6, <2>7 DEF TypeOK, VersionsOK, TasksOK, PlacesOK
<1>6. ASSUME NEW x \in Task, NEW pl \in Tab, NEW v \in Numbers, RestoreBegin(x, pl, v)
      PROVE  (TypeOK /\ LocalsOK)'
  <2> DEFINE t == [Locals[pl] EXCEPT !.kind = "restore", !.files = version[v].files, !.own = Path]
  <2>1. version[v].files \in Files
    BY <1>6, RootKnown DEF RestoreBegin
  <2>9. Fresh(pl)
    BY <1>0, LocalsType
  <2>2. t \in TaskType /\ t.pc = "parent" /\ t.kind = "restore" /\ t.at = pl /\ t.parent = 0 /\ t.from = 0
    BY <1>0, <2>1, <2>9 DEF Fresh, TaskType
  <2> HIDE DEF t
  <2>3. LocalsFit(t, Len(version))
    BY <1>0, <2>2, RootKnown DEF LocalsFit
  <2>4. Begin(x, t) /\ t.at \notin Dir
    BY <1>0, <1>6, <2>2 DEF RestoreBegin, t
  <2>5. VersionsOK' /\ TasksOK' /\ LocalsOK'
    BY <1>6, <2>2, <2>3, <2>4, BeginOK DEF RestoreBegin
  <2>6. PlacesOK'
    BY <1>6 DEF RestoreBegin, TypeOK, PlacesOK
  <2> QED BY <2>5, <2>6 DEF TypeOK, VersionsOK, TasksOK, PlacesOK
<1> QED BY <1>1, <1>2, <1>3, <1>4, <1>5, <1>6

\* The steps that publish nothing: places, then tasks.
LEMMA SettlersOK ==
  ASSUME TypeOK, LocalsOK, NEW x \in Task
  PROVE  /\ PullDone(x) => (TypeOK /\ LocalsOK)'
         /\ Load(x) => (TypeOK /\ LocalsOK)'
         /\ Settle(x) => (TypeOK /\ LocalsOK)'
<1>1. ASSUME PullDone(x) PROVE (TypeOK /\ LocalsOK)'
  <2>1. VersionsOK' /\ Grows
    BY <1>1, Unpublished, TypeParts DEF PullDone
  <2>2. TasksOK' /\ LocalsOK'
    BY <1>1, <2>1, TaskEnds DEF PullDone
  <2>3. task[x].at \in Place /\ task[x].want \in 0 .. Len(version)
    BY <1>1, RootKnown, TaskFields DEF PullDone, At, TypeOK
  <2>4. PlacesOK'
    BY <1>1, <2>3 DEF PullDone, TypeOK, PlacesOK
  <2> QED BY <2>1, <2>2, <2>4 DEF TypeOK, VersionsOK, TasksOK, PlacesOK
<1>2. ASSUME Load(x) PROVE (TypeOK /\ LocalsOK)'
  <2>1. VersionsOK' /\ Grows
    BY <1>2, Unpublished, TypeParts DEF Load
  <2>2. TasksOK' /\ LocalsOK'
    BY <1>2, <2>1, TaskEnds DEF Load
  <2>3. /\ task[x] # None /\ task[x].at \in Place /\ task[x].at \notin Dir
        /\ task[x].want \in DOMAIN version
    BY <1>2, TaskFields DEF Load, At, TypeOK, LocalsFit
  <2>4. task[x].at \in Tab /\ version[task[x].want].files \in Files /\ task[x].want \in 0 .. Len(version)
    BY <2>3, RootKnown DEF Place
  <2>5. torn' \subseteq Tab
    BY <1>2, <2>4 DEF Load, Torn, TypeOK
  <2>6. PlacesOK'
    BY <1>2, <2>4, <2>5 DEF Load, TypeOK, PlacesOK
  <2> QED BY <2>1, <2>2, <2>6 DEF TypeOK, VersionsOK, TasksOK, PlacesOK
<1>3. ASSUME Settle(x) PROVE (TypeOK /\ LocalsOK)'
  <2>1. VersionsOK' /\ Grows
    BY <1>3, Unpublished, TypeParts DEF Settle
  <2>2. TasksOK' /\ LocalsOK'
    BY <1>3, <2>1, TaskEnds DEF Settle
  <2>3. /\ task[x].at \in Place /\ task[x].at \notin Dir /\ task[x].files \in Files
        /\ task[x].want \in DOMAIN version
    BY <1>3, TaskFields DEF Settle, At, TypeOK, TaskType, LocalsFit
  <2>4. task[x].at \in Tab /\ task[x].want \in 0 .. Len(version)
    BY <2>3, RootKnown DEF Place
  <2>5. torn' \subseteq Tab
    BY <1>3, <2>4 DEF Settle, Torn, TypeOK
  <2>6. PlacesOK'
    BY <1>3, <2>3, <2>4, <2>5 DEF Settle, TypeOK, PlacesOK
  <2> QED BY <2>1, <2>2, <2>6 DEF TypeOK, VersionsOK, TasksOK, PlacesOK
<1> QED BY <1>1, <1>2, <1>3

LEMMA GetParentOK ==
  ASSUME TypeOK, LocalsOK, NEW x \in Task, GetParent(x)
  PROVE  (TypeOK /\ LocalsOK)'
<1> DEFINE fs == IF task[x].sel # {} THEN Merged(x) ELSE task[x].files
           own == IF task[x].sel # {} \/ task[x].from = root THEN task[x].own ELSE Path
           t == [task[x] EXCEPT !.pc = "publish", !.parent = root, !.from = 0,
                                !.files = fs, !.own = own]
<1>1. /\ At(x, "parent") /\ UNCHANGED <<version, root, rev, files, shown, faults, base, edited, torn>>
      /\ task' = [task EXCEPT ![x] = t]
  BY DEF GetParent, TypeOK
<1>2. task[x] # None /\ task[x] \in TaskType /\ LocalsFit(task[x], Len(version)) /\ task[x].pc = "parent"
  BY <1>1, TaskFields DEF At
<1>3. VersionsOK' /\ Grows
  BY <1>1, Unpublished, TypeParts
<1>4. Merged(x) \in Files
  <2>1. root # 0 => root \in DOMAIN version /\ version[root].files \in Files
    BY RootKnown DEF TypeOK
  <2>2. task[x].files \in Files
    BY <1>2 DEF TaskType
  <2> QED BY <2>1, <2>2 DEF Merged, Files
<1>5. fs \in Files /\ own \in SUBSET Path
  BY <1>2, <1>4 DEF TaskType
<1> HIDE DEF fs, own
<1>6. /\ t \in TaskType /\ t.pc = "publish" /\ t.parent = root /\ t.from = 0
      /\ t.kind = task[x].kind /\ t.at = task[x].at
  <2>1. root \in Numbers /\ 0 \in Numbers
    BY RootKnown, PublishingType DEF Numbers
  <2>2. t \in TaskType
    BY <1>2, <1>5, <2>1 DEF TaskType
  <2>3. t.pc = "publish" /\ t.parent = root /\ t.from = 0 /\ t.kind = task[x].kind /\ t.at = task[x].at
    BY <1>2 DEF TaskType
  <2> QED BY <2>2, <2>3
<1> HIDE DEF t
<1>7. LocalsFit(t, Len(version'))
  BY <1>1, <1>2, <1>6, RootKnown DEF LocalsFit, TypeOK
<1>8. TasksOK' /\ LocalsOK'
  BY <1>1, <1>2, <1>3, <1>6, <1>7, TaskChanges
<1>9. PlacesOK'
  BY <1>1 DEF TypeOK, PlacesOK
<1> QED BY <1>3, <1>8, <1>9 DEF TypeOK, VersionsOK, TasksOK, PlacesOK

LEMMA PublishOK ==
  ASSUME TypeOK, LocalsOK, NEW x \in Task, Publish(x)
  PROVE  (TypeOK /\ LocalsOK)'
<1>1. task[x] # None /\ task[x] \in TaskType /\ LocalsFit(task[x], Len(version)) /\ task[x].pc = "publish"
  BY TaskFields DEF Publish, At
<1>2. /\ VersionsOK' /\ Grows /\ root' = Len(version) + 1
      /\ root' \in DOMAIN version' /\ root' \in Numbers
  <2>1. VersionsOK' /\ Grows /\ root' = Len(version) + 1 /\ root' \in DOMAIN version'
    BY <1>1, PublishedGrows DEF Publish
  <2>2. Len(version) < MaxVersions /\ Len(version) \in Nat
    BY RootKnown DEF Publish, Published
  <2> QED BY <2>1, <2>2, PublishingType DEF Numbers
<1>3. TasksOK' /\ LocalsOK'
  <2>1. CASE task[x].kind = "push"
    BY <1>2, <2>1, TaskEnds DEF Publish
  <2>2. CASE task[x].kind = "save"
    <3> DEFINE t == [Locals[task[x].at] EXCEPT !.pc = "settle", !.kind = "save",
                       !.files = task[x].files, !.want = root']
    <3>1. task' = [task EXCEPT ![x] = t]
      BY <2>2 DEF Publish
    <3>2. Fresh(task[x].at)
      BY <1>1, LocalsType DEF TaskType
    <3>3. /\ t \in TaskType /\ t.pc = "settle" /\ t.kind = "save" /\ t.at = task[x].at
          /\ t.want = root' /\ t.parent = 0 /\ t.from = 0
      BY <1>1, <1>2, <3>2 DEF Fresh, TaskType
    <3> HIDE DEF t
    <3>4. LocalsFit(t, Len(version'))
      BY <1>1, <1>2, <2>2, <3>3, RootKnown DEF LocalsFit, Grows, VersionsOK
    <3> QED BY <1>1, <1>2, <3>1, <3>3, <3>4, TaskChanges
  <2>3. CASE task[x].kind \notin {"push", "save"}
    <3> DEFINE t == Reloading(task[x].at)
    <3>1. task' = [task EXCEPT ![x] = t]
      BY <2>3 DEF Publish
    <3>2. Fresh(task[x].at)
      BY <1>1, LocalsType DEF TaskType
    <3>3. /\ t \in TaskType /\ t.pc = "reload" /\ t.kind = "latest" /\ t.at = task[x].at
          /\ t.parent = 0 /\ t.from = 0
      BY <1>1, <3>2 DEF Fresh, TaskType, Reloading
    <3> HIDE DEF t
    <3>4. LocalsFit(t, Len(version'))
      BY <1>1, <1>2, <2>3, <3>3, RootKnown DEF LocalsFit, Grows, VersionsOK
    <3> QED BY <1>1, <1>2, <3>1, <3>3, <3>4, TaskChanges
  <2> QED BY <2>1, <2>2, <2>3
<1>4. PlacesOK'
  <2>1. task[x].kind = "push" => task[x].at \in Dir /\ task[x].at \in Place
    BY <1>1 DEF LocalsFit, TaskType
  <2>2. root' \in 0 .. Len(version') /\ Len(version') \in Nat /\ Len(version) \in Nat /\ Len(version) <= Len(version')
    BY <1>2, RootKnown DEF VersionsOK, Grows
  <2>3. base' \in [Place -> 0 .. Len(version')] /\ edited' \in [Dir -> SUBSET Path]
    <3>1. CASE task[x].kind = "push" /\ task[x].sel = {}
      <4> DEFINE d == task[x].at
                 es == {p \in Path : files[d][p] # task[x].files[p]}
      <4>1. base' = [base EXCEPT ![d] = root'] /\ edited' = [edited EXCEPT ![d] = es]
        BY <3>1 DEF Publish
      <4>2. d \in Dir /\ es \in SUBSET Path
        BY <2>1, <3>1
      <4> HIDE DEF d, es
      <4>3. edited \in [Dir -> SUBSET Path] /\ base \in [Place -> 0 .. Len(version)]
        BY DEF TypeOK
      <4>4. base \in [Place -> 0 .. Len(version')]
        BY <2>2, <4>3
      <4> QED BY <2>2, <4>1, <4>2, <4>3, <4>4
    <3>2. CASE ~ (task[x].kind = "push" /\ task[x].sel = {})
      BY <2>2, <3>2 DEF Publish, TypeOK
    <3> QED BY <3>1, <3>2
  <2>4. shown' \in [Tab -> 0 .. Len(version')]
    BY <2>2 DEF Publish, TypeOK
  <2> QED BY <2>3, <2>4 DEF Publish, TypeOK, PlacesOK
<1> QED BY <1>2, <1>3, <1>4 DEF TypeOK, VersionsOK, TasksOK, PlacesOK

LEMMA EditOK ==
  ASSUME TypeOK, LocalsOK, NEW d \in Dir, NEW p \in Path, Edit(d, p)
  PROVE  (TypeOK /\ LocalsOK)'
<1>1. VersionsOK' /\ TasksOK' /\ LocalsOK'
  BY DEF Edit, TypeOK, VersionsOK, TasksOK, LocalsOK, LocalsFit, Alone, At
<1>2. PICK c \in Rev \cup {None} : files' = [files EXCEPT ![d][p] = c] /\ rev' \in 0 .. MaxRevs
  <2>1. CASE rev < MaxRevs /\ rev' = rev + 1 /\ files' = [files EXCEPT ![d][p] = rev']
    <3>1. rev' \in Rev /\ rev' \in 0 .. MaxRevs
      BY <2>1, PublishingType DEF TypeOK, Rev
    <3> QED BY <2>1, <3>1
  <2>2. CASE files' = [files EXCEPT ![d][p] = None] /\ UNCHANGED rev
    BY <2>2 DEF TypeOK
  <2> QED BY <2>1, <2>2 DEF Edit
<1>3. files' \in [Place -> Files]
  <2>1. d \in Place /\ files[d] \in Files
    BY DEF Place, TypeOK
  <2>2. [files[d] EXCEPT ![p] = c] \in Files
    BY <2>1 DEF Files
  <2> QED BY <1>2, <2>1, <2>2 DEF TypeOK
<1>4. PlacesOK'
  BY <1>2, <1>3 DEF Edit, TypeOK, PlacesOK
<1> QED BY <1>1, <1>4 DEF TypeOK, VersionsOK, TasksOK, PlacesOK

LEMMA PullFileOK ==
  ASSUME TypeOK, LocalsOK, NEW x \in Task, NEW p \in Path, PullFile(x, p)
  PROVE  (TypeOK /\ LocalsOK)'
<1> DEFINE t == [task[x] EXCEPT !.todo = @ \ {p}]
           d == task[x].at
<1>1. /\ At(x, "write") /\ task[x] # None /\ task[x] \in TaskType /\ d \in Place
      /\ LocalsFit(task[x], Len(version)) /\ task[x].pc = "write"
      /\ task[x].want \in DOMAIN version
  BY TaskFields DEF PullFile, At, TypeOK
<1>2. VersionsOK' /\ Grows
  BY Unpublished, TypeParts DEF PullFile
<1>3. task' = [task EXCEPT ![x] = t]
  BY DEF PullFile, TypeOK
<1>4. /\ t \in TaskType /\ t.pc = "write" /\ t.kind = task[x].kind /\ t.at = d
      /\ t.want = task[x].want /\ t.parent = task[x].parent /\ t.from = task[x].from
  <2>1. task[x].todo \ {p} \in SUBSET Path
    BY <1>1 DEF TaskType
  <2> QED BY <1>1, <2>1 DEF TaskType
<1> HIDE DEF t, d
<1>5. LocalsFit(t, Len(version'))
  BY <1>1, <1>4 DEF LocalsFit, d, PullFile
<1>6. TasksOK' /\ LocalsOK'
  BY <1>1, <1>2, <1>3, <1>4, <1>5, TaskChanges DEF d, PullFile
<1>7. files' \in [Place -> Files]
  <2>1. files[d] \in Files /\ Pulled(x, p) \in Rev \cup {None}
    BY <1>1, RootKnown DEF TypeOK, Pulled, Files
  <2>2. [files[d] EXCEPT ![p] = Pulled(x, p)] \in Files
    BY <2>1 DEF Files
  <2>3. files' = [files EXCEPT ![d] = [files[d] EXCEPT ![p] = Pulled(x, p)]]
    BY <1>1 DEF PullFile, d, TypeOK
  <2> QED BY <1>1, <2>2, <2>3 DEF TypeOK
<1>8. edited' \in [Dir -> SUBSET Path]
  <2>1. d \in Dir
    BY <1>1 DEF LocalsFit, d
  <2> QED BY <2>1 DEF PullFile, d, TypeOK
<1>9. PlacesOK'
  BY <1>7, <1>8 DEF PullFile, TypeOK, PlacesOK
<1> QED BY <1>2, <1>6, <1>9 DEF TypeOK, VersionsOK, TasksOK, PlacesOK

LEMMA ReloadOK ==
  ASSUME TypeOK, LocalsOK, NEW x \in Task, Reload(x)
  PROVE  (TypeOK /\ LocalsOK)'
<1> DEFINE t == [task[x] EXCEPT !.pc = "pull", !.want = root]
           tab == task[x].at
<1>1. /\ task[x] # None /\ task[x] \in TaskType /\ tab \in Place
      /\ LocalsFit(task[x], Len(version)) /\ task[x].pc = "reload"
  BY TaskFields DEF Reload, At, TypeOK
<1>2. VersionsOK' /\ Grows
  BY Unpublished, TypeParts DEF Reload
<1>3. tab \in Tab
  BY <1>1 DEF LocalsFit, Place
<1>4. root \in Numbers /\ root \in 0 .. Len(version)
  BY RootKnown DEF TypeOK
<1>5. TasksOK' /\ LocalsOK'
  <2>1. CASE root = 0
    BY <1>2, <2>1, TaskEnds DEF Reload
  <2>2. CASE root # 0
    <3>1. task' = [task EXCEPT ![x] = t]
      BY <2>2 DEF Reload, TypeOK
    <3>2. /\ t \in TaskType /\ t.pc = "pull" /\ t.kind = task[x].kind /\ t.at = tab
          /\ t.want = root /\ t.parent = task[x].parent /\ t.from = task[x].from
      BY <1>1, <1>4 DEF TaskType
    <3> HIDE DEF t
    <3>3. LocalsFit(t, Len(version')) /\ t.want \in DOMAIN version'
      BY <1>1, <1>4, <2>2, <3>2, RootKnown DEF LocalsFit, Reload
    <3> QED BY <1>1, <1>2, <3>1, <3>2, <3>3, TaskChanges
  <2> QED BY <2>1, <2>2
<1>6. PlacesOK'
  <2>1. torn' \subseteq Tab /\ shown' \in [Tab -> 0 .. Len(version)]
    BY <1>3, <1>4 DEF Reload, Torn, TypeOK
  <2> QED BY <2>1 DEF Reload, TypeOK, PlacesOK
<1> QED BY <1>2, <1>5, <1>6 DEF TypeOK, VersionsOK, TasksOK, PlacesOK

LEMMA RequestFailsOK ==
  ASSUME TypeOK, LocalsOK, NEW x \in Task, RequestFails(x)
  PROVE  (TypeOK /\ LocalsOK)'
<1>1. /\ task[x] # None /\ task[x] \in TaskType /\ task[x].at \in Place
      /\ LocalsFit(task[x], Len(version))
  BY TaskFields DEF RequestFails
<1>2. VersionsOK' /\ Grows
  BY <1>1, Unpublished, PublishedGrows, TypeParts DEF RequestFails
<1>3. TasksOK' /\ LocalsOK'
  BY <1>2, TaskEnds DEF RequestFails
<1>4. PlacesOK'
  <2>1. At(x, "pull") => task[x].at \in Tab
    BY <1>1 DEF At, LocalsFit, Place
  <2>2. torn' \subseteq Tab
    BY <2>1 DEF RequestFails, Gaps, TypeOK
  <2>3. Len(version) \in Nat /\ Len(version') \in Nat /\ Len(version) <= Len(version')
    BY <1>2, RootKnown DEF Grows, VersionsOK
  <2>4. shown' \in [Tab -> 0 .. Len(version')] /\ base' \in [Place -> 0 .. Len(version')]
    BY <2>3 DEF RequestFails, TypeOK
  <2>5. faults' \in 0 .. MaxFaults
    BY PublishingType DEF RequestFails, TypeOK
  <2> QED BY <2>2, <2>4, <2>5 DEF RequestFails, TypeOK, PlacesOK
<1> QED BY <1>2, <1>3, <1>4 DEF TypeOK, VersionsOK, TasksOK, PlacesOK

LEMMA NextOK == TypeOK /\ LocalsOK /\ [Next]_vars => (TypeOK /\ LocalsOK)'
<1> SUFFICES ASSUME TypeOK, LocalsOK, [Next]_vars PROVE (TypeOK /\ LocalsOK)'
  OBVIOUS
<1>1. CASE UNCHANGED vars
  BY <1>1 DEF vars, TypeOK, At, LocalsOK, Alone
<1>2. ASSUME NEW d \in Dir, DirNext(d) PROVE (TypeOK /\ LocalsOK)'
  BY <1>2, EditOK, BeginnersOK DEF DirNext
<1>3. ASSUME NEW t \in Tab, TabNext(t) PROVE (TypeOK /\ LocalsOK)'
  <2>1. 1 .. MaxVersions \subseteq Numbers
    BY PublishingType DEF Numbers
  <2> QED BY <1>3, <2>1, BeginnersOK DEF TabNext
<1>4. ASSUME NEW x \in Task, TaskNext(x) PROVE (TypeOK /\ LocalsOK)'
  BY <1>4, GetParentOK, PublishOK, SettlersOK, PullFileOK, ReloadOK, RequestFailsOK DEF TaskNext
<1> QED BY <1>1, <1>2, <1>3, <1>4 DEF Next

LEMMA TypeInv == Spec => [](TypeOK /\ LocalsOK)
BY InitOK, NextOK, PTL DEF Spec

\* Every reachable state is well-formed: places and tasks name only versions
\* that exist, and a version's parent is older.
THEOREM TypeCorrect == Spec => []TypeOK
BY TypeInv, PTL

-----------------------------------------------------------------------------
(* What a place has, and what a task carries.                              *)

\* Every step adds versions and leaves the old ones.
LEMMA NextGrows == TypeOK /\ LocalsOK /\ [Next]_vars => Grows
<1> SUFFICES ASSUME TypeOK, LocalsOK, [Next]_vars PROVE Grows
  OBVIOUS
<1>1. CASE UNCHANGED <<version, root>>
  BY <1>1, Unpublished, TypeParts
<1>2. ASSUME NEW x \in Task, task[x] # None, Published(x) PROVE Grows
  BY <1>2, PublishedGrows
<1>3. UNCHANGED <<version, root>> \/ \E x \in Task : task[x] # None /\ Published(x)
  BY DEF Next, vars, DirNext, TabNext, TaskNext, Edit, PushBegin, PullBegin, OpenBegin,
         LoadBegin, OverlayBegin, RestoreBegin, GetParent, Publish, At, PullFile, PullDone,
         Reload, Load, Settle, RequestFails
<1> QED BY <1>1, <1>2, <1>3

\* A place that a step leaves alone.
LEMMA KeepsPlace ==
  ASSUME TypeOK, Grows, NEW pl \in Place, OneVersion(pl),
         base'[pl] = base[pl], files'[pl] = files[pl],
         pl \in Dir => edited'[pl] = edited[pl]
  PROVE  OneVersion(pl)'
<1>1. base[pl] # 0 => base[pl] \in DOMAIN version
  BY RootKnown DEF TypeOK
<1> QED BY <1>1 DEF OneVersion, Grows

\* A task that a step leaves alone, and its directory.
LEMMA KeepsTask ==
  ASSUME TypeOK, LocalsOK, Grows, NEW y \in Task, TaskOK(y), task'[y] = task[y],
         task[y] # None /\ task[y].at \in Dir =>
           /\ base'[task[y].at] = base[task[y].at] /\ files'[task[y].at] = files[task[y].at]
           /\ edited'[task[y].at] = edited[task[y].at]
  PROVE  TaskOK(y)'
<1>1. CASE task[y] = None
  BY <1>1 DEF TaskOK, PullOK, SettleOK, CarriedOK, At
<1>2. CASE task[y] # None
  <2>1. /\ LocalsFit(task[y], Len(version))
        /\ At(y, "write") \/ At(y, "settle") => task[y].want \in DOMAIN version
        /\ task[y].from # 0 => task[y].from \in DOMAIN version
        /\ task[y].parent # 0 => task[y].parent \in DOMAIN version
    BY <1>2, TaskFields, RootKnown DEF LocalsFit, TypeOK
  <2>2. PullOK(y)'
    BY <2>1 DEF TaskOK, PullOK, At, LocalsFit, Grows
  <2>3. SettleOK(y)'
    BY <2>1 DEF TaskOK, SettleOK, At, Grows
  <2>4. CarriedOK(y)'
    BY <2>1 DEF TaskOK, CarriedOK, Derived, At, Grows
  <2> QED BY <2>2, <2>3, <2>4 DEF TaskOK
<1> QED BY <1>1, <1>2

\* A step of slot x, at most in its own directory.
LEMMA KeepsOthers ==
  ASSUME TypeOK, LocalsOK, Grows, PublishingInv, NEW x \in Task, NEW pl \in Place,
         \A y \in Task \ {x} : task'[y] = task[y],
         \A o \in Place \ {pl} : base'[o] = base[o] /\ files'[o] = files[o],
         \A d \in Dir \ {pl} : edited'[d] = edited[d],
         pl \in Dir => \/ task[x] # None /\ task[x].at = pl
                       \/ ~ Busy(pl)
                       \/ base'[pl] = base[pl] /\ files'[pl] = files[pl] /\ edited'[pl] = edited[pl],
         TaskOK(x)', OneVersion(pl)'
  PROVE  PublishingInv'
<1>1. ASSUME NEW y \in Task, y # x PROVE TaskOK(y)'
  <2>1. ASSUME task[y] # None, task[y].at = pl, pl \in Dir
        PROVE  base'[pl] = base[pl] /\ files'[pl] = files[pl] /\ edited'[pl] = edited[pl]
    <3>1. ~ (task[x] # None /\ task[x].at = pl)
      BY <1>1, <2>1 DEF LocalsOK, Alone
    <3> QED BY <2>1, <3>1 DEF Busy
  <2>2. TaskOK(y) /\ task'[y] = task[y]
    BY <1>1 DEF PublishingInv
  <2>3. task[y] # None => task[y].at \in Place
    BY TaskFields
  <2> QED BY <2>1, <2>2, <2>3, KeepsTask
<1>2. ASSUME NEW o \in Place, o # pl PROVE OneVersion(o)'
  BY <1>2, KeepsPlace DEF PublishingInv, PullsOneVersion
<1> QED BY <1>1, <1>2 DEF PublishingInv, PullsOneVersion

\* A task that carries nothing.
LEMMA Inert ==
  ASSUME NEW x \in Task, task'[x] = None \/ (task'[x].pc \in {"reload", "pull"} /\ task'[x].sel = {})
  PROVE  TaskOK(x)'
BY DEF TaskOK, PullOK, SettleOK, CarriedOK, At

LEMMA InitPublishing == Init => PublishingInv
BY DEF Init, PublishingInv, PullsOneVersion, OneVersion, TaskOK, PullOK, SettleOK, CarriedOK, At

LEMMA EditKeeps ==
  ASSUME TypeOK, LocalsOK, Grows, PublishingInv, NEW d \in Dir, NEW p \in Path, Edit(d, p)
  PROVE  PublishingInv'
<1>1. d \in Place /\ d \in Dir /\ UNCHANGED <<version, task, base>>
  BY DEF Place, Edit
<1>2. edited' = [edited EXCEPT ![d] = @ \cup {p}]
  BY DEF Edit
<1>3. /\ \A o \in Place \ {d} : files'[o] = files[o]
      /\ \A q \in Path \ {p} : files'[d][q] = files[d][q]
  BY <1>1 DEF Edit, TypeOK, Files
<1>4. ASSUME NEW pl \in Place PROVE OneVersion(pl)'
  <2>1. CASE pl # d
    BY <1>1, <1>2, <1>3, <2>1, KeepsPlace DEF PublishingInv, PullsOneVersion, TypeOK
  <2>2. CASE pl = d
    <3>1. OneVersion(d)
      BY <1>1 DEF PublishingInv, PullsOneVersion
    <3>2. edited'[d] = edited[d] \cup {p}
      BY <1>1, <1>2 DEF TypeOK
    <3> QED BY <1>1, <1>3, <2>2, <3>1, <3>2 DEF OneVersion
  <2> QED BY <2>1, <2>2
<1>5. ASSUME NEW y \in Task PROVE TaskOK(y)'
  <2>1. TaskOK(y)
    BY DEF PublishingInv
  <2>2. CASE task[y] # None /\ task[y].at = d
    <3>1. edited'[d] = edited[d] \cup {p}
      BY <1>1, <1>2 DEF TypeOK
    <3>2. PullOK(y)'
      BY <1>1, <1>3, <2>1, <2>2, <3>1 DEF TaskOK, PullOK, At
    <3> QED BY <1>1, <2>1, <3>2 DEF TaskOK, SettleOK, CarriedOK, Derived, At
  <2>3. CASE ~ (task[y] # None /\ task[y].at = d)
    <3>1. task[y] # None => task[y].at \in Place
      BY TaskFields
    <3> QED BY <1>1, <1>2, <1>3, <2>1, <2>3, <3>1, KeepsTask DEF TypeOK
  <2> QED BY <2>2, <2>3
<1> QED BY <1>4, <1>5 DEF PublishingInv, PullsOneVersion

\* The beginnings, of which only a pull's changes what its place has.
LEMMA PushBeginKeeps ==
  ASSUME TypeOK, LocalsOK, Grows, PublishingInv, NEW x \in Task, NEW d \in Dir,
         NEW sel \in SUBSET Path, PushBegin(x, d, sel)
  PROVE  PublishingInv'
<1> DEFINE t == [Locals[d] EXCEPT !.files = files[d], !.sel = sel,
                   !.own = IF sel = {} THEN edited[d] ELSE sel, !.from = base[d]]
<1>1. d \in Place /\ UNCHANGED <<version, root, files, base, edited>>
  BY DEF Place, PushBegin
<1>2. Fresh(d)
  BY <1>1, LocalsType
<1>3. /\ t.pc = "parent" /\ t.kind = "push" /\ t.files = files[d] /\ t.sel = sel
      /\ t.from = base[d] /\ t.own = IF sel = {} THEN edited[d] ELSE sel
  BY <1>2 DEF Fresh, TaskType
<1>4. task' = [task EXCEPT ![x] = t]
  BY DEF PushBegin, Begin
<1> HIDE DEF t
<1>5. task'[x] = t /\ \A y \in Task \ {x} : task'[y] = task[y]
  BY <1>4 DEF TypeOK
<1>6. OneVersion(d)
  BY <1>1 DEF PublishingInv, PullsOneVersion
<1>7. CarriedOK(x)'
  BY <1>1, <1>3, <1>5, <1>6 DEF CarriedOK, Derived, At, OneVersion
<1>8. TaskOK(x)'
  BY <1>3, <1>5, <1>7 DEF TaskOK, PullOK, SettleOK, At
<1>9. OneVersion(d)'
  BY <1>1, <1>6 DEF OneVersion
<1> QED BY <1>1, <1>5, <1>8, <1>9, KeepsOthers

LEMMA PullBeginKeeps ==
  ASSUME TypeOK, LocalsOK, Grows, PublishingInv, NEW x \in Task, NEW d \in Dir, PullBegin(x, d)
  PROVE  PublishingInv'
<1> DEFINE todo == {p \in Path : version[root].files[p] # None}
           t == [Locals[d] EXCEPT !.pc = "write", !.kind = "pull", !.want = root, !.todo = todo]
<1>1. d \in Place /\ ~ Busy(d) /\ UNCHANGED <<version, root, files>>
  BY DEF Place, PullBegin
<1>2. Fresh(d)
  BY <1>1, LocalsType
<1>3. task' = [task EXCEPT ![x] = t]
  BY DEF PullBegin, Begin
<1>4. t.pc = "write" /\ t.kind = "pull" /\ t.want = root /\ t.todo = todo /\ t.at = d /\ t.sel = {}
  BY <1>2 DEF Fresh, TaskType
<1> HIDE DEF t
<1>5. task'[x] = t /\ \A y \in Task \ {x} : task'[y] = task[y]
  BY <1>3 DEF TypeOK
<1>6. /\ base'[d] = 0 /\ \A o \in Place \ {d} : base'[o] = base[o]
      /\ edited'[d] = {} /\ \A o \in Dir \ {d} : edited'[o] = edited[o]
  BY <1>1 DEF PullBegin, TypeOK
<1>7. TaskOK(x)'
  BY <1>1, <1>4, <1>5, <1>6 DEF TaskOK, PullOK, SettleOK, CarriedOK, At
<1>8. OneVersion(d)'
  BY <1>6 DEF OneVersion
<1> QED BY <1>1, <1>5, <1>6, <1>7, <1>8, KeepsOthers

LEMMA TabBeginKeeps ==
  ASSUME TypeOK, LocalsOK, Grows, PublishingInv, NEW x \in Task, NEW pl \in Tab,
         NEW v, NEW p, NEW kind,
         \/ OpenBegin(x, pl) \/ LoadBegin(x, pl, v)
         \/ OverlayBegin(x, pl, p, kind) \/ RestoreBegin(x, pl, v)
  PROVE  PublishingInv'
<1>1. /\ pl \in Place /\ pl \notin Dir /\ UNCHANGED <<version, root, files, base, edited>>
      /\ \A y \in Task \ {x} : task'[y] = task[y]
  BY PublishingType DEF Place, OpenBegin, LoadBegin, OverlayBegin, RestoreBegin, Begin, TypeOK
<1>2. Fresh(pl)
  BY <1>1, LocalsType
<1>3. OneVersion(pl)
  BY <1>1 DEF PublishingInv, PullsOneVersion
<1>4. CASE OpenBegin(x, pl)
  <2>1. task'[x] = Reloading(pl)
    BY <1>4 DEF OpenBegin, Begin, TypeOK
  <2>2. Reloading(pl).pc = "reload" /\ Reloading(pl).sel = {}
    BY <1>2 DEF Fresh, TaskType, Reloading
  <2>3. TaskOK(x)'
    BY <2>1, <2>2, Inert
  <2> QED BY <1>1, <1>3, <2>3, KeepsOthers DEF OneVersion
<1>5. CASE LoadBegin(x, pl, v)
  <2> DEFINE t == [Locals[pl] EXCEPT !.pc = "pull", !.kind = "load", !.want = v]
  <2>1. task'[x] = t
    BY <1>5 DEF LoadBegin, Begin, TypeOK
  <2>2. t.pc = "pull" /\ t.sel = {}
    BY <1>2 DEF Fresh, TaskType
  <2> HIDE DEF t
  <2>3. TaskOK(x)'
    BY <2>1, <2>2, Inert
  <2> QED BY <1>1, <1>3, <2>3, KeepsOthers DEF OneVersion
<1>6. CASE OverlayBegin(x, pl, p, kind)
  <2> DEFINE fs == [files[pl] EXCEPT ![p] = rev']
             t == [Locals[pl] EXCEPT !.kind = kind, !.files = fs, !.own = {p}, !.from = base[pl]]
  <2>1. task'[x] = t
    BY <1>6 DEF OverlayBegin, Begin, TypeOK
  <2>2. \A q \in Path \ {p} : fs[q] = files[pl][q]
    BY <1>1 DEF TypeOK, Files
  <2> HIDE DEF fs
  <2>3. /\ t.pc = "parent" /\ t.sel = {} /\ t.kind = kind /\ t.files = fs
        /\ t.own = {p} /\ t.from = base[pl]
    BY <1>2 DEF Fresh, TaskType
  <2> HIDE DEF t
  <2>4. base[pl] # 0 => files[pl] = version[base[pl]].files
    BY <1>1, <1>3 DEF OneVersion
  <2>5. CarriedOK(x)'
    BY <1>1, <2>1, <2>2, <2>3, <2>4 DEF CarriedOK, Derived, At
  <2>6. TaskOK(x)'
    BY <2>1, <2>3, <2>5 DEF TaskOK, PullOK, SettleOK, At
  <2> QED BY <1>1, <1>3, <2>6, KeepsOthers DEF OneVersion
<1>7. CASE RestoreBegin(x, pl, v)
  <2> DEFINE t == [Locals[pl] EXCEPT !.kind = "restore", !.files = version[v].files, !.own = Path]
  <2>1. task'[x] = t
    BY <1>7 DEF RestoreBegin, Begin, TypeOK
  <2>2. t.pc = "parent" /\ t.sel = {} /\ t.from = 0
    BY <1>2 DEF Fresh, TaskType
  <2> HIDE DEF t
  <2>3. TaskOK(x)'
    BY <2>1, <2>2 DEF TaskOK, PullOK, SettleOK, CarriedOK, At
  <2> QED BY <1>1, <1>3, <2>3, KeepsOthers DEF OneVersion
<1> QED BY <1>4, <1>5, <1>6, <1>7

\* The steps of a task.
LEMMA GetParentKeeps ==
  ASSUME TypeOK, LocalsOK, Grows, PublishingInv, NEW x \in Task, GetParent(x)
  PROVE  PublishingInv'
<1> DEFINE fs == IF task[x].sel # {} THEN Merged(x) ELSE task[x].files
           own == IF task[x].sel # {} \/ task[x].from = root THEN task[x].own ELSE Path
           t == [task[x] EXCEPT !.pc = "publish", !.parent = root, !.from = 0,
                                !.files = fs, !.own = own]
<1>1. /\ task[x] # None /\ task[x] \in TaskType /\ task[x].pc = "parent" /\ task[x].at \in Place
      /\ UNCHANGED <<version, root, files, base, edited>>
  BY TaskFields DEF GetParent, At
<1>2. task' = [task EXCEPT ![x] = t]
  BY DEF GetParent
<1>3. /\ t.pc = "publish" /\ t.parent = root /\ t.files = fs /\ t.own = own
      /\ t.sel = task[x].sel /\ t.kind = task[x].kind
  BY <1>1 DEF TaskType
<1> HIDE DEF t
<1>4. task'[x] = t /\ \A y \in Task \ {x} : task'[y] = task[y]
  BY <1>2 DEF TypeOK
<1>5. CarriedOK(x)
  BY DEF PublishingInv, TaskOK
<1>6. ASSUME root # 0 PROVE Derived(x, root)'
  <2>1. CASE task[x].sel # {}
    <3>1. task[x].kind = "push" /\ task[x].own = task[x].sel
      BY <1>1, <1>5, <2>1 DEF CarriedOK
    <3> QED BY <1>1, <1>3, <1>4, <1>6, <2>1, <3>1 DEF Derived, Merged
  <2>2. CASE task[x].sel = {} /\ task[x].from = root
    <3>1. Derived(x, root)
      BY <1>1, <1>5, <1>6, <2>2 DEF CarriedOK, At
    <3> QED BY <1>1, <1>3, <1>4, <2>2, <3>1 DEF Derived
  <2>3. CASE task[x].sel = {} /\ task[x].from # root
    BY <1>3, <1>4, <2>3 DEF Derived
  <2> QED BY <2>1, <2>2, <2>3
<1>7. CarriedOK(x)'
  BY <1>1, <1>3, <1>4, <1>5, <1>6 DEF CarriedOK, At, Derived
<1>8. TaskOK(x)'
  BY <1>3, <1>4, <1>7 DEF TaskOK, PullOK, SettleOK, At
<1>9. PICK pl \in Place : pl = task[x].at
  BY <1>1
<1>10. OneVersion(pl)'
  BY <1>1, KeepsPlace DEF PublishingInv, PullsOneVersion
<1> QED BY <1>1, <1>4, <1>8, <1>9, <1>10, KeepsOthers

LEMMA PublishKeeps ==
  ASSUME TypeOK, LocalsOK, Grows, PublishingInv, NEW x \in Task, Publish(x)
  PROVE  PublishingInv'
<1>1. /\ task[x] # None /\ task[x] \in TaskType /\ task[x].pc = "publish"
      /\ LocalsFit(task[x], Len(version))
  BY TaskFields DEF Publish, At
<1>2. PICK pl \in Place : pl = task[x].at
  BY <1>1, TaskFields
<1>3. root' \in DOMAIN version' /\ root' # 0 /\ version'[root'].files = task[x].files
  <2>1. root' = Len(version) + 1 /\ root' \in DOMAIN version' /\ version'[root'].files = task[x].files
    BY <1>1, PublishedGrows DEF Publish
  <2> QED BY <2>1, RootKnown
<1>4. OneVersion(pl)
  BY DEF PublishingInv, PullsOneVersion
<1>5. CASE task[x].kind = "push"
  <2>1. task'[x] = None /\ \A y \in Task \ {x} : task'[y] = task[y]
    BY <1>5 DEF Publish, Finish, TypeOK
  <2>2. TaskOK(x)'
    BY <2>1, Inert
  <2>3. pl \in Dir
    BY <1>1, <1>2, <1>5 DEF LocalsFit
  <2>4. UNCHANGED files
    BY DEF Publish
  <2>5. CASE task[x].sel = {}
    <3> DEFINE es == {p \in Path : files[pl][p] # task[x].files[p]}
    <3>1. base' = [base EXCEPT ![pl] = root'] /\ edited' = [edited EXCEPT ![pl] = es]
      BY <1>2, <1>5, <2>5 DEF Publish
    <3>2. base'[pl] = root' /\ edited'[pl] = es
      BY <2>3, <3>1 DEF TypeOK
    <3>3. OneVersion(pl)'
      BY <1>3, <2>3, <2>4, <3>2 DEF OneVersion
    <3>4. /\ \A o \in Place \ {pl} : base'[o] = base[o]
          /\ \A d \in Dir \ {pl} : edited'[d] = edited[d]
      BY <3>1 DEF TypeOK
    <3> QED BY <1>1, <1>2, <2>1, <2>2, <2>4, <3>3, <3>4, KeepsOthers
  <2>6. CASE task[x].sel # {}
    <3>1. UNCHANGED <<base, edited>>
      BY <2>6 DEF Publish
    <3>2. OneVersion(pl)'
      BY <1>4, <2>4, <3>1, KeepsPlace
    <3> QED BY <1>1, <1>2, <2>1, <2>2, <2>4, <3>1, <3>2, KeepsOthers
  <2> QED BY <2>5, <2>6
<1>6. CASE task[x].kind # "push"
  <2>1. UNCHANGED <<base, edited, files>>
    BY <1>6 DEF Publish
  <2>2. OneVersion(pl)'
    BY <1>4, <2>1, KeepsPlace
  <2>3. Fresh(pl)
    BY LocalsType
  <2>4. TaskOK(x)' /\ \A y \in Task \ {x} : task'[y] = task[y]
    <3>1. CASE task[x].kind = "save"
      <4> DEFINE t == [Locals[pl] EXCEPT !.pc = "settle", !.kind = "save",
                         !.files = task[x].files, !.want = root']
      <4>1. task' = [task EXCEPT ![x] = t]
        BY <1>2, <3>1 DEF Publish
      <4>2. t.pc = "settle" /\ t.files = task[x].files /\ t.want = root' /\ t.sel = {}
        BY <2>3 DEF Fresh, TaskType
      <4> HIDE DEF t
      <4>3. task'[x] = t /\ \A y \in Task \ {x} : task'[y] = task[y]
        BY <4>1 DEF TypeOK
      <4> QED BY <1>3, <4>2, <4>3 DEF TaskOK, PullOK, SettleOK, CarriedOK, At
    <3>2. CASE task[x].kind # "save"
      <4>1. task' = [task EXCEPT ![x] = Reloading(pl)]
        BY <1>2, <1>6, <3>2 DEF Publish
      <4>2. Reloading(pl).pc = "reload" /\ Reloading(pl).sel = {}
        BY <2>3 DEF Fresh, TaskType, Reloading
      <4>3. task'[x] = Reloading(pl) /\ \A y \in Task \ {x} : task'[y] = task[y]
        BY <4>1 DEF TypeOK
      <4> QED BY <4>2, <4>3, Inert
    <3> QED BY <3>1, <3>2
  <2> QED BY <1>1, <1>2, <2>1, <2>2, <2>4, KeepsOthers
<1> QED BY <1>5, <1>6

LEMMA PullFileKeeps ==
  ASSUME TypeOK, LocalsOK, Grows, PublishingInv, NEW x \in Task, NEW p \in Path, PullFile(x, p)
  PROVE  PublishingInv'
<1>1. /\ task[x] # None /\ task[x] \in TaskType /\ task[x].pc = "write"
      /\ LocalsFit(task[x], Len(version)) /\ UNCHANGED <<version, base>>
  BY TaskFields DEF PullFile, At
<1>2. PICK d \in Place : d = task[x].at
  BY <1>1, TaskFields
<1>3. d \in Dir
  BY <1>1, <1>2 DEF LocalsFit
<1> DEFINE t == [task[x] EXCEPT !.todo = @ \ {p}]
<1>4. task' = [task EXCEPT ![x] = t]
  BY DEF PullFile, TypeOK
<1>5. /\ t.pc = "write" /\ t.todo = task[x].todo \ {p} /\ t.want = task[x].want
      /\ t.at = d /\ t.sel = task[x].sel /\ t.kind = task[x].kind
  BY <1>1, <1>2 DEF TaskType
<1> HIDE DEF t
<1>6. task'[x] = t /\ \A y \in Task \ {x} : task'[y] = task[y]
  BY <1>4 DEF TypeOK
<1>7. /\ files'[d][p] = version[task[x].want].files[p]
      /\ \A q \in Path \ {p} : files'[d][q] = files[d][q]
      /\ \A o \in Place \ {d} : files'[o] = files[o]
      /\ edited'[d] = edited[d] \ {p} /\ \A o \in Dir \ {d} : edited'[o] = edited[o]
  BY <1>2, <1>3 DEF PullFile, Pulled, TypeOK, Files
<1>8. PullOK(x) /\ CarriedOK(x)
  BY DEF PublishingInv, TaskOK
<1>9. base[d] = 0
  BY <1>1, <1>2, <1>8 DEF PullOK, At
<1>10. TaskOK(x)'
  <2>1. PullOK(x)'
    BY <1>1, <1>2, <1>5, <1>6, <1>7, <1>8, <1>9 DEF PullOK, At
  <2> QED BY <1>1, <1>5, <1>6, <1>8, <2>1 DEF TaskOK, SettleOK, CarriedOK, At
<1>11. OneVersion(d)'
  BY <1>1, <1>9 DEF OneVersion
<1> QED BY <1>1, <1>2, <1>6, <1>7, <1>10, <1>11, KeepsOthers

LEMMA EndKeeps ==
  ASSUME TypeOK, LocalsOK, Grows, PublishingInv, NEW x \in Task,
         PullDone(x) \/ Load(x) \/ Settle(x) \/ RequestFails(x)
  PROVE  PublishingInv'
<1>1. /\ task[x] # None /\ task[x] \in TaskType /\ LocalsFit(task[x], Len(version))
      /\ UNCHANGED edited
  BY TaskFields DEF PullDone, Load, Settle, RequestFails, At
<1>2. PICK pl \in Place : pl = task[x].at
  BY <1>1, TaskFields
<1>3. task'[x] = None /\ \A y \in Task \ {x} : task'[y] = task[y]
  BY DEF PullDone, Load, Settle, RequestFails, Finish, TypeOK
<1>4. TaskOK(x)'
  BY <1>3, Inert
<1>5. OneVersion(pl) /\ PullOK(x) /\ SettleOK(x)
  BY DEF PublishingInv, PullsOneVersion, TaskOK
<1>6. CASE PullDone(x)
  <2>1. /\ At(x, "write") /\ task[x].todo = {} /\ UNCHANGED <<version, files>>
        /\ base'[pl] = task[x].want /\ \A o \in Place \ {pl} : base'[o] = base[o]
    BY <1>2, <1>6 DEF PullDone, TypeOK
  <2>2. pl \in Dir
    BY <1>1, <1>2, <2>1 DEF LocalsFit, At
  <2>3. OneVersion(pl)'
    BY <1>1, <1>2, <1>5, <2>1, <2>2 DEF OneVersion, PullOK
  <2> QED BY <1>1, <1>2, <1>3, <1>4, <2>1, <2>3, KeepsOthers
<1>7. CASE Load(x) \/ Settle(x)
  <2>1. /\ pl \notin Dir /\ UNCHANGED version
        /\ base'[pl] = task[x].want /\ \A o \in Place \ {pl} : base'[o] = base[o]
        /\ \A o \in Place \ {pl} : files'[o] = files[o]
    BY <1>1, <1>2, <1>7 DEF Load, Settle, TypeOK, LocalsFit, At
  <2>2. files'[pl] = version[task[x].want].files
    BY <1>2, <1>5, <1>7 DEF Load, Settle, SettleOK, TypeOK
  <2>3. OneVersion(pl)'
    BY <2>1, <2>2 DEF OneVersion
  <2> QED BY <1>1, <1>2, <1>3, <1>4, <2>1, <2>3, KeepsOthers
<1>8. CASE RequestFails(x)
  <2>1. UNCHANGED <<files, base>>
    BY <1>8 DEF RequestFails
  <2>2. OneVersion(pl)'
    BY <1>1, <1>5, <2>1, KeepsPlace
  <2> QED BY <1>1, <1>2, <1>3, <1>4, <2>1, <2>2, KeepsOthers
<1> QED BY <1>6, <1>7, <1>8

LEMMA ReloadKeeps ==
  ASSUME TypeOK, LocalsOK, Grows, PublishingInv, NEW x \in Task, Reload(x)
  PROVE  PublishingInv'
<1>1. /\ task[x] # None /\ task[x] \in TaskType /\ LocalsFit(task[x], Len(version))
      /\ task[x].pc = "reload" /\ UNCHANGED <<files, base, edited>>
  BY TaskFields DEF Reload, At
<1>2. PICK pl \in Place : pl = task[x].at
  BY <1>1, TaskFields
<1>3. TaskOK(x)' /\ \A y \in Task \ {x} : task'[y] = task[y]
  <2>1. CASE root = 0
    BY <2>1, Inert DEF Reload, Finish, TypeOK
  <2>2. CASE root # 0
    <3> DEFINE t == [task[x] EXCEPT !.pc = "pull", !.want = root]
    <3>1. task'[x] = t /\ \A y \in Task \ {x} : task'[y] = task[y]
      BY <2>2 DEF Reload, TypeOK
    <3>2. CarriedOK(x) /\ task[x].kind # "push"
      BY <1>1 DEF PublishingInv, TaskOK, LocalsFit
    <3>3. t.pc = "pull" /\ t.sel = task[x].sel
      BY <1>1 DEF TaskType
    <3> HIDE DEF t
    <3>4. task[x].sel = {}
      BY <1>1, <3>2 DEF CarriedOK
    <3> QED BY <3>1, <3>3, <3>4, Inert
  <2> QED BY <2>1, <2>2
<1>4. OneVersion(pl)'
  BY <1>1, KeepsPlace DEF PublishingInv, PullsOneVersion
<1> QED BY <1>1, <1>2, <1>3, <1>4, KeepsOthers

LEMMA NextPublishing ==
  TypeOK /\ LocalsOK /\ PublishingInv /\ [Next]_vars => PublishingInv'
<1> SUFFICES ASSUME TypeOK, LocalsOK, PublishingInv, [Next]_vars PROVE PublishingInv'
  OBVIOUS
<1>1. Grows
  BY NextGrows
<1>2. CASE UNCHANGED vars
  <2>1. \A pl \in Place : OneVersion(pl)'
    BY <1>1, <1>2, KeepsPlace DEF vars, PublishingInv, PullsOneVersion
  <2>2. \A y \in Task : TaskOK(y)'
    BY <1>1, <1>2, KeepsTask DEF vars, PublishingInv
  <2> QED BY <2>1, <2>2 DEF PublishingInv, PullsOneVersion
<1>3. ASSUME NEW d \in Dir, DirNext(d) PROVE PublishingInv'
  BY <1>1, <1>3, EditKeeps, PushBeginKeeps, PullBeginKeeps DEF DirNext
<1>4. ASSUME NEW t \in Tab, TabNext(t) PROVE PublishingInv'
  BY <1>1, <1>4, TabBeginKeeps DEF TabNext
<1>5. ASSUME NEW x \in Task, TaskNext(x) PROVE PublishingInv'
  BY <1>1, <1>5, GetParentKeeps, PublishKeeps, PullFileKeeps, EndKeeps, ReloadKeeps DEF TaskNext
<1> QED BY <1>2, <1>3, <1>4, <1>5 DEF Next

LEMMA PublishingInvHolds == Spec => [](TypeOK /\ LocalsOK /\ PublishingInv)
<1>1. Init => PublishingInv
  BY InitPublishing
<1> QED BY <1>1, TypeInv, NextPublishing, PTL DEF Spec

\* However pulls, edits, publications and loads interleave, what was pulled is
\* one version, and what a tab has is one version.
THEOREM PullsOneVersionHolds == Spec => []PullsOneVersion
BY PublishingInvHolds, PTL DEF PublishingInv

-----------------------------------------------------------------------------
(* What a publication changes.                                             *)

\* A new version is what some task carried, and that task ends or goes on.
LEMMA WhoPublishes ==
  ASSUME TypeOK, LocalsOK, Next, version' # version
  PROVE  \E y \in Task : /\ task[y] # None /\ Published(y)
                         /\ \A z \in Task \ {y} : task'[z] = task[z]
<1>1. PICK y \in Task : Publish(y) \/ RequestFails(y)
  BY DEF Next, DirNext, TabNext, TaskNext, Edit, PushBegin, PullBegin, OpenBegin, LoadBegin,
         OverlayBegin, RestoreBegin, GetParent, PullFile, PullDone, Reload, Load, Settle
<1>2. task[y] # None /\ Published(y)
  BY <1>1 DEF Publish, RequestFails, At
<1>3. \A z \in Task \ {y} : task'[z] = task[z]
  BY <1>1 DEF Publish, RequestFails, Finish, TypeOK
<1> QED BY <1>2, <1>3

\* Who publishes a child of the root that it has its files from changes only
\* the files it is about, whatever others did before and do at the same time.
THEOREM UntouchedKeptHolds == Spec => UntouchedKept
<1>1. ASSUME TypeOK, LocalsOK, PublishingInv, Next,
             NEW x \in Task, PublishedBy(x), root # 0, task[x].parent = root,
             NEW p \in Path \ task[x].own
      PROVE  \/ version'[root'].files[p] = version[root].files[p]
             \/ /\ version[root].files[p] = None
                /\ task[x].kind = "push" /\ task[x].sel = {}
  <2>1. PICK y \in Task : /\ task[y] # None /\ Published(y)
                          /\ \A z \in Task \ {y} : task'[z] = task[z]
    BY <1>1, WhoPublishes DEF PublishedBy
  <2>2. y = x
    BY <1>1, <2>1 DEF PublishedBy
  <2>3. version'[root'].files = task[x].files
    BY <1>1, <2>1, <2>2, PublishedGrows
  <2>4. Derived(x, root)
    BY <1>1 DEF PublishingInv, TaskOK, CarriedOK, PublishedBy
  <2> QED BY <1>1, <2>3, <2>4 DEF Derived
<1>2. ASSUME TypeOK, LocalsOK, PublishingInv, Next PROVE
        \A x \in Task :
          (PublishedBy(x) /\ root # 0 /\ task[x].parent = root) =>
          \A p \in Path \ task[x].own :
            \/ version'[root'].files[p] = version[root].files[p]
            \/ /\ version[root].files[p] = None
               /\ task[x].kind = "push" /\ task[x].sel = {}
  BY <1>1, <1>2
<1>3. TypeOK /\ LocalsOK /\ PublishingInv /\ [Next]_vars =>
        [\A x \in Task :
          (PublishedBy(x) /\ root # 0 /\ task[x].parent = root) =>
          \A p \in Path \ task[x].own :
            \/ version'[root'].files[p] = version[root].files[p]
            \/ /\ version[root].files[p] = None
               /\ task[x].kind = "push" /\ task[x].sel = {}]_vars
  BY <1>2
<1> QED BY <1>3, PublishingInvHolds, PTL DEF Spec, UntouchedKept

-----------------------------------------------------------------------------
(* What a tab marks as current.                                            *)

\* A step that leaves the tab's mark and files alone, and its gaps.
LEMMA KeepsShown ==
  ASSUME TypeOK, Grows, NEW t \in Tab, ShownOK(t),
         files'[t] = files[t], shown'[t] = shown[t], t \in torn' <=> t \in torn,
         Gaps(t)' = Gaps(t), \A y \in Gaps(t) : task'[y].want = task[y].want
  PROVE  ShownOK(t)'
<1>1. shown[t] # 0 => shown[t] \in DOMAIN version
  BY RootKnown DEF TypeOK
<1>2. Matches(t) => Matches(t)'
  BY <1>1 DEF Matches, Grows
<1> QED BY <1>2 DEF ShownOK

\* The gaps of a tab, when one slot changes.
LEMMA GapsChange ==
  ASSUME TypeOK, NEW x \in Task, NEW t, \A y \in Task \ {x} : task'[y] = task[y]
  PROVE  /\ Gaps(t)' \ {x} = Gaps(t) \ {x}
         /\ x \in Gaps(t)  <=> At(x, "pull") /\ task[x].kind = "latest" /\ task[x].at = t
         /\ x \in Gaps(t)' <=> At(x, "pull")' /\ task'[x].kind = "latest" /\ task'[x].at = t
         /\ Gaps(t) \subseteq Task /\ Gaps(t)' \subseteq Task
BY DEF Gaps, At

LEMMA InitShown == Init => ShownInv
BY DEF Init, ShownInv, ShownOK, Matches, Gaps, At, Place

\* All steps but those of a load or a save.
LEMMA OthersKeepShown ==
  ASSUME TypeOK, Grows, ShownInv, NEW x \in Task,
         \A y \in Task \ {x} : task'[y] = task[y],
         \A t \in Tab : files'[t] = files[t],
         UNCHANGED <<shown, torn>>,
         ~ (At(x, "pull") /\ task[x].kind = "latest"),
         task'[x] = None \/ task'[x].pc # "pull" \/ task'[x].kind # "latest"
  PROVE  ShownInv'
<1>1. ASSUME NEW t \in Tab PROVE ShownOK(t)'
  <2>1. x \notin Gaps(t) /\ Gaps(t)' = Gaps(t) /\ Gaps(t) \subseteq Task
    <3>1. x \notin Gaps(t)
      BY GapsChange
    <3>2. x \notin Gaps(t)'
      BY GapsChange DEF At
    <3>3. Gaps(t)' \ {x} = Gaps(t) \ {x} /\ Gaps(t) \subseteq Task
      BY GapsChange
    <3> QED BY <3>1, <3>2, <3>3
  <2>2. \A y \in Gaps(t) : task'[y].want = task[y].want
    BY <2>1
  <2>3. ShownOK(t) /\ files'[t] = files[t] /\ shown'[t] = shown[t] /\ torn' = torn
    BY DEF ShownInv
  <2> QED BY <2>1, <2>2, <2>3, KeepsShown
<1> QED BY <1>1 DEF ShownInv

LEMMA ReloadShown ==
  ASSUME TypeOK, LocalsOK, Grows, ShownInv, NEW x \in Task, Reload(x)
  PROVE  ShownInv'
<1>1. /\ task[x] # None /\ task[x] \in TaskType /\ LocalsFit(task[x], Len(version))
      /\ task[x].pc = "reload" /\ task[x].kind = "latest" /\ UNCHANGED <<version, files>>
  BY TaskFields DEF Reload, At, LocalsFit
<1>2. PICK pl \in Tab : pl = task[x].at
  BY <1>1, TaskFields DEF LocalsFit, Place
<1>3. CASE root = 0
  <2>1. task'[x] = None /\ \A y \in Task \ {x} : task'[y] = task[y]
    BY <1>3 DEF Reload, Finish, TypeOK
  <2>2. UNCHANGED <<shown, torn, files>> /\ ~ At(x, "pull")
    BY <1>1, <1>3 DEF Reload, At
  <2> QED BY <2>1, <2>2, OthersKeepShown
<1>4. CASE root # 0
  <2> DEFINE t == [task[x] EXCEPT !.pc = "pull", !.want = root]
  <2>1. task'[x] = t /\ \A y \in Task \ {x} : task'[y] = task[y]
    BY <1>4 DEF Reload, TypeOK
  <2>2. t \in TaskType /\ t.pc = "pull" /\ t.want = root /\ t.kind = "latest" /\ t.at = pl
    <3>1. root \in Numbers
      BY RootKnown
    <3> QED BY <1>1, <1>2, <3>1 DEF TaskType
  <2>3. task'[x] # None
    BY <2>1, <2>2, NoneIsNoTask
  <2> HIDE DEF t
  <2>4. /\ shown'[pl] = root /\ \A o \in Tab \ {pl} : shown'[o] = shown[o]
        /\ torn' = IF Gaps(pl) \ {x} # {} THEN torn \cup {pl} ELSE torn \ {pl}
    BY <1>2, <1>4 DEF Reload, Torn, InGap, TypeOK
  <2>5. ShownOK(pl)'
    <3>1. x \in Gaps(pl)' /\ Gaps(pl)' \ {x} = Gaps(pl) \ {x}
      BY <2>1, <2>2, <2>3, GapsChange DEF At
    <3> QED BY <2>1, <2>2, <2>4, <3>1 DEF ShownOK
  <2>6. ASSUME NEW o \in Tab, o # pl PROVE ShownOK(o)'
    <3>1. Gaps(o)' = Gaps(o) /\ x \notin Gaps(o) /\ Gaps(o) \subseteq Task
      <4>1. task[x].at # o /\ task'[x].at # o
        BY <1>2, <2>1, <2>2, <2>6
      <4>2. x \notin Gaps(o) /\ x \notin Gaps(o)'
        BY <2>1, <4>1, GapsChange
      <4>3. Gaps(o)' \ {x} = Gaps(o) \ {x} /\ Gaps(o) \subseteq Task
        BY <2>1, GapsChange
      <4> QED BY <4>2, <4>3
    <3>2. (o \in torn' <=> o \in torn) /\ shown'[o] = shown[o] /\ files'[o] = files[o]
      BY <1>1, <2>4, <2>6
    <3> QED BY <2>1, <3>1, <3>2, KeepsShown DEF ShownInv
  <2> QED BY <2>5, <2>6 DEF ShownInv
<1> QED BY <1>3, <1>4

\* A load, a save or a failure ends in slot x.
LEMMA EndShown ==
  ASSUME TypeOK, LocalsOK, Grows, PublishingInv, ShownInv, NEW x \in Task,
         PullDone(x) \/ Load(x) \/ Settle(x) \/ RequestFails(x)
  PROVE  ShownInv'
<1>1. task[x] # None /\ task[x] \in TaskType /\ LocalsFit(task[x], Len(version))
  BY TaskFields DEF PullDone, Load, Settle, RequestFails, At
<1>2. PICK pl \in Place : pl = task[x].at
  BY <1>1, TaskFields
<1>3. task'[x] = None /\ \A y \in Task \ {x} : task'[y] = task[y]
  BY DEF PullDone, Load, Settle, RequestFails, Finish, TypeOK
<1>4. ASSUME NEW o
      PROVE  /\ Gaps(o)' = Gaps(o) \ {x} /\ Gaps(o) \subseteq Task
             /\ x \in Gaps(o) <=> At(x, "pull") /\ task[x].kind = "latest" /\ task[x].at = o
  <2>1. x \notin Gaps(o)'
    BY <1>3 DEF Gaps, At
  <2> QED BY <1>3, <2>1, GapsChange
<1>5. ASSUME NEW o \in Tab, o # pl, files'[o] = files[o], shown'[o] = shown[o], o \in torn' <=> o \in torn
      PROVE  ShownOK(o)'
  <2>1. Gaps(o)' = Gaps(o) /\ x \notin Gaps(o) /\ Gaps(o) \subseteq Task
    BY <1>2, <1>4, <1>5
  <2> QED BY <1>3, <1>5, <2>1, KeepsShown DEF ShownInv
<1>6. CASE PullDone(x)
  BY <1>3, <1>6, OthersKeepShown DEF PullDone, At
<1>7. CASE Load(x) \/ Settle(x)
  <2>1. At(x, "pull") \/ At(x, "settle")
    BY <1>7 DEF Load, Settle
  <2>2. pl \in Tab /\ task[x].want \in DOMAIN version /\ task[x].want # 0
    <3>1. pl \in Tab
      BY <1>1, <1>2, <2>1 DEF LocalsFit, Place, At
    <3> QED BY <2>1, <3>1, RootKnown DEF TypeOK
  <2>3. /\ UNCHANGED version /\ files'[pl] = version[task[x].want].files
        /\ \A o \in Tab \ {pl} : files'[o] = files[o] /\ shown'[o] = shown[o]
    <3>1. SettleOK(x)
      BY DEF PublishingInv, TaskOK
    <3> QED BY <1>2, <1>7, <2>2, <3>1 DEF Load, Settle, SettleOK, TypeOK, Place
  <2>4. \A o \in Tab \ {pl} : o \in torn' <=> o \in torn
    BY <1>2, <1>7 DEF Load, Settle, Torn
  <2>5. CASE At(x, "pull") /\ task[x].kind = "latest"
    <3>1. Load(x) /\ UNCHANGED shown /\ x \in Gaps(pl)
      BY <1>2, <1>4, <1>7, <2>5 DEF Load, Settle, At
    <3>2. torn' = IF Gaps(pl) \ {x} # {} THEN torn \cup {pl} ELSE torn
      BY <1>2, <2>5, <3>1 DEF Load, Torn, InGap
    <3>3. ASSUME pl \notin torn' PROVE Gaps(pl)' = {} /\ Matches(pl)'
      <4>1. pl \notin torn /\ Gaps(pl) \ {x} = {}
        BY <3>2, <3>3
      <4>2. shown[pl] = task[x].want
        BY <2>2, <3>1, <4>1 DEF ShownInv, ShownOK
      <4> QED BY <1>4, <2>2, <2>3, <3>1, <4>1, <4>2 DEF Matches
    <3>4. ShownOK(pl)'
      BY <3>3 DEF ShownOK
    <3> QED BY <1>5, <2>3, <2>4, <3>4 DEF ShownInv
  <2>6. CASE ~ (At(x, "pull") /\ task[x].kind = "latest")
    <3>1. x \notin Gaps(pl)
      BY <1>4, <2>6
    <3>2. /\ shown'[pl] = task[x].want
          /\ torn' = IF Gaps(pl) \ {x} # {} THEN torn \cup {pl} ELSE torn \ {pl}
      BY <1>1, <1>2, <1>7, <2>2, <2>6 DEF Load, Settle, Torn, InGap, TypeOK, LocalsFit, At
    <3>3. ASSUME pl \notin torn' PROVE Gaps(pl)' = {} /\ Matches(pl)'
      BY <1>4, <2>2, <2>3, <3>1, <3>2, <3>3 DEF Matches
    <3>4. ShownOK(pl)'
      BY <3>3 DEF ShownOK
    <3> QED BY <1>5, <2>3, <2>4, <3>4 DEF ShownInv
  <2> QED BY <2>5, <2>6
<1>8. CASE RequestFails(x)
  <2>1. /\ UNCHANGED <<files, shown>>
        /\ torn' = IF x \in Gaps(pl) THEN torn \cup {pl} ELSE torn
    BY <1>2, <1>8 DEF RequestFails
  <2>2. ASSUME NEW o \in Tab PROVE ShownOK(o)'
    <3>1. CASE x \in Gaps(pl) /\ o = pl
      BY <2>1, <3>1 DEF ShownOK
    <3>2. CASE ~ (x \in Gaps(pl) /\ o = pl)
      <4>1. x \notin Gaps(o)
        BY <1>2, <1>4, <3>2
      <4>2. Gaps(o)' = Gaps(o) /\ Gaps(o) \subseteq Task
        BY <1>4, <4>1
      <4>3. \A y \in Gaps(o) : task'[y].want = task[y].want
        BY <1>3, <4>1, <4>2
      <4>4. o \in torn' <=> o \in torn
        BY <2>1, <3>2
      <4> QED BY <2>1, <4>2, <4>3, <4>4, KeepsShown DEF ShownInv
    <3> QED BY <3>1, <3>2
  <2> QED BY <2>2 DEF ShownInv
<1> QED BY <1>6, <1>7, <1>8

\* What begins has not marked anything.
LEMMA BeginShown ==
  ASSUME TypeOK, Grows, ShownInv, NEW x \in Task, NEW locals,
         Begin(x, locals), (locals.pc # "pull") \/ (locals.kind # "latest"),
         UNCHANGED <<files, shown, torn>>
  PROVE  ShownInv'
<1>1. task[x] = None /\ task'[x] = locals /\ \A y \in Task \ {x} : task'[y] = task[y]
  BY DEF Begin, TypeOK
<1> QED BY <1>1, OthersKeepShown DEF At

\* Who publishes or pulls file by file is in no tab's gap, before or after.
LEMMA WriterShown ==
  ASSUME TypeOK, LocalsOK, Grows, ShownInv, NEW x \in Task,
         GetParent(x) \/ Publish(x) \/ \E p \in Path : PullFile(x, p)
  PROVE  ShownInv'
<1>1. /\ task[x] # None /\ task[x] \in TaskType /\ LocalsFit(task[x], Len(version))
      /\ task[x].at \in Place
  BY TaskFields DEF GetParent, Publish, PullFile, At, LocalsFit
<1>2. CASE GetParent(x)
  BY <1>1, <1>2, OthersKeepShown DEF GetParent, At, TypeOK, TaskType
<1>3. CASE Publish(x)
  <2>1. Fresh(task[x].at)
    BY <1>1, LocalsType
  <2>2. /\ \A y \in Task \ {x} : task'[y] = task[y]
        /\ task'[x] = None \/ (task'[x].pc \in {"settle", "reload"})
    <3>1. CASE task[x].kind = "push"
      BY <1>3, <3>1 DEF Publish, Finish, TypeOK
    <3>2. CASE task[x].kind = "save"
      <4> DEFINE t == [Locals[task[x].at] EXCEPT !.pc = "settle", !.kind = "save",
                                                 !.files = task[x].files, !.want = root']
      <4>1. t.pc = "settle"
        BY <2>1 DEF Fresh, TaskType
      <4>2. task' = [task EXCEPT ![x] = t]
        BY <1>3, <3>2 DEF Publish
      <4> HIDE DEF t
      <4> QED BY <4>1, <4>2 DEF TypeOK
    <3>3. CASE task[x].kind \notin {"push", "save"}
      <4>1. Reloading(task[x].at).pc = "reload"
        BY <2>1 DEF Reloading, Fresh, TaskType
      <4>2. task' = [task EXCEPT ![x] = Reloading(task[x].at)]
        BY <1>3, <3>3 DEF Publish
      <4> QED BY <4>1, <4>2 DEF TypeOK
    <3> QED BY <3>1, <3>2, <3>3
  <2>3. UNCHANGED <<files, shown, torn>> /\ ~ At(x, "pull")
    BY <1>3 DEF Publish, At
  <2> QED BY <2>2, <2>3, OthersKeepShown
<1>4. ASSUME NEW p \in Path, PullFile(x, p) PROVE ShownInv'
  <2>1. \A t \in Tab : files'[t] = files[t]
    BY <1>1, <1>4, PublishingType DEF PullFile, LocalsFit, At, TypeOK, Place
  <2>2. task'[x] = [task[x] EXCEPT !.todo = @ \ {p}] /\ \A y \in Task \ {x} : task'[y] = task[y]
    BY <1>4 DEF PullFile, TypeOK
  <2>3. task'[x].pc = "write"
    BY <1>1, <1>4, <2>2 DEF PullFile, At, TaskType
  <2> QED BY <1>4, <2>1, <2>2, <2>3, OthersKeepShown DEF PullFile, At
<1> QED BY <1>2, <1>3, <1>4

LEMMA NextShown ==
  ASSUME TypeOK, LocalsOK, PublishingInv, ShownInv, [Next]_vars
  PROVE  ShownInv'
<1>1. Grows
  BY NextGrows
<1>2. ASSUME UNCHANGED <<task, shown, torn>>, \A t \in Tab : files'[t] = files[t] PROVE ShownInv'
  <2>1. ASSUME NEW t \in Tab PROVE Gaps(t)' = Gaps(t) /\ Gaps(t) \subseteq Task
    BY <1>2 DEF Gaps, At
  <2> QED BY <1>1, <1>2, <2>1, KeepsShown DEF ShownInv
<1>3. ASSUME NEW d \in Dir, DirNext(d) PROVE ShownInv'
  <2>1. ASSUME NEW p \in Path, Edit(d, p) PROVE ShownInv'
    BY <1>2, <2>1, PublishingType DEF Edit, TypeOK, Place
  <2>2. Fresh(d)
    BY LocalsType DEF Place
  <2>3. ASSUME NEW x \in Task, PullBegin(x, d) PROVE ShownInv'
    BY <1>1, <2>2, <2>3, BeginShown DEF PullBegin, Fresh, TaskType
  <2>4. ASSUME NEW x \in Task, NEW sel \in SUBSET Path, PushBegin(x, d, sel) PROVE ShownInv'
    BY <1>1, <2>2, <2>4, BeginShown DEF PushBegin, Fresh, TaskType
  <2> QED BY <1>3, <2>1, <2>3, <2>4 DEF DirNext
<1>4. ASSUME NEW t \in Tab, TabNext(t) PROVE ShownInv'
  <2>1. Fresh(t)
    BY LocalsType DEF Place
  <2>2. ASSUME NEW x \in Task, OpenBegin(x, t) PROVE ShownInv'
    BY <1>1, <2>1, <2>2, BeginShown DEF OpenBegin, Reloading, Fresh, TaskType
  <2>3. ASSUME NEW x \in Task, NEW p \in Path, NEW kind \in {"upload", "save"}, OverlayBegin(x, t, p, kind)
        PROVE  ShownInv'
    BY <1>1, <2>1, <2>3, BeginShown DEF OverlayBegin, Fresh, TaskType
  <2>4. ASSUME NEW x \in Task, NEW v \in 1 .. MaxVersions, LoadBegin(x, t, v) \/ RestoreBegin(x, t, v)
        PROVE  ShownInv'
    BY <1>1, <2>1, <2>4, BeginShown DEF LoadBegin, RestoreBegin, Fresh, TaskType
  <2> QED BY <1>4, <2>2, <2>3, <2>4 DEF TabNext
<1>5. ASSUME NEW x \in Task, TaskNext(x) PROVE ShownInv'
  BY <1>1, <1>5, WriterShown, ReloadShown, EndShown DEF TaskNext
<1> QED BY <1>2, <1>3, <1>4, <1>5 DEF Next, vars

\* A tab that no other load or save tore marks the version whose files it has
\* as the current one, whatever was published while it loaded them.
THEOREM ShownMatchesHolds == Spec => []ShownMatches
<1>1. Init => ShownInv
  BY InitShown
<1>2. Spec => [](TypeOK /\ LocalsOK /\ PublishingInv /\ ShownInv)
  BY <1>1, NextShown, PublishingInvHolds, PTL DEF Spec
<1>3. ShownInv => ShownMatches
  BY DEF ShownInv, ShownOK, ShownMatches
<1> QED BY <1>2, <1>3, PTL

=============================================================================
