------------------------------ MODULE FsStores ------------------------------
(***************************************************************************)
(* The file-system backends, system call by system call: one JSON file per *)
(* project, one file per blob.  LwidServer takes each of their operations  *)
(* for one step; this module shows what is between the system calls.       *)
(*                                                                         *)
(* fs::write opens the file, which creates it or cuts it to nothing, and   *)
(* then writes from its start; readers and other writers come in between.  *)
(* The handlers run on several threads and share no lock.  One write is    *)
(* one step (the kernel locks the file for it), so a reader that sees half *)
(* of one sees what it sees before it: no record.  A write is cut short    *)
(* only by a full disk or by the end of the process.                       *)
(*                                                                         *)
(* A file is a sequence of pages, and a page is the value it belongs to.   *)
(* A record parses if its pages are all of one value and all of that value *)
(* (JSON in braces: no part of a record, and no record with something      *)
(* after it, parses).                                                      *)
(***************************************************************************)
EXTENDS Naturals, Sequences

CONSTANTS
  None,
  Project, Blob,  \* the files of the two stores
  Version,        \* records that a project's file may hold
  Pages,          \* Pages[v]: length of version or blob v
  Task,           \* threads that serve requests, and the reaper
  MaxFaults       \* bound on failed calls and ends of the process

Name == Project \cup Blob
Value == Version \cup Blob

ASSUME NoneIsNoName == None \notin Name \cup Value /\ None \notin Seq(Value)
ASSUME StoresAreApart == Project \cap Blob = {} /\ Version \cap Blob = {}
ASSUME PagesType == Pages \in [Value -> Nat \ {0}] /\ MaxFaults \in Nat

VARIABLES
  file,    \* file[n]: the pages of file n, or None
  task,    \* the system call each task makes next, and what it holds
  faults,  \* failed calls and ends of the process so far
  last,    \* history: the value last written to the file's end, or None
  suspect  \* history: files two writers had open at once, or on which one failed

vars == <<file, task, faults, last, suspect>>

-----------------------------------------------------------------------------

IdleTask == [pc |-> "idle", name |-> None, value |-> None, linked |-> FALSE]

\* linked: the file that the task has open is still the one in the directory.
TaskState ==
  [pc : {"idle", "open", "write", "unlink"}, name : Name \cup {None},
   value : Value \cup {None}, linked : BOOLEAN]

\* What belongs in file n: a record, or the one blob its name is the hash of.
Content(n) == IF n \in Blob THEN {n} ELSE Version

TypeOK ==
  /\ file \in [Name -> Seq(Value) \cup {None}]
  /\ task \in [Task -> TaskState]
  /\ \A t \in Task :
       /\ task[t].pc # "idle" => task[t].name \in Name
       /\ task[t].pc \in {"open", "write"} => task[t].value \in Content(task[t].name)
  /\ faults \in 0..MaxFaults
  /\ last \in [Name -> Value \cup {None}]
  /\ suspect \subseteq Name

Init ==
  /\ file = [n \in Name |-> None]
  /\ task = [t \in Task |-> IdleTask]
  /\ faults = 0
  /\ last = [n \in Name |-> None]
  /\ suspect = {}

At(t, pc) == task[t].pc = pc
Goto(t, s) == task' = [task EXCEPT ![t] = s]
Finish(t) == Goto(t, IdleTask)

Exists(n) == file[n] # None
Full(v) == [i \in 1..Pages[v] |-> v]
Holds(n, v) == file[n] = Full(v)

\* What serde_json makes of a record's file.
Parses(p) == \E v \in Version : Holds(p, v)

\* Who has file n open, under its name.
Writers(n) == {t \in Task : At(t, "write") /\ task[t].name = n /\ task[t].linked}

\* The first k pages become v's; what is behind them stays.
Overwrite(pages, v, k) ==
  [i \in 1..(IF k > Len(pages) THEN k ELSE Len(pages)) |->
     IF i <= k THEN v ELSE pages[i]]

-----------------------------------------------------------------------------
(* fs::write and fs::remove_file.                                          *)

\* Opening for a write cuts the file to nothing.
SlipTruncated(n) == IF Exists(n) THEN file[n] ELSE <<>>
Truncated(n) == <<>>

OpenFile(t, n, v) ==
  /\ file' = [file EXCEPT ![n] = Truncated(n)]
  /\ Goto(t, [pc |-> "write", name |-> n, value |-> v, linked |-> TRUE])
  /\ suspect' = IF Writers(n) = {} THEN suspect \ {n} ELSE suspect \cup {n}
  /\ UNCHANGED <<faults, last>>

Open(t) == At(t, "open") /\ OpenFile(t, task[t].name, task[t].value)

\* To a file that was unlinked meanwhile a write succeeds and leaves nothing.
Write(t) ==
  LET n == task[t].name   v == task[t].value IN
  /\ At(t, "write")
  /\ IF task[t].linked
     THEN /\ file' = [file EXCEPT ![n] = Overwrite(file[n], v, Pages[v])]
          /\ last' = [last EXCEPT ![n] = v]
     ELSE UNCHANGED <<file, last>>
  /\ Finish(t)
  /\ UNCHANGED <<faults, suspect>>

\* The disk is full after k pages.
WriteFails(t) ==
  LET n == task[t].name   v == task[t].value IN
  /\ At(t, "write") /\ task[t].linked
  /\ faults < MaxFaults
  /\ faults' = faults + 1
  /\ \E k \in 0..(Pages[v] - 1) :
       file' = [file EXCEPT ![n] = Overwrite(file[n], v, k)]
  /\ suspect' = suspect \cup {n}
  /\ Finish(t)
  /\ UNCHANGED last

\* Whoever has the file open keeps it, without a name.
Unlink(t) ==
  LET n == task[t].name IN
  /\ At(t, "unlink")
  /\ file' = [file EXCEPT ![n] = None]
  /\ last' = [last EXCEPT ![n] = None]
  /\ task' = [s \in Task |->
       IF s = t THEN IdleTask
       ELSE IF s \in Writers(n) THEN [task[s] EXCEPT !.linked = FALSE] ELSE task[s]]
  /\ UNCHANGED <<faults, suspect>>

-----------------------------------------------------------------------------
(* FsProjectStore.                                                         *)

\* create draws an id that nothing has to do with, and opens its file.
Create(t) ==
  /\ At(t, "idle")
  /\ \E p \in Project, v \in Version :
       /\ ~ Exists(p) /\ \A s \in Task : task[s].name # p
       /\ OpenFile(t, p, v)

\* update_root, update_name and update_expiry, up to their write.
Update(t) ==
  /\ At(t, "idle")
  /\ \E p \in Project, v \in Version :
       /\ Parses(p)
       /\ Goto(t, [IdleTask EXCEPT !.pc = "open", !.name = p, !.value = v])
  /\ UNCHANGED <<file, faults, last, suspect>>

\* delete, of the handler and of the reaper, reads the record it removes.
SlipDelete(t) ==
  /\ At(t, "idle")
  /\ \E p \in Project :
       /\ Exists(p)
       /\ Goto(t, [IdleTask EXCEPT !.pc = "unlink", !.name = p])
  /\ UNCHANGED <<file, faults, last, suspect>>
Delete(t) ==
  /\ At(t, "idle")
  /\ \E p \in Project :
       /\ Parses(p)
       /\ Goto(t, [IdleTask EXCEPT !.pc = "unlink", !.name = p])
  /\ UNCHANGED <<file, faults, last, suspect>>

-----------------------------------------------------------------------------
(* FsBlobStore.                                                            *)

\* The name is not the hash of what is stored.
SlipPutBlob(t) ==
  /\ At(t, "idle")
  /\ \E b \in Blob, v \in Value :
       /\ ~ Exists(b)
       /\ Goto(t, [IdleTask EXCEPT !.pc = "open", !.name = b, !.value = v])
  /\ UNCHANGED <<file, faults, last, suspect>>

\* put answers at once if there is a file.
PutBlob(t) ==
  /\ At(t, "idle")
  /\ \E b \in Blob :
       /\ ~ Exists(b)
       /\ Goto(t, [IdleTask EXCEPT !.pc = "open", !.name = b, !.value = b])
  /\ UNCHANGED <<file, faults, last, suspect>>

DeleteBlob(t) ==
  /\ At(t, "idle")
  /\ \E b \in Blob :
       /\ Exists(b)
       /\ Goto(t, [IdleTask EXCEPT !.pc = "unlink", !.name = b])
  /\ UNCHANGED <<file, faults, last, suspect>>

-----------------------------------------------------------------------------

\* A file cannot be opened or unlinked.
CallFails(t) ==
  /\ At(t, "open") \/ At(t, "unlink")
  /\ faults < MaxFaults
  /\ faults' = faults + 1
  /\ Finish(t)
  /\ UNCHANGED <<file, last, suspect>>

\* The process ends: files stay as they are, those being written unfinished.
\* (Its end in the middle of a write is a WriteFails before.)
Crash ==
  /\ faults < MaxFaults
  /\ faults' = faults + 1
  /\ task' = [t \in Task |-> IdleTask]
  /\ suspect' = suspect \cup {n \in Name : Writers(n) # {}}
  /\ UNCHANGED <<file, last>>

Step(t) ==
  \/ Create(t) \/ Update(t) \/ Delete(t) \/ PutBlob(t) \/ DeleteBlob(t)
  \/ Open(t) \/ Write(t) \/ Unlink(t) \/ WriteFails(t) \/ CallFails(t)

FsNext == (\E t \in Task : Step(t)) \/ Crash

FsSpec == Init /\ [][FsNext]_vars

-----------------------------------------------------------------------------
(* Properties.                                                             *)

\* A file that nobody is writing holds the value last written to it, and all
\* of it, whatever lengths its values had, unless two writers had it open at
\* once or one failed.  So what put and exists take for a stored blob is one.
RestIsWhole ==
  \A n \in Name \ suspect :
    Exists(n) /\ Writers(n) = {} => Holds(n, last[n])

\* Why: whoever writes an existing file found it empty, and is alone unless
\* it is suspect.
WholeInv ==
  /\ \A n \in Name : Writers(n) # {} => Exists(n)
  /\ \A n \in Name \ suspect, t \in Task : t \in Writers(n) =>
       file[n] = <<>> /\ Writers(n) = {t}
  /\ RestIsWhole

\* A record that is torn, and that nobody had taken up before, stays so for
\* ever: no update, no deletion and no sweep gets past reading it, and no
\* restart mends it.
Torn(p) ==
  /\ Exists(p) /\ ~ Parses(p)
  /\ \A t \in Task : task[t].name # p
TornStays == [][\A p \in Project : Torn(p) => Torn(p)']_vars

=============================================================================
