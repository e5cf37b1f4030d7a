--------------------------- MODULE ExporterProofs ---------------------------
(***************************************************************************)
(* What the files of the file-system stores hold, and what the exporter    *)
(* counts in them, for any number of projects, blobs and threads, records  *)
(* and blobs of any length, and any number of faults.                      *)
(***************************************************************************)
EXTENDS Exporter, FiniteSetTheorems, TLAPS

-----------------------------------------------------------------------------
(* The files.                                                              *)

\* A task's locals are well typed, and name what its next call needs.
TaskOK(r) ==
  /\ r \in TaskState
  /\ r.pc # "idle" => r.name \in Name
  /\ r.pc \in {"open", "write"} => r.value \in Content(r.name)

LEMMA IdleTaskOK == TaskOK(IdleTask) /\ IdleTask.pc = "idle"
BY DEF TaskOK, IdleTask, TaskState

\* Writing k pages over a sequence gives one.
LEMMA OverwriteType ==
  ASSUME NEW s \in Seq(Value), NEW v \in Value, NEW k \in Nat
  PROVE  Overwrite(s, v, k) \in Seq(Value)
<1> DEFINE n == IF k > Len(s) THEN k ELSE Len(s)
<1>1. n \in Nat
  OBVIOUS
<1>2. ASSUME NEW i \in 1..n PROVE (IF i <= k THEN v ELSE s[i]) \in Value
  BY <1>2
<1>3. [i \in 1..n |-> IF i <= k THEN v ELSE s[i]] \in [1..n -> Value]
  BY <1>2
<1> HIDE DEF n
<1>4. ASSUME NEW f \in [1..n -> Value] PROVE f \in Seq(Value)
  BY <1>1, <1>4
<1>5. Overwrite(s, v, k) = [i \in 1..n |-> IF i <= k THEN v ELSE s[i]]
  BY DEF Overwrite, n
<1> QED BY <1>3, <1>4, <1>5

LEMMA VersionIsValue == Version \subseteq Value /\ Blob \subseteq Value
BY DEF Value

\* What belongs in a file is a value; blobs and records have files apart.
LEMMA ContentFacts ==
  /\ \A n \in Name : Content(n) \subseteq Value
  /\ \A b \in Blob : Content(b) = {b}
  /\ \A p \in Project : Content(p) = Version
BY StoresAreApart, VersionIsValue DEF Content, Name

\* A step of the stores keeps the types.
LEMMA StepType ==
  ASSUME TypeOK, WholeInv, NEW t \in Task, Step(t)
  PROVE  TypeOK'
<1> USE VersionIsValue DEF Name
<1>1. TaskOK(task[t]) /\ faults \in Nat /\ MaxFaults \in Nat
  BY PagesType DEF TypeOK, TaskOK
<1>2. ASSUME NEW r, Goto(t, r), TaskOK(r)
      PROVE  /\ task' \in [Task -> TaskState]
             /\ \A s \in Task :
                  /\ task'[s].pc # "idle" => task'[s].name \in Name
                  /\ task'[s].pc \in {"open", "write"} => task'[s].value \in Content(task'[s].name)
  BY <1>2 DEF TypeOK, Goto, TaskOK
<1>3. ASSUME NEW n \in Name, NEW v \in Content(n), OpenFile(t, n, v) PROVE TypeOK'
  <2> DEFINE r == [pc |-> "write", name |-> n, value |-> v, linked |-> TRUE]
  <2>1. TaskOK(r) /\ Goto(t, r)
    BY <1>3, ContentFacts DEF TaskOK, TaskState, OpenFile
  <2> HIDE DEF r
  <2>2. file' \in [Name -> Seq(Value) \cup {None}]
    BY <1>3 DEF OpenFile, Truncated, TypeOK
  <2> QED BY <1>2, <1>3, <2>1, <2>2 DEF OpenFile, TypeOK
<1>4. ASSUME NEW r, Goto(t, r), TaskOK(r),
             UNCHANGED <<file, last, suspect>>, faults' \in 0..MaxFaults
      PROVE  TypeOK'
  BY <1>2, <1>4 DEF TypeOK
<1>5. CASE Create(t)
  BY <1>3, <1>5, ContentFacts DEF Create
<1>6. CASE Open(t)
  BY <1>1, <1>3, <1>6 DEF Open, At, TaskOK
<1>7. ASSUME NEW n \in Name, NEW v \in Content(n)
      PROVE  /\ TaskOK([IdleTask EXCEPT !.pc = "open", !.name = n, !.value = v])
             /\ TaskOK([IdleTask EXCEPT !.pc = "unlink", !.name = n])
  BY <1>7, ContentFacts DEF TaskOK, TaskState, IdleTask
<1>8. CASE Update(t) \/ Delete(t) \/ PutBlob(t) \/ DeleteBlob(t)
  <2>1. /\ UNCHANGED <<file, last, suspect>> /\ faults' \in 0..MaxFaults
    BY <1>8 DEF Update, Delete, PutBlob, DeleteBlob, TypeOK
  <2>2. \E n \in Name : \E v \in Content(n) :
          \/ Goto(t, [IdleTask EXCEPT !.pc = "open", !.name = n, !.value = v])
          \/ Goto(t, [IdleTask EXCEPT !.pc = "unlink", !.name = n])
    <3>1. CASE Update(t)
      BY <3>1, ContentFacts DEF Update
    <3>2. CASE PutBlob(t)
      BY <3>2, ContentFacts DEF PutBlob
    <3>3. CASE Delete(t)
      <4>1. PICK n \in Project : /\ Parses(n)
                                 /\ Goto(t, [IdleTask EXCEPT !.pc = "unlink", !.name = n])
        BY <3>3 DEF Delete
      <4>2. \E v \in Content(n) : TRUE
        BY <4>1, ContentFacts DEF Parses
      <4> QED BY <4>1, <4>2
    <3>4. CASE DeleteBlob(t)
      BY <3>4, ContentFacts DEF DeleteBlob
    <3> QED BY <1>8, <3>1, <3>2, <3>3, <3>4
  <2> QED BY <1>4, <1>7, <2>1, <2>2
<1>9. CASE CallFails(t)
  BY <1>1, <1>4, <1>9, IdleTaskOK DEF CallFails, Finish
<1>10. CASE Write(t) \/ WriteFails(t)
  <2> DEFINE n == task[t].name   v == task[t].value
  <2>1. n \in Name /\ v \in Value /\ Pages[v] \in Nat \ {0}
    BY <1>1, <1>10, PagesType, ContentFacts DEF Write, WriteFails, At, TaskOK
  <2>2. Finish(t) /\ suspect' \in SUBSET Name /\ last' \in [Name -> Value \cup {None}]
    BY <1>10, <2>1 DEF Write, WriteFails, TypeOK
  <2>3. faults' \in 0..MaxFaults
    BY <1>1, <1>10 DEF Write, WriteFails, TypeOK
  <2>4. file' \in [Name -> Seq(Value) \cup {None}]
    <3>1. CASE UNCHANGED file
      BY <3>1 DEF TypeOK
    <3>2. ASSUME NEW k \in Nat, file[n] \in Seq(Value),
                 file' = [file EXCEPT ![n] = Overwrite(file[n], v, k)]
          PROVE  file' \in [Name -> Seq(Value) \cup {None}]
      <4>1. Overwrite(file[n], v, k) \in Seq(Value)
        BY <2>1, <3>2, OverwriteType
      <4> QED BY <3>2, <4>1 DEF TypeOK
    <3>3. CASE task[t].linked /\ ~ UNCHANGED file
      <4>1. file[n] \in Seq(Value)
        <5>1. t \in Writers(n)
          BY <1>10, <3>3 DEF Writers, Write, WriteFails
        <5> QED BY <2>1, <5>1 DEF TypeOK, WholeInv, Exists
      <4>2. CASE Write(t)
        BY <2>1, <3>2, <3>3, <4>1, <4>2 DEF Write
      <4>3. CASE WriteFails(t)
        <5>1. PICK k \in 0..(Pages[v] - 1) :
                file' = [file EXCEPT ![n] = Overwrite(file[n], v, k)]
          BY <4>3 DEF WriteFails
        <5>2. k \in Nat
          BY <2>1
        <5> QED BY <3>2, <4>1, <5>1, <5>2
      <4> QED BY <1>10, <4>2, <4>3
    <3> QED BY <1>10, <3>1, <3>3 DEF Write, WriteFails
  <2> QED BY <1>2, <2>2, <2>3, <2>4, IdleTaskOK DEF Finish, TypeOK
<1>11. CASE Unlink(t)
  <2> DEFINE n == task[t].name
  <2>1. n \in Name
    BY <1>1, <1>11 DEF Unlink, At, TaskOK
  <2>2. /\ file' \in [Name -> Seq(Value) \cup {None}]
        /\ last' \in [Name -> Value \cup {None}]
        /\ UNCHANGED <<faults, suspect>>
    BY <1>11, <2>1 DEF Unlink, TypeOK
  <2>3. ASSUME NEW s \in Task PROVE TaskOK(task'[s])
    <3>1. TaskOK(task[s])
      BY DEF TypeOK, TaskOK
    <3>2. TaskOK([task[s] EXCEPT !.linked = FALSE])
      BY <3>1 DEF TaskOK, TaskState
    <3> QED BY <1>11, <3>1, <3>2, IdleTaskOK DEF Unlink
  <2>4. task' = [s \in Task |-> task'[s]]
    BY <1>11 DEF Unlink
  <2> QED BY <2>2, <2>3, <2>4 DEF TypeOK, TaskOK
<1> QED BY <1>5, <1>6, <1>8, <1>9, <1>10, <1>11 DEF Step

\* What WholeInv says of one file.
WholeAt(n) ==
  /\ Writers(n) # {} => Exists(n)
  /\ n \notin suspect =>
       /\ \A t \in Task : t \in Writers(n) => file[n] = <<>> /\ Writers(n) = {t}
       /\ Exists(n) /\ Writers(n) = {} => Holds(n, last[n])

LEMMA WholeIsAt == WholeInv <=> \A n \in Name : WholeAt(n)
BY DEF WholeInv, WholeAt, RestIsWhole

LEMMA WholeIsAtNext == WholeInv' <=> \A n \in Name : WholeAt(n)'
BY DEF WholeInv, WholeAt, RestIsWhole

\* A file that a step does not touch.
LEMMA WholeStays ==
  ASSUME NEW n \in Name, WholeAt(n),
         file'[n] = file[n], last'[n] = last[n], Writers(n)' = Writers(n),
         n \in suspect => n \in suspect'
  PROVE  WholeAt(n)'
BY DEF WholeAt, Exists, Holds

\* Who has a file open after a task moved on.
LEMMA GotoWriters ==
  ASSUME TypeOK, NEW t \in Task, NEW r, Goto(t, r), NEW n \in Name
  PROVE  /\ r.pc # "write" => Writers(n)' = Writers(n) \ {t}
         /\ (r.pc = "write" /\ r.name # n) => Writers(n)' = Writers(n) \ {t}
         /\ (r.pc = "write" /\ r.name = n /\ r.linked) => Writers(n)' = Writers(n) \cup {t}
<1>1. \A s \in Task : task'[s] = IF s = t THEN r ELSE task[s]
  BY DEF Goto, TypeOK
<1> QED BY <1>1 DEF Writers, At

\* A value written to an empty file is all that is in it.
LEMMA OverwriteEmpty ==
  ASSUME NEW v \in Value
  PROVE  Overwrite(<<>>, v, Pages[v]) = Full(v)
<1>1. Pages[v] \in Nat \ {0} /\ Len(<<>>) = 0
  BY PagesType
<1>2. (IF Pages[v] > Len(<<>>) THEN Pages[v] ELSE Len(<<>>)) = Pages[v]
  BY <1>1
<1>3. [i \in 1..Pages[v] |-> IF i <= Pages[v] THEN v ELSE <<>>[i]]
        = [i \in 1..Pages[v] |-> v]
  BY <1>1
<1> QED BY <1>2, <1>3 DEF Overwrite, Full

LEMMA EmptyExists == <<>> # None
<1>1. <<>> \in Seq(Value)
  OBVIOUS
<1> QED BY <1>1, NoneIsNoName

LEMMA OpenWhole ==
  ASSUME TypeOK, WholeInv, NEW t \in Task, task[t].pc # "write",
         NEW n \in Name, NEW v \in Value, OpenFile(t, n, v)
  PROVE  WholeInv'
<1> DEFINE r == [pc |-> "write", name |-> n, value |-> v, linked |-> TRUE]
<1>1. Goto(t, r) /\ r.pc = "write" /\ r.name = n /\ r.linked
  BY DEF OpenFile
<1> HIDE DEF r
<1>2. ASSUME NEW m \in Name, m # n PROVE WholeAt(m)'
  <2>1. Writers(m)' = Writers(m)
    BY <1>1, <1>2, GotoWriters DEF Writers, At
  <2>2. /\ file'[m] = file[m] /\ last'[m] = last[m]
        /\ (m \in suspect => m \in suspect')
    BY <1>2 DEF OpenFile, TypeOK
  <2> QED BY <2>1, <2>2, WholeIsAt, WholeStays
<1>3. WholeAt(n)'
  <2>1. Writers(n)' = Writers(n) \cup {t}
    BY <1>1, GotoWriters
  <2>2. file'[n] = <<>>
    BY DEF OpenFile, Truncated, TypeOK
  <2>3. Exists(n)'
    BY <2>2, EmptyExists DEF Exists
  <2>4. n \notin suspect' => Writers(n) = {}
    BY DEF OpenFile
  <2> QED BY <2>1, <2>2, <2>3, <2>4 DEF WholeAt
<1> QED BY <1>2, <1>3, WholeIsAtNext

LEMMA WriteWhole ==
  ASSUME TypeOK, WholeInv, NEW t \in Task, Write(t) \/ WriteFails(t)
  PROVE  WholeInv'
<1>0. PICK n \in Name, v \in Value : n = task[t].name /\ v = task[t].value
  BY ContentFacts DEF Write, WriteFails, At, TypeOK
<1>1. n \in Name /\ v \in Value /\ At(t, "write") /\ Finish(t)
  BY DEF Write, WriteFails
<1>2. \A m \in Name : Writers(m)' = Writers(m) \ {t}
  BY <1>1, IdleTaskOK, GotoWriters DEF Finish
<1>3. ASSUME NEW m \in Name, m # n \/ ~ task[t].linked PROVE WholeAt(m)'
  <2>1. Writers(m)' = Writers(m)
    BY <1>0, <1>2, <1>3 DEF Writers
  <2>2. CASE Write(t)
    <3>1. /\ file'[m] = file[m] /\ last'[m] = last[m] /\ suspect' = suspect
      BY <1>0, <1>3, <2>2 DEF Write, TypeOK
    <3> QED BY <2>1, <3>1, WholeIsAt, WholeStays
  <2>3. CASE WriteFails(t)
    <3>1. /\ file'[m] = file[m] /\ last' = last
          /\ (m \in suspect => m \in suspect')
      BY <1>0, <1>3, <2>3 DEF WriteFails, TypeOK
    <3> QED BY <2>1, <3>1, WholeIsAt, WholeStays
  <2> QED BY <2>2, <2>3
<1>4. CASE task[t].linked
  <2>1. t \in Writers(n) /\ WholeAt(n)
    BY <1>0, <1>1, <1>4, WholeIsAt DEF Writers
  <2>2. file[n] \in Seq(Value)
    BY <1>1, <2>1 DEF TypeOK, WholeAt, Exists
  <2>3. \A k \in Nat : Overwrite(file[n], v, k) # None
    BY <1>1, <2>2, OverwriteType, NoneIsNoName
  <2>4. CASE Write(t)
    <3>1. /\ file' = [file EXCEPT ![n] = Overwrite(file[n], v, Pages[v])]
          /\ last' = [last EXCEPT ![n] = v]
          /\ suspect' = suspect
      BY <1>0, <1>4, <2>4 DEF Write
    <3>2. /\ file'[n] = Overwrite(file[n], v, Pages[v]) /\ last'[n] = v
      BY <1>1, <3>1 DEF TypeOK
    <3>3. n \notin suspect => Writers(n) = {t} /\ file'[n] = Full(v)
      BY <1>1, <2>1, <3>2, OverwriteEmpty DEF WholeAt
    <3>4. Exists(n)'
      BY <1>1, <2>3, <3>2, PagesType DEF Exists
    <3>5. WholeAt(n)'
      BY <1>1, <1>2, <3>1, <3>2, <3>3, <3>4 DEF WholeAt, Holds, Full
    <3> QED BY <1>3, <3>5, WholeIsAtNext
  <2>5. CASE WriteFails(t)
    <3>1. PICK k \in 0..(Pages[v] - 1) :
            file' = [file EXCEPT ![n] = Overwrite(file[n], v, k)]
      BY <1>0, <2>5 DEF WriteFails
    <3>2. k \in Nat
      BY <1>1, PagesType
    <3>3. file'[n] # None
      BY <1>1, <2>3, <3>1, <3>2 DEF TypeOK
    <3>4. n \in suspect'
      BY <1>0, <2>5 DEF WriteFails
    <3>5. WholeAt(n)'
      BY <3>3, <3>4 DEF WholeAt, Exists
    <3> QED BY <1>3, <3>5, WholeIsAtNext
  <2> QED BY <2>4, <2>5
<1> QED BY <1>3, <1>4, WholeIsAtNext

LEMMA UnlinkWhole ==
  ASSUME TypeOK, WholeInv, NEW t \in Task, Unlink(t)
  PROVE  WholeInv'
<1>0. PICK n \in Name : n = task[t].name
  BY DEF Unlink, At, TypeOK
<1>1. n \in Name /\ At(t, "unlink")
  BY DEF Unlink
<1>2. \A s \in Task :
        task'[s] = IF s = t THEN IdleTask
                   ELSE IF s \in Writers(n)
                        THEN [task[s] EXCEPT !.linked = FALSE] ELSE task[s]
  BY <1>0 DEF Unlink
<1>3. ASSUME NEW s \in Task, s \in Writers(n)
      PROVE  [task[s] EXCEPT !.linked = FALSE].linked = FALSE
  BY DEF TypeOK, TaskState
<1>4. ASSUME NEW m \in Name, m # n PROVE WholeAt(m)'
  <2>1. \A s \in Task : s \in Writers(m)' <=> s \in Writers(m)
    BY <1>1, <1>2, <1>3, <1>4, IdleTaskOK DEF Writers, At
  <2>2. Writers(m)' = Writers(m)
    BY <2>1 DEF Writers
  <2>3. file'[m] = file[m] /\ last'[m] = last[m] /\ suspect' = suspect
    BY <1>0, <1>4 DEF Unlink, TypeOK
  <2> QED BY <2>2, <2>3, WholeIsAt, WholeStays
<1>5. WholeAt(n)'
  <2>1. Writers(n)' = {}
    BY <1>2, <1>3, IdleTaskOK DEF Writers, At
  <2>2. file'[n] = None
    BY <1>0, <1>1 DEF Unlink, TypeOK
  <2> QED BY <2>1, <2>2 DEF WholeAt, Exists
<1> QED BY <1>4, <1>5, WholeIsAtNext

LEMMA StepWhole ==
  ASSUME TypeOK, WholeInv, NEW t \in Task, Step(t)
  PROVE  WholeInv'
<1> USE VersionIsValue DEF Name
<1>1. CASE Create(t)
  BY <1>1, OpenWhole DEF Create, At
<1>2. CASE Open(t)
  <2>1. task[t].name \in Name /\ task[t].value \in Value /\ task[t].pc = "open"
    BY <1>2, ContentFacts DEF Open, At, TypeOK
  <2> QED BY <1>2, <2>1, OpenWhole DEF Open
<1>3. ASSUME NEW r, Goto(t, r), r.pc # "write", task[t].pc # "write",
             UNCHANGED <<file, last, suspect>>
      PROVE  WholeInv'
  <2>1. \A n \in Name : Writers(n)' = Writers(n)
    BY <1>3, GotoWriters DEF Writers, At
  <2> QED BY <1>3, <2>1, WholeIsAt, WholeIsAtNext, WholeStays
<1>4. CASE Update(t) \/ Delete(t) \/ PutBlob(t) \/ DeleteBlob(t)
  <2>1. ASSUME NEW n, NEW v
        PROVE  /\ [IdleTask EXCEPT !.pc = "open", !.name = n, !.value = v].pc = "open"
               /\ [IdleTask EXCEPT !.pc = "unlink", !.name = n].pc = "unlink"
    BY DEF IdleTask
  <2>2. CASE Update(t)
    BY <1>3, <2>1, <2>2 DEF Update, At
  <2>3. CASE Delete(t)
    BY <1>3, <2>1, <2>3 DEF Delete, At
  <2>4. CASE PutBlob(t)
    BY <1>3, <2>1, <2>4 DEF PutBlob, At
  <2>5. CASE DeleteBlob(t)
    BY <1>3, <2>1, <2>5 DEF DeleteBlob, At
  <2> QED BY <1>4, <2>2, <2>3, <2>4, <2>5
<1>5. CASE CallFails(t)
  BY <1>3, <1>5, IdleTaskOK DEF CallFails, Finish, At
<1> QED BY <1>1, <1>2, <1>4, <1>5, WriteWhole, UnlinkWhole DEF Step

\* The process ends: nobody writes, and what was being written is suspect.
LEMMA CrashFiles ==
  ASSUME TypeOK, WholeInv, Crash
  PROVE  TypeOK' /\ WholeInv'
<1>1. TypeOK'
  <2>1. task' \in [Task -> TaskState] /\ \A t \in Task : task'[t].pc = "idle"
    BY IdleTaskOK DEF Crash, TaskOK
  <2>2. faults' \in 0..MaxFaults
    BY PagesType DEF Crash, TypeOK
  <2> QED BY <2>1, <2>2 DEF Crash, TypeOK
<1>2. ASSUME NEW n \in Name PROVE WholeAt(n)'
  <2>1. Writers(n)' = {}
    BY IdleTaskOK DEF Crash, Writers, At
  <2>2. file' = file /\ last' = last
    BY DEF Crash
  <2>3. n \notin suspect' => n \notin suspect /\ Writers(n) = {}
    BY DEF Crash
  <2> QED BY <2>1, <2>2, <2>3, WholeIsAt DEF WholeAt, Exists, Holds
<1> QED BY <1>1, <1>2, WholeIsAtNext

-----------------------------------------------------------------------------
(* Torn records.                                                           *)

\* A torn record is not taken up: every task that would write or remove it
\* parses it first.
LEMMA StepLeavesTorn ==
  ASSUME TypeOK, NEW t \in Task, Step(t), NEW p \in Project, Torn(p)
  PROVE  Torn(p)'
<1>1. p \in Name /\ p # None /\ p \notin Blob
  BY NoneIsNoName, StoresAreApart DEF Name
<1>2. ASSUME NEW n, n # p, NEW v, OpenFile(t, n, v) PROVE Torn(p)'
  <2>1. file'[p] = file[p]
    BY <1>1, <1>2 DEF OpenFile, TypeOK
  <2>2. \A s \in Task : task'[s].name # p
    BY <1>2 DEF OpenFile, Goto, Torn, TypeOK
  <2> QED BY <2>1, <2>2 DEF Torn, Exists, Parses, Holds
<1>3. ASSUME NEW r, Goto(t, r), r.name # p, file'[p] = file[p] PROVE Torn(p)'
  <2>1. \A s \in Task : task'[s].name # p
    BY <1>3 DEF Goto, Torn, TypeOK
  <2> QED BY <1>3, <2>1 DEF Torn, Exists, Parses, Holds
<1>4. IdleTask.name # p
  BY <1>1 DEF IdleTask
<1>5. ASSUME NEW n, NEW v
      PROVE  /\ [IdleTask EXCEPT !.pc = "open", !.name = n, !.value = v].name = n
             /\ [IdleTask EXCEPT !.pc = "unlink", !.name = n].name = n
  BY DEF IdleTask
<1>6. task[t].name # p
  BY DEF Torn
<1>7. CASE Create(t)
  BY <1>2, <1>7 DEF Create, Torn
<1>8. CASE Open(t)
  BY <1>2, <1>6, <1>8 DEF Open
<1>9. CASE Update(t)
  <2>1. PICK n \in Project, v \in Version :
          /\ Parses(n)
          /\ Goto(t, [IdleTask EXCEPT !.pc = "open", !.name = n, !.value = v])
    BY <1>9 DEF Update
  <2>2. n # p
    BY <2>1 DEF Torn
  <2>3. PICK r : r = [IdleTask EXCEPT !.pc = "open", !.name = n, !.value = v]
    OBVIOUS
  <2>4. Goto(t, r) /\ r.name # p
    BY <1>5, <2>1, <2>2, <2>3
  <2>5. file'[p] = file[p]
    BY <1>9 DEF Update
  <2> QED BY <1>3, <2>4, <2>5
<1>10. CASE Delete(t)
  <2>1. PICK n \in Project :
          Parses(n) /\ Goto(t, [IdleTask EXCEPT !.pc = "unlink", !.name = n])
    BY <1>10 DEF Delete
  <2>2. n # p
    BY <2>1 DEF Torn
  <2>3. PICK r : r = [IdleTask EXCEPT !.pc = "unlink", !.name = n]
    OBVIOUS
  <2>4. Goto(t, r) /\ r.name # p
    BY <1>5, <2>1, <2>2, <2>3
  <2>5. file'[p] = file[p]
    BY <1>10 DEF Delete
  <2> QED BY <1>3, <2>4, <2>5
<1>11. CASE PutBlob(t)
  BY <1>1, <1>3, <1>5, <1>11 DEF PutBlob
<1>12. CASE DeleteBlob(t)
  BY <1>1, <1>3, <1>5, <1>12 DEF DeleteBlob
<1>13. CASE Write(t) \/ WriteFails(t) \/ CallFails(t)
  <2>1. Finish(t) /\ file'[p] = file[p]
    BY <1>1, <1>6, <1>13 DEF Write, WriteFails, CallFails, TypeOK
  <2> QED BY <1>3, <1>4, <2>1 DEF Finish
<1>14. CASE Unlink(t)
  <2>1. file'[p] = file[p]
    BY <1>1, <1>6, <1>14 DEF Unlink, TypeOK
  <2>2. ASSUME NEW s \in Task PROVE task'[s].name # p
    <3>1. [task[s] EXCEPT !.linked = FALSE].name = task[s].name
      BY DEF TypeOK, TaskState
    <3>2. task'[s] \in {IdleTask, task[s], [task[s] EXCEPT !.linked = FALSE]}
      BY <1>14 DEF Unlink
    <3> QED BY <1>4, <3>1, <3>2 DEF Torn
  <2> QED BY <2>1, <2>2 DEF Torn, Exists, Parses, Holds
<1> QED BY <1>7, <1>8, <1>9, <1>10, <1>11, <1>12, <1>13, <1>14 DEF Step

LEMMA CrashLeavesTorn ==
  ASSUME Crash, NEW p \in Project, Torn(p)
  PROVE  Torn(p)'
<1>1. p # None
  BY NoneIsNoName DEF Name
<1>2. \A t \in Task : task'[t].name # p
  BY <1>1 DEF Crash, IdleTask
<1> QED BY <1>2 DEF Crash, Torn, Exists, Parses, Holds

-----------------------------------------------------------------------------
(* What the exporter counts.                                               *)

ExporterInv == ExporterTypeOK /\ WholeInv /\ CountsInv

\* Whole values differ from their first page.
LEMMA HoldsOne ==
  ASSUME NEW n, NEW v \in Value, NEW w \in Value, Holds(n, v), Holds(n, w)
  PROVE  v = w
<1>1. 1 \in 1..Pages[v] /\ 1 \in 1..Pages[w]
  BY PagesType
<1>2. Full(v)[1] = v /\ Full(w)[1] = w
  BY <1>1 DEF Full
<1> QED BY <1>2 DEF Holds

LEMMA ClassType ==
  ASSUME NEW v \in Version, NEW now PROVE ClassOf(v, now) \in Class
BY DEF ClassOf, Class

\* The counts of a project that is read: one more in one class if it parses.
LEMMA CountedType ==
  ASSUME NEW counts \in Counts, NEW p
  PROVE  /\ Counted(counts, p) \in Counts
         /\ \A v \in Version, c \in Class : Holds(p, v) =>
              Counted(counts, p)[c] =
                IF ClassOf(v, scan.now) = c THEN counts[c] + 1 ELSE counts[c]
         /\ ~ Parses(p) => Counted(counts, p) = counts
<1>1. CASE ~ Parses(p)
  BY <1>1 DEF Counted, Parses
<1>2. CASE Parses(p)
  <2>1. PICK v \in Version : v = CHOOSE x \in Version : Holds(p, x)
    BY <1>2 DEF Parses
  <2>2. Holds(p, v)
    BY <1>2, <2>1 DEF Parses
  <2>3. Counted(counts, p) = [counts EXCEPT ![ClassOf(v, scan.now)] = @ + 1]
    BY <1>2, <2>1 DEF Counted
  <2>4. ASSUME NEW w \in Version, Holds(p, w) PROVE w = v
    BY <2>2, <2>4, HoldsOne, VersionIsValue
  <2>5. ClassOf(v, scan.now) \in Class
    BY ClassType
  <2> QED BY <1>2, <2>3, <2>4, <2>5 DEF Counts
<1> QED BY <1>1, <1>2

\* The exporter's own state keeps its type.
LEMMA ScanType ==
  ASSUME ExporterTypeOK, WholeInv, Next
  PROVE  ExporterTypeOK'
<1>1. /\ TypeOK /\ clock \in Nat /\ MaxClock \in Nat /\ scan \in Scan
      /\ clock <= MaxClock /\ faults \in Nat /\ MaxFaults \in Nat
  BY LimitsType, PagesType DEF ExporterTypeOK, TypeOK
<1>2. IdleScan \in Scan
  BY DEF IdleScan, Scan, NoCounts, Counts
<1>3. ASSUME UNCHANGED vars PROVE TypeOK'
  BY <1>1, <1>3 DEF TypeOK, vars
<1>4. ASSUME faults < MaxFaults, faults' = faults + 1,
             UNCHANGED <<file, task, last, suspect>>
      PROVE  TypeOK'
  BY <1>1, <1>4 DEF TypeOK
<1>5. CASE ListProjects
  <2>1. scan' \in Scan
    BY <1>1, <1>2, <1>5 DEF ListProjects, Scan, IdleScan
  <2> QED BY <1>3, <1>5, <2>1 DEF ListProjects, ExporterTypeOK
<1>6. CASE ListFails
  <2>1. scan' \in Scan
    BY <1>2, <1>6 DEF ListFails, Scan, IdleScan
  <2> QED BY <1>4, <1>6, <2>1 DEF ListFails, ExporterTypeOK
<1>7. CASE \E p \in Project : GetProject(p)
  <2>1. PICK p \in Project : GetProject(p)
    BY <1>7
  <2>2. Counted(scan.counts, p) \in Counts
    BY <1>1, CountedType DEF Scan
  <2>3. scan' \in Scan
    BY <1>1, <2>1, <2>2 DEF GetProject, Scan
  <2> QED BY <1>3, <2>1, <2>3 DEF GetProject, ExporterTypeOK
<1>8. CASE \E p \in Project : GetFails(p)
  <2>1. PICK p \in Project : GetFails(p)
    BY <1>8
  <2>2. scan' \in Scan
    BY <1>1, <2>1 DEF GetFails, Scan
  <2> QED BY <1>4, <2>1, <2>2 DEF GetFails, ExporterTypeOK, Name
<1>9. CASE Publish
  BY <1>2, <1>3, <1>9 DEF Publish, ExporterTypeOK
<1>10. CASE Tick
  BY <1>1, <1>3, <1>10 DEF Tick, ExporterTypeOK
<1>11. CASE StoreStep
  BY <1>1, <1>11, StepType DEF StoreStep, ExporterTypeOK
<1>12. CASE Restart
  BY <1>1, <1>2, <1>12, CrashFiles DEF Restart, ExporterTypeOK
<1> QED BY <1>5, <1>6, <1>7, <1>8, <1>9, <1>10, <1>11, <1>12 DEF Next

\* The exporter writes no file.
LEMMA ScanWhole ==
  ASSUME ExporterTypeOK, WholeInv, Next
  PROVE  WholeInv'
<1>1. ASSUME UNCHANGED <<file, task, last, suspect>> PROVE WholeInv'
  BY <1>1 DEF WholeInv, RestIsWhole, Writers, At, Exists, Holds
<1>2. CASE StoreStep
  BY <1>2, StepWhole DEF StoreStep, ExporterTypeOK
<1>3. CASE Restart
  BY <1>3, CrashFiles DEF Restart, ExporterTypeOK
<1> QED BY <1>1, <1>2, <1>3 DEF Next, ListProjects, ListFails, GetProject,
           GetFails, Publish, Tick, vars

\* Sets of projects can be counted.
LEMMA ProjectsCount ==
  ASSUME NEW S, S \subseteq Project
  PROVE  IsFiniteSet(S) /\ Cardinality(S) \in Nat
BY LimitsType, FS_Subset, FS_CardinalityType

LEMMA OneProjectMore ==
  ASSUME NEW S, S \subseteq Project, NEW p \in Project, p \notin S
  PROVE  Cardinality(S \cup {p}) = Cardinality(S) + 1
<1>1. IsFiniteSet(S)
  BY ProjectsCount
<1> QED BY <1>1, FS_AddElement

\* Two sets that two others cover count no more than they do.
LEMMA CoverCount ==
  ASSUME NEW A, NEW B, NEW C, NEW D, A \subseteq Project, B \subseteq Project,
         C \subseteq Project, D \subseteq Project,
         A \cap B = {}, A \cup B \subseteq C \cup D
  PROVE  Cardinality(A) + Cardinality(B) <= Cardinality(C) + Cardinality(D)
<1>1. /\ IsFiniteSet(A) /\ IsFiniteSet(B) /\ IsFiniteSet(C) /\ IsFiniteSet(D)
      /\ Cardinality(A) \in Nat /\ Cardinality(B) \in Nat
      /\ Cardinality(C) \in Nat /\ Cardinality(D) \in Nat
  BY ProjectsCount
<1>2. /\ IsFiniteSet(A \cup B)
      /\ Cardinality(A \cup B) = Cardinality(A) + Cardinality(B) - Cardinality({})
  BY <1>1, FS_Union
<1>3. /\ IsFiniteSet(C \cup D)
      /\ Cardinality(C \cup D) =
           Cardinality(C) + Cardinality(D) - Cardinality(C \cap D)
  BY <1>1, FS_Union
<1>4. Cardinality({}) = 0 /\ Cardinality(C \cap D) \in Nat
  BY FS_EmptySet, ProjectsCount
<1>5. Cardinality(A \cup B) <= Cardinality(C \cup D)
  BY <1>3, FS_Subset
<1> QED BY <1>1, <1>2, <1>3, <1>4, <1>5

\* Reading a project adds it to the sure ones of its class, or to the unsure.
LEMMA GetCounts ==
  ASSUME ExporterInv, NEW p \in Project, GetProject(p), Shown'
  PROVE  CountsInv'
<1>1. /\ scan \in Scan /\ scan.pc = "get" /\ p \in scan.todo
      /\ scan.counts \in Counts
      /\ UNCHANGED <<file, unsure>>
  BY DEF ExporterInv, ExporterTypeOK, GetProject, Scan, vars
<1>2. /\ scan'.ids = scan.ids /\ scan'.todo = scan.todo \ {p}
      /\ scan'.now = scan.now /\ scan'.pc = scan.pc
      /\ scan'.counts = Counted(scan.counts, p)
  BY <1>1 DEF GetProject, Scan
<1>3. Shown
  BY <1>1, <1>2 DEF Shown, Detailed
<1>4. /\ scan.todo \subseteq scan.ids /\ \A c \in Class : CountRight(c)
      /\ scan.ids \subseteq Project
  BY <1>1, <1>3 DEF ExporterInv, CountsInv, Shown, Scan
<1>5. Read' = Read \cup {p} /\ p \notin Read
  BY <1>1, <1>2, <1>4 DEF Read
<1>6. ASSUME NEW c \in Class PROVE CountRight(c)'
  <2> DEFINE uncertain == Read \cap unsure
  <2>1. /\ Sure(c) \subseteq Project /\ uncertain \subseteq Project
        /\ p \notin Sure(c) /\ p \notin uncertain
    BY <1>4, <1>5 DEF Sure, Read
  <2>2. /\ Cardinality(Sure(c)) \in Nat /\ Cardinality(uncertain) \in Nat
        /\ scan.counts[c] \in Nat
    BY <1>1, <2>1, ProjectsCount DEF Counts
  <2>3. /\ Cardinality(Sure(c)) <= scan.counts[c]
        /\ scan.counts[c] <= Cardinality(Sure(c)) + Cardinality(uncertain)
    BY <1>4 DEF CountRight
  <2>4. \A x, v : Holds(x, v)' <=> Holds(x, v)
    BY <1>1 DEF Holds
  <2>5. CASE p \in unsure
    <3>1. Sure(c)' = Sure(c)
      BY <1>1, <1>2, <1>5, <2>4, <2>5 DEF Sure, ClassOf
    <3>2. (Read \cap unsure)' = uncertain \cup {p}
      BY <1>1, <1>5, <2>5
    <3>3. Cardinality(uncertain \cup {p}) = Cardinality(uncertain) + 1
      BY <2>1, OneProjectMore
    <3>4. scan'.counts[c] \in {scan.counts[c], scan.counts[c] + 1}
      BY <1>1, <1>2, CountedType DEF Parses
    <3> HIDE DEF uncertain
    <3>5. /\ Cardinality(Sure(c)') = Cardinality(Sure(c))
          /\ Cardinality((Read \cap unsure)') = Cardinality(uncertain) + 1
      BY <3>1, <3>2, <3>3
    <3>6. /\ Cardinality(Sure(c)') <= scan'.counts[c]
          /\ scan'.counts[c] <=
               Cardinality(Sure(c)') + Cardinality((Read \cap unsure)')
      BY <2>2, <2>3, <3>4, <3>5
    <3> QED BY <3>6 DEF CountRight
  <2>6. CASE p \notin unsure
    <3>1. (Read \cap unsure)' = uncertain
      BY <1>1, <1>5, <2>6
    <3> HIDE DEF uncertain
    <3>2. CASE ~ Parses(p)
      <4>1. Sure(c)' = Sure(c)
        BY <1>1, <1>2, <1>5, <2>4, <3>2 DEF Sure, ClassOf, Parses
      <4>2. scan'.counts = scan.counts
        BY <1>1, <1>2, <3>2, CountedType
      <4> QED BY <2>3, <3>1, <4>1, <4>2 DEF CountRight
    <3>3. ASSUME NEW v \in Version, Holds(p, v) PROVE CountRight(c)'
      <4>1. scan'.counts[c] =
              IF ClassOf(v, scan.now) = c THEN scan.counts[c] + 1 ELSE scan.counts[c]
        BY <1>1, <1>2, <3>3, CountedType
      <4>2. \A w \in Version : Holds(p, w) => w = v
        BY <3>3, HoldsOne, VersionIsValue
      <4>3. CASE ClassOf(v, scan.now) = c
        <5>1. Sure(c)' = Sure(c) \cup {p}
          BY <1>1, <1>2, <1>5, <2>4, <2>6, <3>3, <4>3 DEF Sure, ClassOf
        <5>2. Cardinality(Sure(c) \cup {p}) = Cardinality(Sure(c)) + 1
          BY <2>1, OneProjectMore
        <5>3. /\ Cardinality(Sure(c)') = Cardinality(Sure(c)) + 1
              /\ Cardinality((Read \cap unsure)') = Cardinality(uncertain)
          BY <3>1, <5>1, <5>2
        <5>4. scan'.counts[c] = scan.counts[c] + 1
          BY <4>1, <4>3
        <5>5. /\ Cardinality(Sure(c)') <= scan'.counts[c]
              /\ scan'.counts[c] <=
                   Cardinality(Sure(c)') + Cardinality((Read \cap unsure)')
          BY <2>2, <2>3, <5>3, <5>4
        <5> QED BY <5>5 DEF CountRight
      <4>4. CASE ClassOf(v, scan.now) # c
        <5>1. Sure(c)' = Sure(c)
          BY <1>1, <1>2, <1>5, <2>4, <2>6, <3>3, <4>2, <4>4 DEF Sure, ClassOf
        <5> QED BY <2>3, <3>1, <4>1, <4>4, <5>1 DEF CountRight
      <4> QED BY <4>3, <4>4
    <3> QED BY <3>2, <3>3 DEF Parses
  <2> QED BY <2>5, <2>6
<1> QED BY <1>2, <1>4, <1>6 DEF CountsInv

\* A project that could not be read, or that was written, is unsure.
LEMMA UnsureCounts ==
  ASSUME ExporterInv, scan.pc = "get", Shown', Shown,
         scan'.ids = scan.ids, scan'.now = scan.now, scan'.counts = scan.counts,
         scan'.todo \subseteq scan.todo, scan.todo \ scan'.todo \subseteq unsure',
         unsure \subseteq unsure',
         \A n \in Name \ unsure' : file'[n] = file[n]
  PROVE  CountsInv'
<1>1. /\ scan.todo \subseteq scan.ids /\ \A c \in Class : CountRight(c)
      /\ scan.ids \subseteq Project /\ scan.counts \in Counts
  BY DEF ExporterInv, ExporterTypeOK, CountsInv, Shown, Scan
<1>2. ASSUME NEW c \in Class PROVE CountRight(c)'
  <2> DEFINE old == Read \cap unsure
             new == Read' \cap unsure'
  <2>1. /\ Cardinality(Sure(c)) <= scan.counts[c]
        /\ scan.counts[c] <= Cardinality(Sure(c)) + Cardinality(old)
        /\ scan.counts[c] \in Nat
    BY <1>1 DEF CountRight, Counts
  <2>2. \A x \in Project \ unsure', v \in Version : Holds(x, v)' <=> Holds(x, v)
    BY DEF Holds, Name
  <2>3. Sure(c)' = Sure(c) \ unsure'
    BY <1>1, <2>2 DEF Sure, Read, ClassOf
  <2>4. /\ Sure(c) \cap old = {} /\ Sure(c) \cup old \subseteq Sure(c)' \cup new
        /\ Sure(c) \subseteq Project /\ old \subseteq Project
        /\ Sure(c)' \subseteq Project /\ new \subseteq Project
    BY <1>1, <2>3 DEF Sure, Read
  <2>5. Cardinality(Sure(c)) + Cardinality(old)
          <= Cardinality(Sure(c)') + Cardinality(new)
    BY <2>4, CoverCount
  <2>6. Cardinality(Sure(c)') <= Cardinality(Sure(c))
    BY <2>3, <2>4, ProjectsCount, FS_Subset
  <2>7. /\ Cardinality(Sure(c)) \in Nat /\ Cardinality(Sure(c)') \in Nat
        /\ Cardinality(old) \in Nat /\ Cardinality(new) \in Nat
    BY <2>4, ProjectsCount
  <2>8. scan.counts[c] <= Cardinality(Sure(c)') + Cardinality(new)
    BY <2>1, <2>5, <2>7
  <2>9. Cardinality(Sure(c)') <= scan.counts[c]
    BY <2>1, <2>6, <2>7
  <2> QED BY <2>8, <2>9 DEF CountRight
<1> QED BY <1>1, <1>2 DEF CountsInv

LEMMA NextCounts ==
  ASSUME ExporterInv, Next
  PROVE  CountsInv'
<1> SUFFICES ASSUME Shown', scan'.pc = "get" PROVE CountsInv'
  BY DEF CountsInv
<1>1. scan \in Scan
  BY DEF ExporterInv, ExporterTypeOK
<1>2. CASE ListProjects
  <2>1. /\ scan'.ids \subseteq Project /\ scan'.counts = NoCounts
        /\ scan'.todo = IF Detailed(scan'.ids) THEN scan'.ids ELSE {}
    BY <1>2 DEF ListProjects, IdleScan
  <2>2. scan'.todo = scan'.ids
    <3>1. Detailed(scan'.ids)
      BY DEF Shown, Detailed
    <3> QED BY <2>1, <3>1
  <2>3. ASSUME NEW c \in Class PROVE CountRight(c)'
    <3>1. Sure(c)' = {} /\ (Read \cap unsure)' = {}
      BY <2>2 DEF Sure, Read
    <3>2. scan'.counts[c] = 0
      BY <2>1 DEF NoCounts
    <3> QED BY <3>1, <3>2, FS_EmptySet DEF CountRight
  <2> QED BY <2>2, <2>3 DEF CountsInv
<1>3. CASE ListFails
  <2>1. scan'.ids = None
    BY <1>3 DEF ListFails, IdleScan
  <2> QED BY <2>1 DEF Shown
<1>4. CASE \E p \in Project : GetProject(p)
  BY <1>4, GetCounts
<1>5. CASE \E p \in Project : GetFails(p)
  <2>1. PICK p \in Project : GetFails(p)
    BY <1>5
  <2>2. /\ scan'.ids = scan.ids /\ scan'.now = scan.now
        /\ scan'.counts = scan.counts /\ scan'.todo = scan.todo \ {p}
        /\ scan.pc = "get" /\ unsure' = unsure \cup {p} /\ file' = file
    BY <1>1, <2>1 DEF GetFails, Scan
  <2>3. Shown
    BY <2>2 DEF Shown, Detailed
  <2> QED BY <2>2, <2>3, UnsureCounts
<1>6. CASE Publish \/ Restart
  BY <1>6 DEF Publish, Restart, IdleScan
<1>7. CASE Tick
  <2>1. UNCHANGED <<file, scan, unsure>>
    BY <1>7 DEF Tick, vars
  <2> QED BY <2>1 DEF ExporterInv, CountsInv, CountRight, Sure, Read, Holds,
          ClassOf, Shown, Detailed
<1>8. CASE StoreStep
  <2>1. scan' = scan /\ scan.pc = "get"
    BY <1>8 DEF StoreStep
  <2>2. unsure' = unsure \cup {n \in Name : file'[n] # file[n]}
    BY <1>8, <2>1 DEF StoreStep
  <2>3. Shown
    BY <2>1 DEF Shown, Detailed
  <2> QED BY <2>1, <2>2, <2>3, UnsureCounts
<1> QED BY <1>2, <1>3, <1>4, <1>5, <1>6, <1>7, <1>8 DEF Next

\* The files, the threads and the exporter are well typed, a file at rest is
\* whole, and the counts are right so far.
THEOREM ExporterInvHolds == Spec => []ExporterInv
<1>1. ExporterInit => ExporterInv
  <2> SUFFICES ASSUME ExporterInit PROVE ExporterInv
    OBVIOUS
  <2>1. TypeOK
    BY IdleTaskOK, PagesType DEF ExporterInit, Init, TypeOK, TaskOK
  <2>2. scan \in Scan /\ clock \in 0..MaxClock /\ scan.pc = "idle"
    BY LimitsType DEF ExporterInit, IdleScan, Scan, NoCounts, Counts
  <2>3. \A n \in Name : ~ Exists(n) /\ Writers(n) = {}
    BY IdleTaskOK DEF ExporterInit, Init, Exists, Writers, At
  <2> QED BY <2>1, <2>2, <2>3 DEF ExporterInit, ExporterInv, ExporterTypeOK,
          WholeInv, RestIsWhole, CountsInv
<1>2. ExporterInv /\ [Next]_allvars => ExporterInv'
  <2> SUFFICES ASSUME ExporterInv, [Next]_allvars PROVE ExporterInv'
    OBVIOUS
  <2>1. CASE Next
    BY <2>1, ScanType, ScanWhole, NextCounts DEF ExporterInv
  <2>2. CASE UNCHANGED allvars
    <3>1. UNCHANGED vars /\ UNCHANGED exporter
      BY <2>2 DEF allvars
    <3>2. TypeOK'
      BY <3>1 DEF ExporterInv, ExporterTypeOK, TypeOK, vars
    <3>3. WholeInv'
      BY <3>1 DEF ExporterInv, WholeInv, RestIsWhole, Writers, At, Exists,
          Holds, vars
    <3>4. CountsInv'
      BY <3>1 DEF ExporterInv, CountsInv, CountRight, Sure, Read, Holds,
          ClassOf, Shown, Detailed, vars, exporter
    <3> QED BY <3>1, <3>2, <3>3, <3>4 DEF ExporterInv, ExporterTypeOK, exporter
  <2> QED BY <2>1, <2>2
<1> QED BY <1>1, <1>2, PTL DEF Spec

\* The state of the stores and of the exporter is well typed.
THEOREM ExporterTypeCorrect == Spec => []ExporterTypeOK
BY ExporterInvHolds, PTL DEF ExporterInv

\* A file at rest holds the value last written to it, and all of it, unless
\* two had it open at once or a write to it failed.
THEOREM RestIsWholeHolds == Spec => []RestIsWhole
<1>1. ExporterInv => RestIsWhole
  BY DEF ExporterInv, WholeInv
<1> QED BY <1>1, ExporterInvHolds, PTL

\* A torn record that nobody had taken up stays torn, whatever the handlers,
\* the reaper and restarts do.
THEOREM TornStaysHolds == Spec => TornStays
<1>1. ExporterInv /\ [Next]_allvars => [\A p \in Project : Torn(p) => Torn(p)']_vars
  <2> SUFFICES ASSUME ExporterInv, [Next]_allvars, NEW p \in Project, Torn(p)
               PROVE  Torn(p)'
    OBVIOUS
  <2>1. CASE UNCHANGED <<file, task>>
    BY <2>1 DEF Torn, Exists, Parses, Holds
  <2>2. CASE StoreStep
    BY <2>2, StepLeavesTorn DEF StoreStep, ExporterInv, ExporterTypeOK
  <2>3. CASE Restart
    BY <2>3, CrashLeavesTorn DEF Restart
  <2> QED BY <2>1, <2>2, <2>3 DEF Next, ListProjects, ListFails, GetProject,
          GetFails, Publish, Tick, vars, allvars
<1> QED BY <1>1, ExporterInvHolds, PTL DEF Spec, TornStays

\* What a refresh publishes is right for the projects nobody wrote while it
\* ran, and each other project is at most one too many in one class.
THEOREM CountsUntouchedHolds == Spec => CountsUntouched
<1>1. ASSUME ExporterInv, Publish, Breakdown # None, NEW c \in Class
      PROVE  LET sure == {p \in scan.ids \ unsure : \E v \in Version :
                            Holds(p, v) /\ ClassOf(v, scan.now) = c}
                 n == Breakdown[c]
             IN /\ Cardinality(sure) <= n
                /\ n <= Cardinality(sure) + Cardinality(scan.ids \cap unsure)
  <2>1. scan.pc = "get" /\ scan.todo = {}
    BY <1>1 DEF Publish
  <2>2. Read = scan.ids
    BY <2>1 DEF Read
  <2>4. Shown /\ Breakdown = scan.counts
    BY <1>1 DEF Breakdown
  <2>3. CountRight(c)
    BY <1>1, <2>1, <2>4 DEF ExporterInv, CountsInv
  <2> QED BY <2>2, <2>3, <2>4 DEF CountRight, Sure
<1>2. ExporterInv =>
        [Publish /\ Breakdown # None =>
           \A c \in Class :
             LET sure == {p \in scan.ids \ unsure : \E v \in Version :
                            Holds(p, v) /\ ClassOf(v, scan.now) = c}
                 n == Breakdown[c]
             IN /\ Cardinality(sure) <= n
                /\ n <= Cardinality(sure) + Cardinality(scan.ids \cap unsure)]_allvars
  BY <1>1
<1> QED BY <1>2, ExporterInvHolds, PTL DEF CountsUntouched

=============================================================================
