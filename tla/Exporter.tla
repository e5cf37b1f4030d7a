------------------------------ MODULE Exporter ------------------------------
(***************************************************************************)
(* The metrics exporter over the file-system stores: a task that every so  *)
(* often lists the projects, reads each of them, and puts what it counted  *)
(* where scrapes find it.  It takes no lock on the stores, so what it      *)
(* counts changes while it counts.  The gauges of the database and of the  *)
(* blob store are left out.                                                *)
(***************************************************************************)
EXTENDS FsStores, FiniteSets

CONSTANTS
  Deadline,     \* Deadline[v]: expires_at of record v, or None
  DetailLimit,  \* project_detail_limit; 0 is project_detail off
  MaxClock      \* bound on the clock

ASSUME DeadlineType == Deadline \in [Version -> Nat \cup {None}]
ASSUME LimitsType ==
  /\ DetailLimit \in Nat /\ MaxClock \in Nat /\ None \notin Nat
  /\ IsFiniteSet(Project)

VARIABLES
  clock,
  scan,      \* local state of the refresh
  unsure     \* history: files changed, or not read, during this refresh

exporter == <<clock, scan, unsure>>
allvars == <<vars, exporter>>

Class == {"expiring", "expired", "no_expiry"}
Counts == [Class -> Nat]
NoCounts == [c \in Class |-> 0]

\* ids: the projects listed, or None if that failed.
Scan ==
  [pc : {"idle", "get"}, ids : (SUBSET Project) \cup {None},
   todo : SUBSET Project, now : Nat, counts : Counts]

IdleScan ==
  [pc |-> "idle", ids |-> None, todo |-> {}, now |-> 0, counts |-> NoCounts]

ExporterTypeOK ==
  /\ TypeOK
  /\ clock \in 0..MaxClock
  /\ scan \in Scan
  /\ unsure \subseteq Name

ExporterInit ==
  /\ Init
  /\ clock = 0
  /\ scan = IdleScan
  /\ unsure = {}

-----------------------------------------------------------------------------

\* The gauge that a record counts in, at time now.
ClassOf(v, now) ==
  IF Deadline[v] = None THEN "no_expiry"
  ELSE IF Deadline[v] <= now THEN "expired" ELSE "expiring"

Detailed(ids) == Cardinality(ids) <= DetailLimit

\* ProjectStore::list, and Utc::now().
ListProjects ==
  LET ids == {p \in Project : Exists(p)} IN
  /\ scan.pc = "idle"
  /\ scan' = [IdleScan EXCEPT !.ids = ids, !.now = clock,
                !.pc = "get", !.todo = IF Detailed(ids) THEN ids ELSE {}]
  /\ unsure' = {}
  /\ UNCHANGED <<vars, clock>>

ListFails ==
  /\ scan.pc = "idle"
  /\ faults < MaxFaults
  /\ faults' = faults + 1
  /\ scan' = [IdleScan EXCEPT !.pc = "get"]
  /\ unsure' = {}
  /\ UNCHANGED <<file, task, last, suspect, clock>>

\* The reads run at the same time; one that fails, whatever the reason, is
\* left out.
SlipCounted(counts, p) ==
  IF Parses(p)
  THEN LET v == CHOOSE v \in Version : Holds(p, v)
       IN [counts EXCEPT ![ClassOf(v, clock)] = @ + 1]
  ELSE counts
Counted(counts, p) ==
  IF Parses(p)
  THEN LET v == CHOOSE v \in Version : Holds(p, v)
       IN [counts EXCEPT ![ClassOf(v, scan.now)] = @ + 1]
  ELSE counts

GetProject(p) ==
  /\ scan.pc = "get" /\ p \in scan.todo
  /\ scan' = [scan EXCEPT !.todo = @ \ {p}, !.counts = Counted(@, p)]
  /\ UNCHANGED <<vars, clock, unsure>>

GetFails(p) ==
  /\ scan.pc = "get" /\ p \in scan.todo
  /\ faults < MaxFaults
  /\ faults' = faults + 1
  /\ scan' = [scan EXCEPT !.todo = @ \ {p}]
  /\ unsure' = unsure \cup {p}
  /\ UNCHANGED <<file, task, last, suspect, clock>>

\* The gauges of the projects that the snapshot shows, if it shows any.
Shown == scan.ids # None /\ Detailed(scan.ids)
Breakdown == IF Shown THEN scan.counts ELSE None

\* The numbers become the snapshot that scrapes are answered with: it replaces
\* the one before as a whole, under a lock.
Publish ==
  /\ scan.pc = "get" /\ scan.todo = {}
  /\ scan' = IdleScan
  /\ unsure' = {}
  /\ UNCHANGED <<vars, clock>>

Tick ==
  /\ clock < MaxClock
  /\ clock' = clock + 1
  /\ UNCHANGED <<vars, scan, unsure>>

StoreStep ==
  /\ \E t \in Task : Step(t)
  /\ unsure' = IF scan.pc = "idle" THEN {}
               ELSE unsure \cup {n \in Name : file'[n] # file[n]}
  /\ UNCHANGED <<clock, scan>>

Restart ==
  /\ Crash
  /\ scan' = IdleScan
  /\ unsure' = {}
  /\ UNCHANGED clock

Next ==
  \/ ListProjects \/ ListFails
  \/ \E p \in Project : GetProject(p) \/ GetFails(p)
  \/ Publish
  \/ Tick
  \/ StoreStep
  \/ Restart

Spec == ExporterInit /\ [][Next]_allvars

-----------------------------------------------------------------------------
(* Properties.                                                             *)

\* What a refresh publishes of the projects is right for those that nobody
\* wrote, and no read failed of, while it ran, as of the one time it compares
\* with; each of the others is at most one too many in one class.
CountsUntouched ==
  [][Publish /\ Breakdown # None =>
       \A c \in Class :
         LET sure == {p \in scan.ids \ unsure : \E v \in Version :
                        Holds(p, v) /\ ClassOf(v, scan.now) = c}
             n == Breakdown[c]
         IN /\ Cardinality(sure) <= n
            /\ n <= Cardinality(sure) + Cardinality(scan.ids \cap unsure)]_allvars

\* Why: it holds of the projects read so far.
Read == scan.ids \ scan.todo
Sure(c) ==
  {p \in Read \ unsure :
     \E v \in Version : Holds(p, v) /\ ClassOf(v, scan.now) = c}
CountRight(c) ==
  /\ Cardinality(Sure(c)) <= scan.counts[c]
  /\ scan.counts[c] <= Cardinality(Sure(c)) + Cardinality(Read \cap unsure)

CountsInv ==
  scan.pc = "get" /\ Shown =>
    scan.todo \subseteq scan.ids /\ \A c \in Class : CountRight(c)

=============================================================================
