------------------------------- MODULE KvStore -------------------------------
(***************************************************************************)
(* The key-value store of one project on the server: put_value,            *)
(* delete_value and the removal of the project, over FsKvStore or          *)
(* S3KvStore, with the sizes the two quotas count.                         *)
(*                                                                         *)
(* LwidServer only knows whether a project has values.  Here every call    *)
(* that measures or changes the store is an action of its own, and on the  *)
(* file system every file: a walk of the directory reads one file at a     *)
(* time, and fs::write truncates before it writes.                         *)
(***************************************************************************)
EXTENDS Integers, FiniteSets, FiniteSetsExt

CONSTANTS
  Key,         \* the store keys in use
  Req,         \* slots for requests in flight
  Backend,     \* the backends the server may be configured with
  TierTotal,   \* max_store_total of the tiers of the callers
  MaxTotal,    \* MAX_STORE_TOTAL_SIZE
  MaxValue,    \* MAX_STORE_VALUE_SIZE
  Width,       \* bits of an unsigned size: 64 in the code
  MaxFaults,   \* bound on failed storage calls and dropped connections
  None

ASSUME LimitsType ==
  /\ IsFiniteSet(Key) /\ IsFiniteSet(Req) /\ Req # {}
  /\ Backend \subseteq {"fs", "s3"}
  /\ TierTotal \subseteq Nat
  /\ MaxTotal \in Nat /\ MaxValue \in Nat /\ Width \in Nat
  /\ MaxFaults \in Nat
  /\ None \notin Key /\ None \notin Nat

\* A walk reads every file once, at different times: what it adds up to may be
\* more than was ever stored, but not more than this, and does not wrap.  Only
\* a negative difference does.
ASSUME WidthSuffices == (Cardinality(Key) + 1) * MaxValue < 2^Width

-----------------------------------------------------------------------------

VARIABLES
  backend,     \* StorageConfig::backend, read at start
  project,     \* the project's record exists
  size,        \* size[k]: bytes stored under k, None if there is no value
  req,         \* locals of the requests in flight
  remover,     \* the task that removes the project: its next step
  doomed,      \* keys it listed and has still to delete
  faults,
  racing       \* history: keys with a put in flight when the record went

vars == <<backend, project, size, req, remover, doomed, faults, racing>>

-----------------------------------------------------------------------------

Len == 0 .. MaxValue
SizeOf(k) == IF size[k] = None THEN 0 ELSE size[k]

\* Sizes are added up as a count of the bytes, each with its key and position.
Bytes(s) == {b \in Key \X (1 .. MaxValue) : b[2] <= s[b[1]]}
Count(s) == Cardinality(Bytes(s))
Sizes == [k \in Key |-> SizeOf(k)]
Total == Count(Sizes)
Present == {k \in Key : size[k] # None}

\* pc: the next call.  todo: the files a walk has still to read.  total, old:
\* what the request measured.  linked: the open file is still the key's.
Request ==
  [pc : {"idle", "tier", "measure", "existing", "write", "data", "probe",
         "unlink"},
   key : Key \cup {None}, len : Len, limit : TierTotal \cup {0},
   todo : SUBSET Key, total : Nat, old : Len, linked : BOOLEAN]

IdleReq ==
  [pc |-> "idle", key |-> None, len |-> 0, limit |-> 0, todo |-> {},
   total |-> 0, old |-> 0, linked |-> FALSE]

TypeOK ==
  /\ backend \in Backend
  /\ project \in BOOLEAN
  /\ size \in [Key -> Len \cup {None}]
  /\ req \in [Req -> Request]
  /\ \A q \in Req : req[q].pc # "idle" => req[q].key \in Key
  /\ remover \in {"idle", "list", "clear", "done"}
  /\ doomed \subseteq Key
  /\ doomed # {} => remover = "clear"
  /\ \A q \in Req : req[q].linked => req[q].pc = "data"
  /\ faults \in 0 .. MaxFaults
  /\ racing \subseteq Key

Init ==
  /\ backend \in Backend
  /\ project = TRUE
  /\ size = [k \in Key |-> None]
  /\ req = [q \in Req |-> IdleReq]
  /\ remover = "idle"
  /\ doomed = {}
  /\ faults = 0
  /\ racing = {}

At(q, pc) == req[q].pc = pc
Goto(q, r) == req' = [req EXCEPT ![q] = r]
Finish(q) == Goto(q, IdleReq)

-----------------------------------------------------------------------------
(* put_value.                                                              *)

\* The record is there, the token is its own and the value is not too long.
SlipPutFetch(q) ==
  /\ At(q, "idle")
  /\ \E k \in Key, len \in Len, limit \in TierTotal :
       Goto(q, [IdleReq EXCEPT !.pc = "tier", !.key = k, !.len = len,
                               !.limit = limit, !.todo = Key])
  /\ UNCHANGED <<backend, project, size, remover, doomed, faults, racing>>
PutFetch(q) ==
  /\ At(q, "idle")
  /\ project
  /\ \E k \in Key, len \in Len, limit \in TierTotal :
       Goto(q, [IdleReq EXCEPT !.pc = "tier", !.key = k, !.len = len,
                               !.limit = limit, !.todo = Key])
  /\ UNCHANGED <<backend, project, size, remover, doomed, faults, racing>>

\* list_keys_with_sizes, walk_size: file by file, where one that was removed
\* since the directory was read fails the request (RequestFails).
\* list_entries: one listing, which is also where S3KvStore::put finds the
\* size of the old value.
Measured(r) ==
  IF backend = "fs"
  THEN {[r EXCEPT !.todo = @ \ {k}, !.total = @ + SizeOf(k)] : k \in r.todo}
  ELSE {[r EXCEPT !.todo = {}, !.total = Total, !.old = SizeOf(r.key)]}

PutMeasure(q) ==
  /\ At(q, "tier") \/ At(q, "measure")
  /\ req[q].todo # {}
  /\ \E r \in Measured(req[q]) : Goto(q, r)
  /\ UNCHANGED <<backend, project, size, remover, doomed, faults, racing>>

\* The quota of the caller's tier, which counts the old value as well.
TierAdmits(r) == r.total + r.len <= r.limit

PutTierCheck(q) ==
  /\ At(q, "tier")
  /\ req[q].todo = {}
  /\ IF TierAdmits(req[q])
     THEN Goto(q, [req[q] EXCEPT !.pc = "measure", !.todo = Key, !.total = 0])
     ELSE Finish(q)
  /\ UNCHANGED <<backend, project, size, remover, doomed, faults, racing>>

\* Unsigned arithmetic on two measurements: it wraps if the old value was
\* written between them.  (A debug build panics, which refuses as well.)
SlipStoreAdmits(total, old, len) == (total - old) % 2^Width <= MaxTotal
StoreAdmits(total, old, len) == (total - old + len) % 2^Width <= MaxTotal

\* fs::metadata of the old value comes after the walk.
PutExisting(q) ==
  /\ At(q, "measure")
  /\ req[q].todo = {}
  /\ Goto(q, [req[q] EXCEPT !.pc = "existing",
                 !.old = IF backend = "fs" THEN SizeOf(req[q].key) ELSE @])
  /\ UNCHANGED <<backend, project, size, remover, doomed, faults, racing>>

PutStoreCheck(q) ==
  /\ At(q, "existing")
  /\ IF StoreAdmits(req[q].total, req[q].old, req[q].len)
     THEN Goto(q, [req[q] EXCEPT !.pc = "write"])
     ELSE Finish(q)
  /\ UNCHANGED <<backend, project, size, remover, doomed, faults, racing>>

\* put_object, or create_dir_all and the opening of the file, which empties it.
PutWrite(q) ==
  LET r == req[q] IN
  /\ At(q, "write")
  /\ IF backend = "fs"
     THEN /\ size' = [size EXCEPT ![r.key] = 0]
          /\ Goto(q, [r EXCEPT !.pc = "data", !.linked = TRUE])
     ELSE /\ size' = [size EXCEPT ![r.key] = r.len]
          /\ Finish(q)
  /\ UNCHANGED <<backend, project, remover, doomed, faults, racing>>

\* The bytes are appended instead.
SlipPutData(q) ==
  LET r == req[q] IN
  /\ At(q, "data")
  /\ size' = IF r.linked THEN [size EXCEPT ![r.key] = @ + r.len] ELSE size
  /\ Finish(q)
  /\ UNCHANGED <<backend, project, remover, doomed, faults, racing>>

\* The bytes go to the open file: two writers leave the longer length, and a
\* file that was removed meanwhile takes them with it.
PutData(q) ==
  LET r == req[q] IN
  /\ At(q, "data")
  /\ size' = IF r.linked
             THEN [size EXCEPT ![r.key] = Max({SizeOf(r.key), r.len})]
             ELSE size
  /\ Finish(q)
  /\ UNCHANGED <<backend, project, remover, doomed, faults, racing>>

-----------------------------------------------------------------------------
(* delete_value, and the removal of the project.                           *)

\* Key k's file or object is gone; whoever has the file open keeps a file
\* without a name.
Unlinked(k) ==
  [q \in Req |-> IF req[q].pc = "data" /\ req[q].key = k
                 THEN [req[q] EXCEPT !.linked = FALSE] ELSE req[q]]

DeleteFetch(q) ==
  /\ At(q, "idle")
  /\ project
  /\ \E k \in Key : Goto(q, [IdleReq EXCEPT !.pc = "probe", !.key = k])
  /\ UNCHANGED <<backend, project, size, remover, doomed, faults, racing>>

DeleteProbe(q) ==
  /\ At(q, "probe")
  /\ IF size[req[q].key] = None
     THEN Finish(q)
     ELSE Goto(q, [req[q] EXCEPT !.pc = "unlink"])
  /\ UNCHANGED <<backend, project, size, remover, doomed, faults, racing>>

DeleteUnlink(q) ==
  LET k == req[q].key IN
  /\ At(q, "unlink")
  /\ size' = [size EXCEPT ![k] = None]
  /\ req' = [Unlinked(k) EXCEPT ![q] = IdleReq]
  /\ UNCHANGED <<backend, project, remover, doomed, faults, racing>>

\* delete_project or the reaper removes the record first ...
Putting == {req[q].key : q \in {x \in Req :
              req[x].pc \notin {"idle", "probe", "unlink"}}}

RemoveRecord ==
  /\ project
  /\ project' = FALSE
  /\ remover' = "list"
  /\ racing' = Putting
  /\ UNCHANGED <<backend, size, req, doomed, faults>>

\* ... then delete_all lists the keys and deletes them one by one.  On the
\* file system the directory is read as it is emptied, so a file that appears
\* meanwhile may go too.
ClearList ==
  /\ remover = "list"
  /\ doomed' = Present
  /\ remover' = "clear"
  /\ UNCHANGED <<backend, project, size, req, faults, racing>>

ClearKey(k) ==
  /\ remover = "clear"
  /\ k \in doomed \/ (backend = "fs" /\ k \in Present)
  /\ doomed' = doomed \ {k}
  /\ size' = [size EXCEPT ![k] = None]
  /\ req' = Unlinked(k)
  /\ UNCHANGED <<backend, project, remover, faults, racing>>

ClearDone ==
  /\ remover = "clear"
  /\ doomed = {}
  /\ remover' = "done"
  /\ UNCHANGED <<backend, project, size, req, doomed, faults, racing>>

\* Its failure is logged; nothing tries again.
ClearFails ==
  /\ remover \in {"list", "clear"}
  /\ faults < MaxFaults
  /\ faults' = faults + 1
  /\ remover' = "done"
  /\ doomed' = {}
  /\ UNCHANGED <<backend, project, size, req, racing>>

\* A storage call fails, or the client hangs up while the handler awaits one.
RequestFails(q) ==
  /\ ~ At(q, "idle")
  /\ faults < MaxFaults
  /\ faults' = faults + 1
  /\ Finish(q)
  /\ UNCHANGED <<backend, project, size, remover, doomed, racing>>

-----------------------------------------------------------------------------

Handle(q) ==
  \/ PutMeasure(q) \/ PutTierCheck(q) \/ PutExisting(q) \/ PutStoreCheck(q)
  \/ PutWrite(q) \/ PutData(q)
  \/ DeleteProbe(q) \/ DeleteUnlink(q)

Clear == ClearList \/ (\E k \in Key : ClearKey(k)) \/ ClearDone

Next ==
  \/ \E q \in Req : PutFetch(q) \/ DeleteFetch(q) \/ Handle(q) \/ RequestFails(q)
  \/ RemoveRecord \/ Clear \/ ClearFails

Spec == Init /\ [][Next]_vars

-----------------------------------------------------------------------------
(* Properties.                                                             *)

\* MAX_STORE_TOTAL_SIZE is checked before the write and not again: puts that
\* measured before one another's writes overrun it, but by no more than a
\* value for each request besides the first.
OverrunBounded == Total <= MaxTotal + (Cardinality(Req) - 1) * MaxValue

\* A wrapped difference admits nothing that does not fit: what is written is
\* within the limit by the two measurements, as plain numbers.
AdmitsOnlyFitting ==
  \A q \in Req : At(q, "write") =>
    req[q].total + req[q].len <= MaxTotal + req[q].old

\* Once a project is removed and no call failed, the only values left are
\* those whose put had passed the check of the record before it went.  (A
\* record that a stale update brings back, as LwidServer shows, admits puts
\* again; that is not modelled here.)
OnlyRacingValuesStay ==
  (remover = "done" /\ faults = 0) => Present \subseteq racing

\* Why: once the record is gone no new put gets past its check, and what
\* delete_all has not listed belongs to an old one.
RemovalInv ==
  /\ project <=> remover = "idle"
  /\ ~ project => Putting \subseteq racing
  /\ remover = "clear" => Present \subseteq racing \cup doomed
  /\ OnlyRacingValuesStay

=============================================================================
