----------------------------- MODULE LwidServer -----------------------------
(***************************************************************************)
(* The lwid server: HTTP handlers for projects, blobs and the key-value    *)
(* store, and the reaper task, over three storage backends (project        *)
(* records, blobs, store values) and the project_owners table.             *)
(*                                                                         *)
(* Handlers and the reaper are async tasks of one process.  They share no  *)
(* lock; every storage call is an await point.  So one action is one       *)
(* storage call, with the code that runs up to the next one, and tasks     *)
(* interleave between calls.  A record is replaced by get, modify, put:    *)
(* two calls, between which others may run.                                *)
(*                                                                         *)
(* A request that is refused at its first storage call (404, 401, 400)     *)
(* changes nothing, which is a stuttering step; a later refusal returns    *)
(* the request slot to IdleReq.                                            *)
(***************************************************************************)
EXTENDS Manifests, FiniteSets, Sequences

CONSTANTS
  Project,       \* project ids nanoid may draw
  Key,           \* Ed25519 keys of the owners
  User,          \* signed-in users; an anonymous caller is None
  Name,          \* encrypted display names
  Duration,      \* Duration[i]: ticks of the i-th TTL choice, shortest first
  MaxTtl,        \* MaxTtl[c]: index of the max_ttl of caller c's tier
  MaxProjects,   \* MaxProjects[u]: quota of user u's tier, 0 = unlimited
  MaxSize,       \* MaxSize[c]: max_project_size of caller c's tier
  Backend,       \* "fs" or "s3": they differ on removing a missing record
  Req,           \* slots for requests in flight
  Ops,           \* the operations the clients of the instance call
  MaxClock,      \* bound on the clock
  MaxFaults,     \* bound on failed storage calls and dropped connections
  MaxCrashes     \* bound on restarts of the process

AllOps == {"create", "update_root", "update_name", "extend_ttl", "delete",
           "upload", "put_value"}
Caller == User \cup {None}

\* TTL_CHOICES as indexes: those of Duration, then "never".
NeverTtl == Len(Duration) + 1
Ttl == 1..NeverTtl

ASSUME NoneIsNoValue ==
  /\ None \notin Project /\ None \notin Key /\ None \notin User
  /\ None \notin Name /\ None \notin Nat

ASSUME DurationType ==
  /\ Duration \in Seq(Nat)
  /\ \A i, j \in DOMAIN Duration : i <= j => Duration[i] <= Duration[j]

ASSUME PolicyType ==
  /\ MaxTtl \in [Caller -> Ttl]
  /\ MaxProjects \in [User -> Nat]
  /\ MaxSize \in [Caller -> Nat]

ASSUME InstanceType ==
  /\ Backend \in {"fs", "s3"}
  /\ Ops \subseteq AllOps
  /\ IsFiniteSet(Project) /\ IsFiniteSet(Req)
  /\ MaxClock \in Nat /\ MaxFaults \in Nat /\ MaxCrashes \in Nat

VARIABLES
  projects,      \* stored records: projects[p] is p's record, or None
  blobs,         \* CIDs present in the blob store
  kv,            \* projects with values in the key-value store
  owner,         \* rows of project_owners: owner[p] is a user, or None
  clock,         \* Utc::now()
  req,           \* local state of the handlers in flight
  reaper,        \* local state of the sweep
  faults,        \* storage calls failed so far
  crashes,       \* restarts so far
  creator,       \* history: the key that created p, None if never created
  touched,       \* history: projects written since this sweep listed them
  unread         \* history: projects this sweep could not read

stores == <<projects, blobs, kv, owner>>
history == <<creator, touched, unread>>
bounds == <<faults, crashes>>
vars == <<stores, clock, req, reaper, bounds, history>>

-----------------------------------------------------------------------------
(* Values.                                                                 *)

ProjectRecord ==
  [root_cid : Cid \cup {None}, write_pubkey : Key \cup {None},
   expires_at : Nat \cup {None}, blob_cids : SUBSET Cid,
   name : Name \cup {None}]

ASSUME NoneIsNoRecord == None \notin ProjectRecord

EmptyRecord ==
  [root_cid |-> None, write_pubkey |-> None, expires_at |-> None,
   blob_cids |-> {}, name |-> None]

\* A handler's locals: the operation, the storage call it makes next, the
\* project, the signing key, the user, the record it is building, the next
\* manifest of the chain to read, the ids it listed.
RequestPc ==
  {"idle", "list", "count", "create", "owner", "manifest", "walk", "get",
   "put", "delete_get", "remove", "delete_all", "blob_put", "kv_put"}

Request ==
  [op : AllOps \cup {None}, pc : RequestPc, id : Project \cup {None},
   key : Key \cup {None}, caller : Caller, rec : ProjectRecord,
   next : Cid \cup {None}, seen : SUBSET Project]

IdleReq ==
  [op |-> None, pc |-> "idle", id |-> None, key |-> None, caller |-> None,
   rec |-> EmptyRecord, next |-> None, seen |-> {}]

\* The sweep's locals: the ids still to read, the time it compares with, the
\* expired ids still to delete, the blobs of live projects, the project being
\* deleted, and the blobs of the deleted record still to remove.
Sweep ==
  [pc : {"sleep", "scan", "remove", "blobs"}, todo : SUBSET Project,
   now : Nat, expired : SUBSET Project, live : SUBSET Cid,
   cur : Project \cup {None}, cids : SUBSET Cid]

Asleep ==
  [pc |-> "sleep", todo |-> {}, now |-> 0, expired |-> {}, live |-> {},
   cur |-> None, cids |-> {}]

Stored == {p \in Project : projects[p] # None}

\* What a handler's locals hold by the time it makes a call.
UpdateOps == {"update_root", "update_name", "extend_ttl"}

LocalsOK(r) ==
  /\ r.pc \in {"owner", "manifest", "walk", "get", "put", "delete_get",
              "remove", "delete_all", "kv_put"} => r.id \in Project
  /\ r.pc \in {"list", "count", "owner"} => r.caller \in User
  /\ r.pc \in {"list", "count", "create"} => r.key \in Key
  /\ r.pc \in {"manifest", "walk", "blob_put"} => r.next \in Cid
  /\ r.pc \in {"manifest", "walk"} => r.op = "update_root"
  /\ r.pc = "get" => r.op \in UpdateOps

TypeOK ==
  /\ projects \in [Project -> ProjectRecord \cup {None}]
  /\ blobs \subseteq Cid
  /\ kv \subseteq Project
  /\ owner \in [Project -> User \cup {None}]
  /\ clock \in 0..MaxClock
  /\ req \in [Req -> Request]
  /\ \A q \in Req : LocalsOK(req[q])
  /\ reaper \in Sweep
  /\ reaper.pc \in {"remove", "blobs"} => reaper.cur \in Project
  /\ faults \in 0..MaxFaults
  /\ crashes \in 0..MaxCrashes
  /\ creator \in [Project -> Key \cup {None}]
  /\ touched \subseteq Project
  /\ unread \subseteq Project

Init ==
  /\ projects = [p \in Project |-> None]
  /\ blobs = {}
  /\ kv = {}
  /\ owner = [p \in Project |-> None]
  /\ clock = 0
  /\ req = [q \in Req |-> IdleReq]
  /\ reaper = Asleep
  /\ faults = 0
  /\ crashes = 0
  /\ creator = [p \in Project |-> None]
  /\ touched = {}
  /\ unread = {}

-----------------------------------------------------------------------------
(* Helpers.  A definition named Slip... is the one below it with a         *)
(* plausible mistake; nothing uses it, and README.md says which property   *)
(* would notice.                                                           *)

SlipLateIsExpired(r, now) == r.expires_at # None /\ now > r.expires_at
SlipEarlyIsExpired(r, now) == r.expires_at # None /\ now + 1 >= r.expires_at
IsExpired(r, now) == r.expires_at # None /\ now >= r.expires_at

SlipClamp(requested, max) == IF requested < max THEN max ELSE requested
clamp_ttl(requested, max) == IF requested > max THEN max ELSE requested

parse_ttl(ttl, now) == IF ttl = NeverTtl THEN None ELSE now + Duration[ttl]

\* What collect_all_blob_cids adds for one manifest of the chain.
SlipCollectFiles(cids, m) == cids \cup Files[m]
SlipCollectParent(cids, m) == cids \cup {m, Parent[m]} \cup Files[m]
Collect(cids, m) == cids \cup {m} \cup Files[m]

\* The quota check of create_project, over the ids it listed.
SlipUnderQuota(user, ids) ==
  Cardinality({p \in ids : owner[p] = user}) <= MaxProjects[user]
UnderQuota(user, ids) ==
  Cardinality({p \in ids : owner[p] = user}) < MaxProjects[user]

\* A record exists and the request is signed with its key.
SlipVerified(id, key) == projects[id] # None
Verified(id, key) ==
  /\ projects[id] # None
  /\ projects[id].write_pubkey = key

\* The fields an update replaces in the record it has just read.
SlipModify(op, stored, new) == new
SlipClear(op, stored, new) ==
  CASE op = "update_root" ->
         [stored EXCEPT !.root_cid = new.root_cid, !.blob_cids = new.blob_cids]
    [] op = "update_name" ->
         [stored EXCEPT !.name = new.name, !.root_cid = new.root_cid,
                        !.blob_cids = new.blob_cids]
    [] op = "extend_ttl" -> [stored EXCEPT !.expires_at = new.expires_at]
Modify(op, stored, new) ==
  CASE op = "update_root" ->
         [stored EXCEPT !.root_cid = new.root_cid, !.blob_cids = new.blob_cids]
    [] op = "update_name" -> [stored EXCEPT !.name = new.name]
    [] op = "extend_ttl" -> [stored EXCEPT !.expires_at = new.expires_at]

\* Request q moves on, or ends.
Goto(q, r) == req' = [req EXCEPT ![q] = r]
Finish(q) == Goto(q, IdleReq)

At(q, pc) == req[q].pc = pc
Arrives(q, op) == op \in Ops /\ At(q, "idle")

\* A record is written: the sweep's view of it, if there is one, is stale.
Write(id, r) ==
  /\ projects' = [projects EXCEPT ![id] = r]
  /\ touched' = touched \cup {id}

-----------------------------------------------------------------------------
(* create_project.                                                         *)

Limited(caller) == caller # None /\ MaxProjects[caller] > 0

\* The expiry caller c gets for the TTL it asks for.
ExpiryFor(c, ttl) == parse_ttl(clamp_ttl(ttl, MaxTtl[c]), clock)

NewRecord(key, c, ttl, name) ==
  [EmptyRecord EXCEPT !.write_pubkey = key,
                      !.expires_at = ExpiryFor(c, ttl), !.name = name]

CreateBegin(q) ==
  /\ Arrives(q, "create")
  /\ \E key \in Key, c \in Caller, ttl \in Ttl, name \in Name \cup {None} :
       Goto(q, [IdleReq EXCEPT !.op = "create",
                  !.pc = IF Limited(c) THEN "list" ELSE "create",
                  !.key = key, !.caller = c,
                  !.rec = NewRecord(key, c, ttl, name)])
  /\ UNCHANGED <<stores, clock, reaper, bounds, history>>

CreateList(q) ==
  /\ At(q, "list")
  /\ Goto(q, [req[q] EXCEPT !.pc = "count", !.seen = Stored])
  /\ UNCHANGED <<stores, clock, reaper, bounds, history>>

CreateCount(q) ==
  /\ At(q, "count")
  /\ IF UnderQuota(req[q].caller, req[q].seen)
     THEN Goto(q, [req[q] EXCEPT !.pc = "create", !.seen = {}])
     ELSE Finish(q)
  /\ UNCHANGED <<stores, clock, reaper, bounds, history>>

\* ProjectStore::create draws an id that was never used and writes the record.
CreateWrite(q) ==
  /\ At(q, "create")
  /\ \E p \in Project :
       /\ creator[p] = None
       /\ creator' = [creator EXCEPT ![p] = req[q].key]
       /\ Write(p, req[q].rec)
       /\ IF req[q].caller = None
          THEN Finish(q)
          ELSE Goto(q, [req[q] EXCEPT !.pc = "owner", !.id = p])
  /\ UNCHANGED <<blobs, kv, owner, clock, reaper, bounds, unread>>

\* INSERT OR IGNORE INTO project_owners.
SetProjectOwner(q) ==
  /\ At(q, "owner")
  /\ owner' = IF owner[req[q].id] = None
              THEN [owner EXCEPT ![req[q].id] = req[q].caller]
              ELSE owner
  /\ Finish(q)
  /\ UNCHANGED <<projects, blobs, kv, clock, reaper, bounds, history>>

-----------------------------------------------------------------------------
(* update_root: verify, read the manifest, walk its parents, then store.   *)

UpdateRootFetch(q) ==
  /\ Arrives(q, "update_root")
  /\ \E id \in Stored, key \in Key, caller \in Caller, cid \in Cid :
       /\ Verified(id, key)
       /\ Goto(q, [IdleReq EXCEPT !.op = "update_root", !.pc = "manifest",
                     !.id = id, !.key = key, !.caller = caller, !.next = cid])
  /\ UNCHANGED <<stores, clock, reaper, bounds, history>>

\* The manifest blob of CID c is in the store and parses.
Readable(c) == c \in blobs /\ c \in Manifest

\* After manifest c was read into cids: on to its parent, or to the record.
Walked(r, cids, c) ==
  [r EXCEPT !.rec = [r.rec EXCEPT !.blob_cids = cids], !.next = Parent[c],
            !.pc = IF Parent[c] = None THEN "get" ELSE "walk"]

UpdateRootManifest(q) ==
  LET root == req[q].next IN
  /\ At(q, "manifest")
  /\ IF Readable(root) /\ Size[root] <= MaxSize[req[q].caller]
     THEN Goto(q, Walked([req[q] EXCEPT !.rec.root_cid = root],
                         Collect({}, root), root))
     ELSE Finish(q)
  /\ UNCHANGED <<stores, clock, reaper, bounds, history>>

UpdateRootWalk(q) ==
  LET parent == req[q].next IN
  /\ At(q, "walk")
  /\ IF Readable(parent)
     THEN Goto(q, Walked(req[q], Collect(req[q].rec.blob_cids, parent), parent))
     ELSE Finish(q)
  /\ UNCHANGED <<stores, clock, reaper, bounds, history>>

-----------------------------------------------------------------------------
(* update_name and extend_ttl: verify, then store.                         *)

UpdateNameFetch(q) ==
  /\ Arrives(q, "update_name")
  /\ \E id \in Stored, key \in Key, name \in Name \cup {None} :
       /\ Verified(id, key)
       /\ Goto(q, [IdleReq EXCEPT !.op = "update_name", !.pc = "get",
                     !.id = id, !.key = key, !.rec = [EmptyRecord EXCEPT !.name = name]])
  /\ UNCHANGED <<stores, clock, reaper, bounds, history>>

ExtendTtlFetch(q) ==
  /\ Arrives(q, "extend_ttl")
  /\ \E id \in Stored, key \in Key, c \in Caller, ttl \in Ttl :
       /\ Verified(id, key)
       /\ Goto(q, [IdleReq EXCEPT !.op = "extend_ttl", !.pc = "get",
                     !.id = id, !.key = key, !.caller = c,
                     !.rec = [EmptyRecord EXCEPT
                               !.expires_at = ExpiryFor(c, ttl)]])
  /\ UNCHANGED <<stores, clock, reaper, bounds, history>>

\* ProjectStore::update_root, update_name and update_expiry: read the record
\* again and replace the fields in the copy ...
UpdateGet(q) ==
  LET r == req[q] IN
  /\ At(q, "get")
  /\ IF projects[r.id] = None
     THEN Finish(q)
     ELSE Goto(q, [r EXCEPT !.pc = "put",
                     !.rec = Modify(r.op, projects[r.id], r.rec)])
  /\ UNCHANGED <<stores, clock, reaper, bounds, history>>

\* ... then write the whole copy back, whatever the store holds by now.
UpdatePut(q) ==
  /\ At(q, "put")
  /\ Write(req[q].id, req[q].rec)
  /\ Finish(q)
  /\ UNCHANGED <<blobs, kv, owner, clock, reaper, bounds, creator, unread>>

-----------------------------------------------------------------------------
(* delete_project: verify, ProjectStore::delete, KvStore::delete_all.      *)

DeleteFetch(q) ==
  /\ Arrives(q, "delete")
  /\ \E id \in Stored, key \in Key :
       /\ Verified(id, key)
       /\ Goto(q, [IdleReq EXCEPT !.op = "delete", !.pc = "delete_get",
                     !.id = id, !.key = key])
  /\ UNCHANGED <<stores, clock, reaper, bounds, history>>

DeleteGet(q) ==
  /\ At(q, "delete_get")
  /\ IF projects[req[q].id] = None
     THEN Finish(q)
     ELSE Goto(q, [req[q] EXCEPT !.pc = "remove",
                          !.rec = projects[req[q].id]])
  /\ UNCHANGED <<stores, clock, reaper, bounds, history>>

\* fs::remove_file fails on a missing file; DeleteObject does not.
RemoveFails(id) == Backend = "fs" /\ projects[id] = None

DeleteRemove(q) ==
  /\ At(q, "remove")
  /\ projects' = [projects EXCEPT ![req[q].id] = None]
  /\ IF RemoveFails(req[q].id)
     THEN Finish(q)
     ELSE Goto(q, [req[q] EXCEPT !.pc = "delete_all"])
  /\ UNCHANGED <<blobs, kv, owner, clock, reaper, bounds, history>>

DeleteKv(q) ==
  /\ At(q, "delete_all")
  /\ kv' = kv \ {req[q].id}
  /\ Finish(q)
  /\ UNCHANGED <<projects, blobs, owner, clock, reaper, bounds, history>>

-----------------------------------------------------------------------------
(* upload_blob (probe, then write) and put_value (check the project, then  *)
(* write; a bad token or a full store is a refusal).                       *)

UploadProbe(q) ==
  /\ Arrives(q, "upload")
  /\ \E c \in Cid \ blobs :
       Goto(q, [IdleReq EXCEPT !.op = "upload", !.pc = "blob_put", !.next = c])
  /\ UNCHANGED <<stores, clock, reaper, bounds, history>>

UploadPut(q) ==
  /\ At(q, "blob_put")
  /\ blobs' = blobs \cup {req[q].next}
  /\ Finish(q)
  /\ UNCHANGED <<projects, kv, owner, clock, reaper, bounds, history>>

PutValueFetch(q) ==
  /\ Arrives(q, "put_value")
  /\ \E id \in Stored :
       Goto(q, [IdleReq EXCEPT !.op = "put_value", !.pc = "kv_put", !.id = id])
  /\ UNCHANGED <<stores, clock, reaper, bounds, history>>

PutValueWrite(q) ==
  /\ At(q, "kv_put")
  /\ kv' = kv \cup {req[q].id}
  /\ Finish(q)
  /\ UNCHANGED <<projects, blobs, owner, clock, reaper, bounds, history>>

\* A storage call fails, or the client hangs up and the handler is dropped.
RequestFails(q) ==
  /\ ~ At(q, "idle")
  /\ faults < MaxFaults
  /\ faults' = faults + 1
  /\ Finish(q)
  /\ UNCHANGED <<stores, clock, reaper, crashes, history>>

-----------------------------------------------------------------------------
(* The reaper's sweep.                                                     *)

\* List every project; note the time once.
ReaperList ==
  /\ reaper.pc = "sleep"
  /\ Stored # {}
  /\ reaper' = [Asleep EXCEPT !.pc = "scan", !.todo = Stored, !.now = clock]
  /\ touched' = {}
  /\ unread' = {}
  /\ UNCHANGED <<stores, clock, req, bounds, creator>>

\* First pass, one project: expired, or live with these blobs.  A project
\* that is gone, or that cannot be read, counts as neither.
SlipPartition(s, p, r) ==
  IF r = None THEN s
  ELSE IF IsExpired(r, s.now) THEN [s EXCEPT !.expired = @ \cup {p}]
  ELSE [s EXCEPT !.live = @ \cup {r.root_cid}]
Partition(s, p, r) ==
  IF r = None THEN s
  ELSE IF IsExpired(r, s.now) THEN [s EXCEPT !.expired = @ \cup {p}]
  ELSE [s EXCEPT !.live = @ \cup r.blob_cids]

ReaperRead(p) ==
  /\ reaper.pc = "scan"
  /\ p \in reaper.todo
  /\ reaper' = Partition([reaper EXCEPT !.todo = @ \ {p}], p, projects[p])
  /\ UNCHANGED <<stores, clock, req, bounds, history>>

ReaperReadFails(p) ==
  /\ reaper.pc = "scan"
  /\ p \in reaper.todo
  /\ faults < MaxFaults
  /\ faults' = faults + 1
  /\ reaper' = [reaper EXCEPT !.todo = @ \ {p}]
  /\ unread' = unread \cup {p}
  /\ UNCHANGED <<stores, clock, req, crashes, creator, touched>>

\* The blobs of the deleted record that no live project listed.
SlipDoomed(r, live) == r.blob_cids \ (live \cup {r.root_cid})
Doomed(r, live) == r.blob_cids \ live

\* Second pass: projects.delete reads the record and keeps what it read, of
\* which the doomed blobs are to go ...
ReaperDeleteGet(p) ==
  /\ reaper.pc = "scan"
  /\ reaper.todo = {}
  /\ p \in reaper.expired
  /\ reaper' =
       IF projects[p] = None
       THEN [reaper EXCEPT !.expired = @ \ {p}]
       ELSE [reaper EXCEPT !.pc = "remove", !.cur = p, !.expired = @ \ {p},
                           !.cids = Doomed(projects[p], reaper.live)]
  /\ UNCHANGED <<stores, clock, req, bounds, history>>

\* ... and removes the record without looking at it again.
ReaperRemove ==
  /\ reaper.pc = "remove"
  /\ projects' = [projects EXCEPT ![reaper.cur] = None]
  /\ reaper' = IF RemoveFails(reaper.cur)
               THEN [reaper EXCEPT !.pc = "scan", !.cur = None, !.cids = {}]
               ELSE [reaper EXCEPT !.pc = "blobs"]
  /\ UNCHANGED <<blobs, kv, owner, clock, req, bounds, history>>

ReaperBlob(c) ==
  /\ reaper.pc = "blobs"
  /\ c \in reaper.cids
  /\ blobs' = blobs \ {c}
  /\ reaper' = [reaper EXCEPT !.cids = @ \ {c}]
  /\ UNCHANGED <<projects, kv, owner, clock, req, bounds, history>>

ReaperKv ==
  /\ reaper.pc = "blobs"
  /\ reaper.cids = {}
  /\ kv' = kv \ {reaper.cur}
  /\ reaper' = [reaper EXCEPT !.pc = "scan", !.cur = None]
  /\ UNCHANGED <<projects, blobs, owner, clock, req, bounds, history>>

\* A failed call of the second pass is logged and the sweep goes on: to the
\* next project, the next blob, or past delete_all.
ReaperCallFails ==
  /\ faults < MaxFaults
  /\ faults' = faults + 1
  /\ \/ /\ reaper.pc = "scan" /\ reaper.todo = {}
        /\ \E p \in reaper.expired :
             reaper' = [reaper EXCEPT !.expired = @ \ {p}]
     \/ /\ reaper.pc = "remove"
        /\ reaper' = [reaper EXCEPT !.pc = "scan", !.cur = None, !.cids = {}]
     \/ /\ reaper.pc = "blobs"
        /\ \E c \in reaper.cids : reaper' = [reaper EXCEPT !.cids = @ \ {c}]
     \/ /\ reaper.pc = "blobs" /\ reaper.cids = {}
        /\ reaper' = [reaper EXCEPT !.pc = "scan", !.cur = None]
  /\ UNCHANGED <<stores, clock, req, crashes, history>>

ReaperDone ==
  /\ reaper.pc = "scan"
  /\ reaper.todo = {}
  /\ reaper.expired = {}
  /\ reaper' = Asleep
  /\ UNCHANGED <<stores, clock, req, bounds, history>>

-----------------------------------------------------------------------------
(* Time and restarts.                                                      *)

Tick ==
  /\ clock < MaxClock
  /\ clock' = clock + 1
  /\ UNCHANGED <<stores, req, reaper, bounds, history>>

\* The process dies and starts again: what was in memory is gone.
Crash ==
  /\ crashes < MaxCrashes
  /\ crashes' = crashes + 1
  /\ req' = [q \in Req |-> IdleReq]
  /\ reaper' = Asleep
  /\ UNCHANGED <<stores, clock, faults, history>>

-----------------------------------------------------------------------------

Arrive(q) ==
  \/ CreateBegin(q) \/ UpdateRootFetch(q) \/ UpdateNameFetch(q)
  \/ ExtendTtlFetch(q) \/ DeleteFetch(q) \/ UploadProbe(q) \/ PutValueFetch(q)

Handle(q) ==
  \/ CreateList(q) \/ CreateCount(q) \/ CreateWrite(q) \/ SetProjectOwner(q)
  \/ UpdateRootManifest(q) \/ UpdateRootWalk(q)
  \/ UpdateGet(q) \/ UpdatePut(q)
  \/ DeleteGet(q) \/ DeleteRemove(q) \/ DeleteKv(q)
  \/ UploadPut(q) \/ PutValueWrite(q)

Reap ==
  \/ ReaperList
  \/ \E p \in Project : ReaperRead(p) \/ ReaperDeleteGet(p)
  \/ ReaperRemove
  \/ \E c \in Cid : ReaperBlob(c)
  \/ ReaperKv
  \/ ReaperDone

Next ==
  \/ \E q \in Req : Arrive(q) \/ Handle(q) \/ RequestFails(q)
  \/ Reap
  \/ \E p \in Project : ReaperReadFails(p)
  \/ ReaperCallFails
  \/ Tick
  \/ Crash

Spec == Init /\ [][Next]_vars

\* The runtime keeps polling tasks that are ready: a handler that arrived and
\* the sweep loop go on.  Clients, time and failures owe nothing.
Fairness == WF_vars(Reap) /\ \A q \in Req : WF_vars(Handle(q))
FairSpec == Spec /\ Fairness

-----------------------------------------------------------------------------
(* Properties.                                                             *)

\* The record's blob_cids are the blobs of its root and of all the versions
\* before it (collect_all_blob_cids), no fewer and no more, although puts of
\* stale copies overwrite one another: fewer, and the reaper frees blobs that
\* other projects of that history need or leaves its own behind; more, and
\* blobs of a root that was replaced are held for as long as the project is.
Covered(r) ==
  IF r.root_cid = None THEN r.blob_cids = {}
  ELSE r.root_cid \in Manifest /\ r.blob_cids = Closure(r.root_cid)

RootCoverage == \A p \in Stored : Covered(projects[p])

\* Why it holds: a handler on its way to a put carries a covered root, or what
\* is missing is what the manifest it reads next leads to.
CoveredLocals(r) ==
  /\ r.pc = "walk" =>
       /\ r.rec.root_cid \in Manifest
       /\ r.rec.blob_cids \cup Closure(r.next) = Closure(r.rec.root_cid)
  /\ r.pc \in {"list", "count", "create", "get", "put"} => Covered(r.rec)

CoverageInv == RootCoverage /\ \A q \in Req : CoveredLocals(req[q])

\* A project keeps the key it was created with, through updates, removal and
\* a put that brings a removed record back (the key is checked on a copy read
\* earlier than the one that is written).
KeyIsCreators == \A p \in Stored : projects[p].write_pubkey = creator[p]

\* A stored record changes or goes only by a request its creator's key
\* signed for that project, or by the reaper.
AuthorisedWrites ==
  [][\A p \in Stored : projects'[p] # projects[p] =>
       \/ reaper.pc = "remove" /\ reaper.cur = p /\ reaper'.pc # "remove"
       \/ \E q \in Req : /\ req[q].id = p /\ req[q].key = creator[p]
                         /\ req'[q] # req[q]]_vars

\* No stored project outlives the longest TTL some tier allows, counted from
\* now: clamp_ttl bounds every expiry, also one a stale put restores.
BoundedExpiry(e) ==
  \E c \in Caller :
    MaxTtl[c] = NeverTtl \/ (e # None /\ e <= clock + Duration[MaxTtl[c]])
ExpiryBound == \A p \in Stored : BoundedExpiry(projects[p].expires_at)

\* Why these hold: what a handler carries to a put has the key of the request,
\* which is the creator's, and a bounded expiry.
CarriedOK(r) ==
  /\ r.pc \in {"list", "count", "create", "put"} =>
       r.rec.write_pubkey = r.key /\ BoundedExpiry(r.rec.expires_at)
  /\ r.pc \in {"manifest", "walk", "get", "put", "delete_get", "remove",
                "delete_all"} =>
       r.key \in Key /\ creator[r.id] = r.key
  /\ r.pc = "get" /\ r.op = "extend_ttl" => BoundedExpiry(r.rec.expires_at)

WriteInv ==
  /\ \A p \in Stored : creator[p] \in Key
  /\ KeyIsCreators
  /\ ExpiryBound
  /\ \A q \in Req : CarriedOK(req[q])

\* Past its deadline, as the record stands now.
Overdue(p) == projects[p].expires_at # None /\ projects[p].expires_at <= clock
Reaping(p) ==
  reaper.pc = "remove" /\ reaper.cur = p /\ reaper'.pc = "blobs"

\* The reaper removes no project before its deadline, unless the record was
\* written after the sweep listed it.
ReapsOnlyOverdue ==
  [][\A p \in Stored \ touched : Reaping(p) => Overdue(p)]_vars

\* The reaper deletes no blob in the blob_cids of a project that is before
\* its deadline, unless that record was written after the sweep listed it or
\* the sweep failed to read it.
LiveBlobsKept(exempt) ==
  \A c \in blobs \ blobs' : \A p \in Stored \ exempt :
    c \in projects[p].blob_cids => Overdue(p)
KeepsBlobsOfLive == [][LiveBlobsKept(touched \cup unread)]_vars

\* Why these hold: what the sweep noted in its first pass still means, for
\* the records as they stand in the second, that ...
ExpiredAtStart(p) == IsExpired(projects[p], reaper.now)

\* ... what it took for expired is expired, unless written since,
ExpiredIsExpired ==
  \A p \in Stored \ touched :
    p \in reaper.expired \/ (reaper.pc = "remove" /\ reaper.cur = p)
      => ExpiredAtStart(p)

\* ... what it has read is expired or has its blobs in the live set, unless
\* written since or not readable,
ReadIsAccounted ==
  reaper.pc # "sleep" =>
    \A p \in Stored \ (reaper.todo \cup touched \cup unread) :
      ExpiredAtStart(p) \/ projects[p].blob_cids \subseteq reaper.live

\* ... and that all was read, and nothing in the live set is to be deleted.
SecondPassSpares ==
  reaper.pc \in {"remove", "blobs"} =>
    reaper.todo = {} /\ reaper.cids \cap reaper.live = {}

SweepInv ==
  /\ reaper.now <= clock
  /\ ExpiredIsExpired
  /\ ReadIsAccounted
  /\ SecondPassSpares

\* A project due when the sweep began, as nobody has written it since, ...
Due(p) == p \in Stored \ touched /\ ExpiredAtStart(p)

\* ... and one the sweep has yet to come to, in either pass.
Pending(p) ==
  /\ reaper.pc # "sleep"
  /\ \/ p \in reaper.todo \cup reaper.expired
     \/ reaper.pc = "remove" /\ reaper.cur = p

\* While no call has failed, the sweep drops no project that is due: it is
\* still to be read, noted as expired, or about to be removed.
NoneDropped ==
  faults = 0 /\ reaper.pc # "sleep" => \A p \in Project : Due(p) => Pending(p)

\* A sweep in which no call failed ends with no project left that was due
\* when it began, unless its record was written meanwhile.
SweepIsComplete ==
  [][faults = 0 /\ crashes' = crashes /\ reaper.pc # "sleep" /\ reaper'.pc = "sleep"
       => \A p \in Project : ~ Due(p)]_vars

Owned(u) == {p \in Stored : owner[p] = u}

\* A user owns at most max_projects, and one more for each other request that
\* was in flight when it was counted: creations that overtake one another
\* between the check and the owner's row, and stale puts that bring a removed
\* project back.  However many follow one another, the excess does not grow.
QuotaOverrunBounded ==
  \A u \in User : MaxProjects[u] > 0 =>
    Cardinality(Owned(u)) <= MaxProjects[u] + Cardinality(Req) - 1

\* Why: a request counts from the moment it listed too few projects, as the
\* project it may still create, ...
Admitted(u) ==
  {q \in Req :
     /\ req[q].caller = u
     /\ At(q, "create") \/ (At(q, "count") /\ UnderQuota(u, req[q].seen))}

\* ... and a project of u that is not stored, or has no owner yet, counts as
\* long as some request may store it or make it u's.
ComesBy(q, u) ==
  \/ At(q, "put") /\ owner[req[q].id] = u
  \/ At(q, "owner") /\ req[q].caller = u
Claimed(u) == Owned(u) \cup {req[q].id : q \in {x \in Req : ComesBy(x, u)}}

QuotaInv ==
  /\ \A p \in Project : creator[p] = None => owner[p] = None
  /\ \A q \in Req : At(q, "owner") => creator[req[q].id] # None
  /\ \A u \in User : MaxProjects[u] > 0 =>
       Cardinality(Claimed(u)) + Cardinality(Admitted(u))
         <= MaxProjects[u] + Cardinality(Req) - 1

\* A project past its deadline is removed in the end, unless it is given a
\* new deadline, whatever faults and restarts happen.
OverdueIsReaped ==
  \A p \in Project :
    (p \in Stored /\ Overdue(p)) ~> (p \notin Stored \/ ~ Overdue(p))

\* Some project that is before its deadline needs blob c.
HeldByLive(c) ==
  \E p \in Stored : c \in projects[p].blob_cids /\ ~ Overdue(p)

\* The sweep takes a project's store values and blobs with it, but for the
\* blobs a live project shares, unless it is given a new deadline, a call
\* fails or the process restarts (once the record is gone, no later sweep
\* knows of its blobs).
OverdueLeavesNothing ==
  \A p \in Project, c \in Cid :
    (p \in Stored /\ Overdue(p) /\ c \in projects[p].blob_cids)
      ~> \/ p \notin kv /\ (c \notin blobs \/ HeldByLive(c))
         \/ p \in Stored /\ ~ Overdue(p)
         \/ faults + crashes > 0

-----------------------------------------------------------------------------
(* What the repository says of the program and the code does not keep.     *)

\* The reaper deletes no blob of a live project (comment of sweep), whoever
\* writes meanwhile.
KeepsBlobsDespiteWrites == [][LiveBlobsKept(unread)]_vars

=============================================================================
