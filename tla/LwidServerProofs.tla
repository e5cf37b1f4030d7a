-------------------------- MODULE LwidServerProofs --------------------------
(***************************************************************************)
(* Proofs about LwidServer, for every instance of its constants.           *)
(***************************************************************************)
EXTENDS LwidServer, TLAPS

-----------------------------------------------------------------------------
(* Types.                                                                  *)

\* The locals a handler starts from are well typed.
LEMMA IdleType == IdleReq \in Request /\ LocalsOK(IdleReq)
BY DEF IdleReq, Request, LocalsOK, RequestPc, AllOps, Caller, ProjectRecord,
       EmptyRecord

\* A handler that moves on to well-typed locals leaves all locals well typed.
LEMMA GotoType ==
  ASSUME TypeOK, NEW q \in Req, NEW r \in Request, LocalsOK(r), Goto(q, r)
  PROVE  /\ req' \in [Req -> Request]
         /\ \A x \in Req : LocalsOK(req'[x])
BY DEF TypeOK, Goto

LEMMA FinishType ==
  ASSUME TypeOK, NEW q \in Req, Finish(q)
  PROVE  /\ req' \in [Req -> Request]
         /\ \A x \in Req : LocalsOK(req'[x])
BY IdleType, GotoType DEF Finish

\* A clamped TTL is a TTL choice, and its expiry a time or None.
LEMMA ExpiryType ==
  ASSUME NEW c \in Caller, NEW ttl \in Ttl, TypeOK
  PROVE  ExpiryFor(c, ttl) \in Nat \cup {None}
<1>1. clamp_ttl(ttl, MaxTtl[c]) \in Ttl
  BY PolicyType DEF clamp_ttl
<1>2. ASSUME NEW t \in Ttl, t # NeverTtl PROVE Duration[t] \in Nat
  BY <1>2, DurationType DEF Ttl, NeverTtl
<1> QED BY <1>1, <1>2, InstanceType DEF ExpiryFor, parse_ttl, TypeOK

LEMMA CreateBeginType ==
  ASSUME TypeOK, NEW q \in Req, CreateBegin(q)
  PROVE  TypeOK'
<1>1. PICK key \in Key, c \in Caller, ttl \in Ttl, name \in Name \cup {None} :
       Goto(q, [IdleReq EXCEPT !.op = "create",
                  !.pc = IF Limited(c) THEN "list" ELSE "create",
                  !.key = key, !.caller = c,
                  !.rec = NewRecord(key, c, ttl, name)])
  BY DEF CreateBegin
<1> DEFINE r == [IdleReq EXCEPT !.op = "create",
                  !.pc = IF Limited(c) THEN "list" ELSE "create",
                  !.key = key, !.caller = c,
                  !.rec = NewRecord(key, c, ttl, name)]
<1>2. NewRecord(key, c, ttl, name) \in ProjectRecord
  BY ExpiryType DEF ProjectRecord, EmptyRecord, NewRecord
<1>3. r \in Request /\ LocalsOK(r)
  BY <1>2 DEF Request, IdleReq, RequestPc, AllOps, LocalsOK, Limited, Caller
<1>4. req' \in [Req -> Request] /\ \A x \in Req : LocalsOK(req'[x])
  BY <1>1, <1>3, GotoType
<1> QED BY <1>4 DEF TypeOK, CreateBegin, stores, bounds, history

LEMMA CreateListType ==
  ASSUME TypeOK, NEW q \in Req, CreateList(q)
  PROVE  TypeOK'
<1> DEFINE r == [req[q] EXCEPT !.pc = "count", !.seen = Stored]
<1>1. r \in Request /\ LocalsOK(r)
  BY DEF TypeOK, CreateList, At, Request, LocalsOK, RequestPc, Stored
<1>2. req' \in [Req -> Request] /\ \A x \in Req : LocalsOK(req'[x])
  BY <1>1, GotoType DEF CreateList
<1> QED BY <1>2 DEF TypeOK, CreateList, stores, bounds, history

LEMMA CreateCountType ==
  ASSUME TypeOK, NEW q \in Req, CreateCount(q)
  PROVE  TypeOK'
<1> DEFINE r == [req[q] EXCEPT !.pc = "create", !.seen = {}]
<1>1. r \in Request /\ LocalsOK(r)
  BY DEF TypeOK, CreateCount, At, Request, LocalsOK, RequestPc
<1>2. req' \in [Req -> Request] /\ \A x \in Req : LocalsOK(req'[x])
  BY <1>1, GotoType, FinishType DEF CreateCount
<1> QED BY <1>2 DEF TypeOK, CreateCount, stores, bounds, history

LEMMA CreateWriteType ==
  ASSUME TypeOK, NEW q \in Req, CreateWrite(q)
  PROVE  TypeOK'
<1>1. PICK p \in Project :
       /\ creator[p] = None
       /\ creator' = [creator EXCEPT ![p] = req[q].key]
       /\ Write(p, req[q].rec)
       /\ IF req[q].caller = None
          THEN Finish(q)
          ELSE Goto(q, [req[q] EXCEPT !.pc = "owner", !.id = p])
  BY DEF CreateWrite
<1> DEFINE r == [req[q] EXCEPT !.pc = "owner", !.id = p]
<1>2. req[q].caller # None => r \in Request /\ LocalsOK(r)
  <2>1. req[q] \in Request
    BY DEF TypeOK
  <2>2. r \in Request /\ r.pc = "owner" /\ r.id = p
    BY <2>1 DEF Request, RequestPc
  <2>3. req[q].caller # None => r.caller \in User
    BY <2>1 DEF Request, Caller
  <2> QED BY <2>2, <2>3 DEF LocalsOK
<1>3. req' \in [Req -> Request] /\ \A x \in Req : LocalsOK(req'[x])
  BY <1>1, <1>2, GotoType, FinishType
<1>4. req[q].rec \in ProjectRecord /\ req[q].key \in Key
  BY DEF TypeOK, Request, CreateWrite, At, LocalsOK
<1>5. /\ projects' \in [Project -> ProjectRecord \cup {None}]
      /\ creator' \in [Project -> Key \cup {None}]
      /\ touched' \subseteq Project
  BY <1>1, <1>4 DEF TypeOK, Write
<1> QED BY <1>3, <1>5 DEF TypeOK, CreateWrite, bounds

LEMMA SetProjectOwnerType ==
  ASSUME TypeOK, NEW q \in Req, SetProjectOwner(q)
  PROVE  TypeOK'
<1>1. req' \in [Req -> Request] /\ \A x \in Req : LocalsOK(req'[x])
  BY FinishType DEF SetProjectOwner
<1>2. req[q].id \in Project /\ req[q].caller \in User
  BY DEF TypeOK, SetProjectOwner, At, LocalsOK
<1>3. owner' \in [Project -> User \cup {None}]
  BY <1>2 DEF TypeOK, SetProjectOwner
<1> QED BY <1>1, <1>3 DEF TypeOK, SetProjectOwner, bounds, history

LEMMA UpdateRootFetchType ==
  ASSUME TypeOK, NEW q \in Req, UpdateRootFetch(q)
  PROVE  TypeOK'
<1>1. PICK id \in Stored, key \in Key, caller \in Caller, cid \in Cid :
       Goto(q, [IdleReq EXCEPT !.op = "update_root", !.pc = "manifest",
                     !.id = id, !.key = key, !.caller = caller, !.next = cid])
  BY DEF UpdateRootFetch
<1> DEFINE r == [IdleReq EXCEPT !.op = "update_root", !.pc = "manifest",
                     !.id = id, !.key = key, !.caller = caller, !.next = cid]
<1>2. r \in Request /\ LocalsOK(r)
  BY IdleType DEF Request, IdleReq, RequestPc, AllOps, LocalsOK, Stored
<1>3. req' \in [Req -> Request] /\ \A x \in Req : LocalsOK(req'[x])
  BY <1>1, <1>2, GotoType
<1> QED BY <1>3 DEF TypeOK, UpdateRootFetch, stores, bounds, history

\* Walking on from a readable manifest.
LEMMA WalkedType ==
  ASSUME NEW r \in Request, r.id \in Project, r.op = "update_root",
         NEW c \in Cid, Readable(c), NEW cids \in SUBSET Cid
  PROVE  LET w == Walked(r, Collect(cids, c), c) IN w \in Request /\ LocalsOK(w)
<1>1. Parent[c] \in Cid \cup {None} /\ Files[c] \subseteq Cid
  BY ContentsType DEF Readable
<1> DEFINE all == Collect(cids, c)
           rec == [r.rec EXCEPT !.blob_cids = all]
<1>2. rec \in ProjectRecord
  BY <1>1 DEF Collect, Request, ProjectRecord
<1> HIDE DEF all
<1>3. Walked(r, all, c) =
        [r EXCEPT !.rec = rec, !.next = Parent[c],
                  !.pc = IF Parent[c] = None THEN "get" ELSE "walk"]
  BY DEF Walked, Request, ProjectRecord
<1> HIDE DEF rec
<1> QED BY <1>1, <1>2, <1>3 DEF Request, RequestPc, LocalsOK, UpdateOps, all

LEMMA UpdateRootManifestType ==
  ASSUME TypeOK, NEW q \in Req, UpdateRootManifest(q)
  PROVE  TypeOK'
<1> DEFINE root == req[q].next
           r == [req[q] EXCEPT !.rec.root_cid = root]
<1>1. /\ req[q] \in Request /\ req[q].id \in Project /\ root \in Cid
      /\ req[q].op = "update_root"
  BY DEF TypeOK, UpdateRootManifest, At, LocalsOK
<1>2. r \in Request /\ r.id \in Project /\ r.op = "update_root"
  BY <1>1 DEF Request, ProjectRecord
<1>3. Readable(root) =>
        LET w == Walked(r, Collect({}, root), root)
        IN  w \in Request /\ LocalsOK(w)
  BY <1>1, <1>2, WalkedType
<1>4. req' \in [Req -> Request] /\ \A x \in Req : LocalsOK(req'[x])
  BY <1>3, GotoType, FinishType DEF UpdateRootManifest
<1> QED BY <1>4 DEF TypeOK, UpdateRootManifest, stores, bounds, history

LEMMA UpdateRootWalkType ==
  ASSUME TypeOK, NEW q \in Req, UpdateRootWalk(q)
  PROVE  TypeOK'
<1> DEFINE r == req[q]
           parent == r.next
<1>1. /\ r \in Request /\ r.id \in Project /\ parent \in Cid
      /\ r.op = "update_root"
      /\ r.rec.blob_cids \subseteq Cid
  BY DEF TypeOK, UpdateRootWalk, At, LocalsOK, Request, ProjectRecord
<1>2. Readable(parent) =>
        LET w == Walked(r, Collect(r.rec.blob_cids, parent), parent)
        IN  w \in Request /\ LocalsOK(w)
  BY <1>1, WalkedType
<1>3. req' \in [Req -> Request] /\ \A x \in Req : LocalsOK(req'[x])
  BY <1>2, GotoType, FinishType DEF UpdateRootWalk
<1> QED BY <1>3 DEF TypeOK, UpdateRootWalk, stores, bounds, history

LEMMA UpdateNameFetchType ==
  ASSUME TypeOK, NEW q \in Req, UpdateNameFetch(q)
  PROVE  TypeOK'
<1>1. PICK id \in Stored, key \in Key, name \in Name \cup {None} :
       Goto(q, [IdleReq EXCEPT !.op = "update_name", !.pc = "get",
                     !.id = id, !.key = key, !.rec = [EmptyRecord EXCEPT !.name = name]])
  BY DEF UpdateNameFetch
<1> DEFINE r == [IdleReq EXCEPT !.op = "update_name", !.pc = "get",
                     !.id = id, !.key = key, !.rec = [EmptyRecord EXCEPT !.name = name]]
<1>2. [EmptyRecord EXCEPT !.name = name] \in ProjectRecord
  BY DEF EmptyRecord, ProjectRecord
<1>3. r \in Request /\ LocalsOK(r)
  BY <1>2, IdleType DEF Request, IdleReq, RequestPc, AllOps, LocalsOK, Stored,
                        UpdateOps
<1>4. req' \in [Req -> Request] /\ \A x \in Req : LocalsOK(req'[x])
  BY <1>1, <1>3, GotoType
<1> QED BY <1>4 DEF TypeOK, UpdateNameFetch, stores, bounds, history

LEMMA ExtendTtlFetchType ==
  ASSUME TypeOK, NEW q \in Req, ExtendTtlFetch(q)
  PROVE  TypeOK'
<1>1. PICK id \in Stored, key \in Key, c \in Caller, ttl \in Ttl :
       Goto(q, [IdleReq EXCEPT !.op = "extend_ttl", !.pc = "get",
                     !.id = id, !.key = key, !.caller = c,
                     !.rec = [EmptyRecord EXCEPT
                               !.expires_at = ExpiryFor(c, ttl)]])
  BY DEF ExtendTtlFetch
<1> DEFINE r == [IdleReq EXCEPT !.op = "extend_ttl", !.pc = "get",
                     !.id = id, !.key = key, !.caller = c,
                     !.rec = [EmptyRecord EXCEPT
                               !.expires_at = ExpiryFor(c, ttl)]]
<1>2. [EmptyRecord EXCEPT !.expires_at = ExpiryFor(c, ttl)] \in ProjectRecord
  BY ExpiryType DEF EmptyRecord, ProjectRecord
<1>3. r \in Request /\ LocalsOK(r)
  BY <1>2, IdleType DEF Request, IdleReq, RequestPc, AllOps, LocalsOK, Stored,
                        UpdateOps
<1>4. req' \in [Req -> Request] /\ \A x \in Req : LocalsOK(req'[x])
  BY <1>1, <1>3, GotoType
<1> QED BY <1>4 DEF TypeOK, ExtendTtlFetch, stores, bounds, history

LEMMA DeleteFetchType ==
  ASSUME TypeOK, NEW q \in Req, DeleteFetch(q)
  PROVE  TypeOK'
<1>1. PICK id \in Stored, key \in Key :
       Goto(q, [IdleReq EXCEPT !.op = "delete", !.pc = "delete_get",
                     !.id = id, !.key = key])
  BY DEF DeleteFetch
<1> DEFINE r == [IdleReq EXCEPT !.op = "delete", !.pc = "delete_get",
                     !.id = id, !.key = key]
<1>2. r \in Request /\ LocalsOK(r)
  BY IdleType DEF Request, IdleReq, RequestPc, AllOps, LocalsOK, Stored,
                   ProjectRecord, UpdateOps
<1>3. req' \in [Req -> Request] /\ \A x \in Req : LocalsOK(req'[x])
  BY <1>1, <1>2, GotoType
<1> QED BY <1>3 DEF TypeOK, DeleteFetch, stores, bounds, history

LEMMA UploadProbeType ==
  ASSUME TypeOK, NEW q \in Req, UploadProbe(q)
  PROVE  TypeOK'
<1>1. PICK c \in Cid \ blobs :
       Goto(q, [IdleReq EXCEPT !.op = "upload", !.pc = "blob_put", !.next = c])
  BY DEF UploadProbe
<1> DEFINE r == [IdleReq EXCEPT !.op = "upload", !.pc = "blob_put", !.next = c]
<1>2. r \in Request /\ LocalsOK(r)
  BY IdleType DEF Request, IdleReq, RequestPc, AllOps, LocalsOK, Stored,
                   ProjectRecord, UpdateOps
<1>3. req' \in [Req -> Request] /\ \A x \in Req : LocalsOK(req'[x])
  BY <1>1, <1>2, GotoType
<1> QED BY <1>3 DEF TypeOK, UploadProbe, stores, bounds, history

LEMMA PutValueFetchType ==
  ASSUME TypeOK, NEW q \in Req, PutValueFetch(q)
  PROVE  TypeOK'
<1>1. PICK id \in Stored :
       Goto(q, [IdleReq EXCEPT !.op = "put_value", !.pc = "kv_put", !.id = id])
  BY DEF PutValueFetch
<1> DEFINE r == [IdleReq EXCEPT !.op = "put_value", !.pc = "kv_put", !.id = id]
<1>2. r \in Request /\ LocalsOK(r)
  BY IdleType DEF Request, IdleReq, RequestPc, AllOps, LocalsOK, Stored,
                   ProjectRecord, UpdateOps
<1>3. req' \in [Req -> Request] /\ \A x \in Req : LocalsOK(req'[x])
  BY <1>1, <1>2, GotoType
<1> QED BY <1>3 DEF TypeOK, PutValueFetch, stores, bounds, history

\* An update of a stored record yields a record.
LEMMA ModifyType ==
  ASSUME NEW op \in UpdateOps, NEW stored \in ProjectRecord,
         NEW new \in ProjectRecord
  PROVE  Modify(op, stored, new) \in ProjectRecord
<1>1. CASE op = "update_root"
  BY <1>1 DEF Modify, ProjectRecord
<1>2. CASE op = "update_name"
  BY <1>2 DEF Modify, ProjectRecord
<1>3. CASE op = "extend_ttl"
  BY <1>3 DEF Modify, ProjectRecord
<1> QED BY <1>1, <1>2, <1>3 DEF UpdateOps

LEMMA UpdateGetType ==
  ASSUME TypeOK, NEW q \in Req, UpdateGet(q)
  PROVE  TypeOK'
<1> DEFINE old == projects[req[q].id]
           rec == Modify(req[q].op, old, req[q].rec)
           r == [req[q] EXCEPT !.pc = "put", !.rec = rec]
<1>1. /\ req[q] \in Request /\ req[q].id \in Project
      /\ req[q].op \in UpdateOps /\ req[q].rec \in ProjectRecord
      /\ old \in ProjectRecord \cup {None}
  BY DEF TypeOK, UpdateGet, At, LocalsOK, Request
<1>2. old # None => rec \in ProjectRecord
  BY <1>1, ModifyType
<1> HIDE DEF rec
<1>3. old # None => r \in Request /\ LocalsOK(r)
  BY <1>1, <1>2 DEF Request, RequestPc, LocalsOK
<1>4. IF old = None THEN Finish(q) ELSE Goto(q, r)
  BY DEF UpdateGet, rec
<1>5. req' \in [Req -> Request] /\ \A x \in Req : LocalsOK(req'[x])
  BY <1>3, <1>4, GotoType, FinishType
<1> QED BY <1>5 DEF TypeOK, UpdateGet, stores, bounds, history

LEMMA UpdatePutType ==
  ASSUME TypeOK, NEW q \in Req, UpdatePut(q)
  PROVE  TypeOK'
<1>1. req' \in [Req -> Request] /\ \A x \in Req : LocalsOK(req'[x])
  BY FinishType DEF UpdatePut
<1>2. req[q].id \in Project /\ req[q].rec \in ProjectRecord
  BY DEF TypeOK, UpdatePut, At, LocalsOK, Request
<1>3. /\ projects' \in [Project -> ProjectRecord \cup {None}]
      /\ touched' \subseteq Project
  BY <1>2 DEF TypeOK, UpdatePut, Write
<1> QED BY <1>1, <1>3 DEF TypeOK, UpdatePut, bounds

LEMMA DeleteGetType ==
  ASSUME TypeOK, NEW q \in Req, DeleteGet(q)
  PROVE  TypeOK'
<1> DEFINE old == projects[req[q].id]
           r == [req[q] EXCEPT !.pc = "remove", !.rec = old]
<1>1. /\ req[q] \in Request /\ req[q].id \in Project
      /\ old \in ProjectRecord \cup {None}
  BY DEF TypeOK, DeleteGet, At, LocalsOK
<1>2. old # None => r \in Request /\ LocalsOK(r)
  BY <1>1 DEF Request, RequestPc, LocalsOK
<1>3. req' \in [Req -> Request] /\ \A x \in Req : LocalsOK(req'[x])
  BY <1>2, GotoType, FinishType DEF DeleteGet
<1> QED BY <1>3 DEF TypeOK, DeleteGet, stores, bounds, history

LEMMA DeleteRemoveType ==
  ASSUME TypeOK, NEW q \in Req, DeleteRemove(q)
  PROVE  TypeOK'
<1> DEFINE r == [req[q] EXCEPT !.pc = "delete_all"]
<1>1. r \in Request /\ LocalsOK(r)
  BY DEF TypeOK, DeleteRemove, At, LocalsOK, Request, RequestPc
<1>2. req' \in [Req -> Request] /\ \A x \in Req : LocalsOK(req'[x])
  BY <1>1, GotoType, FinishType DEF DeleteRemove
<1>3. projects' \in [Project -> ProjectRecord \cup {None}]
  BY DEF TypeOK, DeleteRemove
<1> QED BY <1>2, <1>3 DEF TypeOK, DeleteRemove, bounds, history

\* The calls that end a request and write no record.
LEMMA LastCallType ==
  ASSUME TypeOK, NEW q \in Req,
         DeleteKv(q) \/ UploadPut(q) \/ PutValueWrite(q) \/ RequestFails(q)
  PROVE  TypeOK'
<1>1. req' \in [Req -> Request] /\ \A x \in Req : LocalsOK(req'[x])
  BY FinishType DEF DeleteKv, UploadPut, PutValueWrite, RequestFails
<1>2. CASE DeleteKv(q)
  BY <1>1, <1>2 DEF TypeOK, DeleteKv, bounds, history
<1>3. CASE UploadPut(q)
  BY <1>1, <1>3 DEF TypeOK, UploadPut, bounds, history, At, LocalsOK
<1>4. CASE PutValueWrite(q)
  BY <1>1, <1>4 DEF TypeOK, PutValueWrite, bounds, history, At, LocalsOK
<1>5. CASE RequestFails(q)
  BY <1>1, <1>5, InstanceType DEF TypeOK, RequestFails, stores, history
<1> QED BY <1>2, <1>3, <1>4, <1>5

LEMMA AsleepType == Asleep \in Sweep
BY DEF Asleep, Sweep

LEMMA ReaperScanType ==
  ASSUME TypeOK, NEW p \in Project,
         ReaperRead(p) \/ ReaperReadFails(p) \/ ReaperDeleteGet(p)
  PROVE  TypeOK'
<1>1. projects[p] \in ProjectRecord \cup {None} /\ reaper \in Sweep
  BY DEF TypeOK
<1>2. CASE ReaperRead(p)
  <2>1. reaper' \in Sweep /\ reaper'.pc = "scan"
    BY <1>1, <1>2 DEF ReaperRead, Partition, Sweep, ProjectRecord
  <2> QED BY <1>2, <2>1 DEF TypeOK, ReaperRead, stores, bounds, history
<1>3. CASE ReaperReadFails(p)
  <2>1. reaper' \in Sweep /\ reaper'.pc = "scan"
    BY <1>1, <1>3 DEF ReaperReadFails, Sweep
  <2> QED BY <1>3, <2>1, InstanceType DEF TypeOK, ReaperReadFails, stores
<1>4. CASE ReaperDeleteGet(p)
  <2>1. reaper' \in Sweep /\ (reaper'.pc = "remove" => reaper'.cur \in Project)
                          /\ reaper'.pc # "blobs"
    BY <1>1, <1>4 DEF ReaperDeleteGet, Doomed, Sweep, ProjectRecord
  <2> QED BY <1>4, <2>1 DEF TypeOK, ReaperDeleteGet, stores, bounds, history
<1> QED BY <1>2, <1>3, <1>4

LEMMA ReaperDeleteType ==
  ASSUME TypeOK,
         ReaperRemove \/ (\E c \in Cid : ReaperBlob(c)) \/ ReaperKv
  PROVE  TypeOK'
<1>1. reaper \in Sweep
  BY DEF TypeOK
<1>2. CASE ReaperRemove
  <2>1. reaper' \in Sweep /\ (reaper'.pc = "blobs" => reaper'.cur \in Project)
                          /\ reaper'.pc # "remove"
    BY <1>1, <1>2 DEF TypeOK, ReaperRemove, Sweep
  <2>2. projects' \in [Project -> ProjectRecord \cup {None}]
    BY <1>2 DEF TypeOK, ReaperRemove
  <2> QED BY <1>2, <2>1, <2>2 DEF TypeOK, ReaperRemove, bounds, history
<1>3. CASE \E c \in Cid : ReaperBlob(c)
  <2>1. PICK c \in Cid : ReaperBlob(c)
    BY <1>3
  <2>2. reaper' \in Sweep /\ reaper'.cur = reaper.cur
    BY <1>1, <2>1 DEF ReaperBlob, Sweep
  <2> QED BY <2>1, <2>2 DEF TypeOK, ReaperBlob, bounds, history
<1>4. CASE ReaperKv
  <2>1. reaper' \in Sweep /\ reaper'.pc = "scan"
    BY <1>1, <1>4 DEF ReaperKv, Sweep
  <2> QED BY <1>4, <2>1 DEF TypeOK, ReaperKv, bounds, history
<1> QED BY <1>2, <1>3, <1>4

LEMMA ReaperCallFailsType ==
  ASSUME TypeOK, ReaperCallFails
  PROVE  TypeOK'
<1>1. reaper \in Sweep
  BY DEF TypeOK
<1>2. reaper' \in Sweep
  BY <1>1 DEF ReaperCallFails, Sweep
<1>3. reaper'.pc \in {"remove", "blobs"} => reaper'.cur \in Project
  BY <1>1 DEF ReaperCallFails, Sweep, TypeOK
<1> QED BY <1>2, <1>3, InstanceType DEF TypeOK, ReaperCallFails, stores, history

\* Listing, finishing a sweep, time and restarts.
LEMMA OtherType ==
  ASSUME TypeOK, ReaperList \/ ReaperDone \/ Tick \/ Crash
  PROVE  TypeOK'
<1>1. CASE ReaperList
  <2>1. reaper' \in Sweep /\ reaper'.pc = "scan"
    <3>1. Stored \subseteq Project /\ clock \in Nat
      BY InstanceType DEF Stored, TypeOK
    <3> QED BY <1>1, <3>1 DEF ReaperList, Sweep, Asleep
  <2> QED BY <1>1, <2>1 DEF TypeOK, ReaperList, stores, bounds
<1>2. CASE ReaperDone
  BY <1>2, AsleepType DEF TypeOK, ReaperDone, Asleep, stores, bounds, history
<1>3. CASE Tick
  BY <1>3, InstanceType DEF TypeOK, Tick, stores, bounds, history
<1>4. CASE Crash
  <2>1. req' \in [Req -> Request] /\ \A x \in Req : LocalsOK(req'[x])
    BY <1>4, IdleType DEF Crash
  <2>2. reaper' \in Sweep /\ reaper'.pc = "sleep"
    BY <1>4, AsleepType DEF Crash, Asleep
  <2> QED BY <1>4, <2>1, <2>2, InstanceType DEF TypeOK, Crash, stores, history
<1> QED BY <1>1, <1>2, <1>3, <1>4

\* Every variable keeps its type, and every handler and the sweep hold the
\* locals the code has set before the call they are at.
THEOREM TypeCorrect == Spec => []TypeOK
<1>1. Init => TypeOK
  BY IdleType, AsleepType, InstanceType DEF Init, TypeOK, Asleep
<1>2. TypeOK /\ [Next]_vars => TypeOK'
  <2> SUFFICES ASSUME TypeOK, [Next]_vars PROVE TypeOK'
    OBVIOUS
  <2>1. ASSUME NEW q \in Req, Arrive(q) PROVE TypeOK'
    BY <2>1, CreateBeginType, UpdateRootFetchType, UpdateNameFetchType,
       ExtendTtlFetchType, DeleteFetchType, UploadProbeType, PutValueFetchType
       DEF Arrive
  <2>2. ASSUME NEW q \in Req, Handle(q) PROVE TypeOK'
    BY <2>2, CreateListType, CreateCountType, CreateWriteType,
       SetProjectOwnerType, UpdateRootManifestType, UpdateRootWalkType,
       UpdateGetType, UpdatePutType, DeleteGetType, DeleteRemoveType,
       LastCallType DEF Handle
  <2>3. ASSUME NEW q \in Req, RequestFails(q) PROVE TypeOK'
    BY <2>3, LastCallType
  <2>4. CASE Reap \/ \E p \in Project : ReaperReadFails(p)
    BY <2>4, ReaperScanType, ReaperDeleteType, OtherType DEF Reap
  <2>5. CASE ReaperCallFails \/ Tick \/ Crash
    BY <2>5, ReaperCallFailsType, OtherType
  <2>6. CASE UNCHANGED vars
    BY <2>6 DEF TypeOK, vars, stores, bounds, history
  <2> QED BY <2>1, <2>2, <2>3, <2>4, <2>5, <2>6 DEF Next
<1> QED BY <1>1, <1>2, PTL DEF Spec

-----------------------------------------------------------------------------
(* Root coverage.                                                          *)

\* History(c) is itself closed under parents, and c is in it.
LEMMA HistoryClosed ==
  ASSUME NEW c \in Cid
  PROVE  c \in History(c) /\ ParentClosed(History(c))
<1>1. c \in History(c)
  BY DEF History
<1>2. ASSUME NEW m \in History(c) \cap Manifest, Parent[m] # None
      PROVE  Parent[m] \in History(c)
  <2>1. Parent[m] \in Cid
    BY <1>2, ContentsType
  <2>2. ASSUME NEW S \in SUBSET Cid, c \in S, ParentClosed(S)
        PROVE  Parent[m] \in S
    <3>1. m \in S
      BY <2>2 DEF History
    <3> QED BY <3>1, <2>2, <1>2 DEF ParentClosed
  <2> QED BY <2>1, <2>2 DEF History
<1> QED BY <1>1, <1>2 DEF ParentClosed

\* A version's history is the version and its parent's history.
LEMMA HistoryStep ==
  ASSUME NEW m \in Manifest
  PROVE  /\ Parent[m] = None => History(m) = {m}
         /\ Parent[m] # None => History(m) = {m} \cup History(Parent[m])
<1> DEFINE rest == IF Parent[m] = None THEN {} ELSE History(Parent[m])
<1>1. m \in Cid /\ Parent[m] \in Cid \cup {None}
  BY ManifestsAreCids, ContentsType
<1>2. rest \subseteq Cid
  BY DEF History
<1>3. ParentClosed({m} \cup rest)
  <2> SUFFICES ASSUME NEW y \in ({m} \cup rest) \cap Manifest, Parent[y] # None
               PROVE  Parent[y] \in {m} \cup rest
    BY DEF ParentClosed
  <2>1. CASE y = m
    BY <2>1, <1>1, HistoryClosed
  <2>2. CASE y \in rest
    BY <2>2, <1>1, HistoryClosed DEF ParentClosed
  <2> QED BY <2>1, <2>2
<1>4. History(m) \subseteq {m} \cup rest
  BY <1>1, <1>2, <1>3 DEF History
<1>5. m \in History(m) /\ ParentClosed(History(m)) /\ History(m) \subseteq Cid
  BY <1>1, HistoryClosed DEF History
<1>6. ASSUME Parent[m] # None PROVE History(Parent[m]) \subseteq History(m)
  <2>1. Parent[m] \in History(m)
    BY <1>5, <1>6 DEF ParentClosed
  <2> QED BY <1>5, <2>1 DEF History
<1>7. CASE Parent[m] = None
  BY <1>4, <1>5, <1>7
<1>8. CASE Parent[m] # None
  BY <1>4, <1>5, <1>6, <1>8
<1> QED BY <1>7, <1>8

\* One step of the walk: a manifest, its files, and its parent's closure make
\* up a manifest's closure.
LEMMA ClosureStep ==
  ASSUME NEW m \in Manifest
  PROVE  /\ Parent[m] = None => Closure(m) = {m} \cup Files[m]
         /\ Parent[m] # None =>
              Closure(m) = {m} \cup Files[m] \cup Closure(Parent[m])
<1>1. CASE Parent[m] = None
  <2>1. History(m) = {m}
    BY <1>1, HistoryStep
  <2> QED BY <1>1, <2>1 DEF Closure
<1>2. CASE Parent[m] # None
  <2>1. History(m) = {m} \cup History(Parent[m])
    BY <1>2, HistoryStep
  <2> QED BY <1>2, <2>1 DEF Closure
<1> QED BY <1>1, <1>2

\* A record whose root is covered stays so when other fields change.
LEMMA ModifyCovered ==
  ASSUME NEW op \in UpdateOps, NEW stored \in ProjectRecord,
         NEW new \in ProjectRecord, Covered(stored), Covered(new)
  PROVE  Covered(Modify(op, stored, new))
<1>1. CASE op = "update_root"
  <2>1. Modify(op, stored, new) = [stored EXCEPT !.root_cid = new.root_cid,
                                                 !.blob_cids = new.blob_cids]
    BY <1>1 DEF Modify
  <2> QED BY <2>1 DEF Covered, ProjectRecord
<1>2. CASE op = "update_name"
  <2>1. Modify(op, stored, new) = [stored EXCEPT !.name = new.name]
    BY <1>2 DEF Modify
  <2> QED BY <2>1 DEF Covered, ProjectRecord
<1>3. CASE op = "extend_ttl"
  <2>1. Modify(op, stored, new) = [stored EXCEPT !.expires_at = new.expires_at]
    BY <1>3 DEF Modify
  <2> QED BY <2>1 DEF Covered, ProjectRecord
<1> QED BY <1>1, <1>2, <1>3 DEF UpdateOps

\* Once a manifest is read, what is missing is what its parent leads to.
LEMMA WalkedCovered ==
  ASSUME NEW r \in Request, NEW c \in Cid, Readable(c),
         NEW cids \in SUBSET Cid,
         r.rec.root_cid \in Manifest,
         cids \cup Closure(c) = Closure(r.rec.root_cid)
  PROVE  CoveredLocals(Walked(r, Collect(cids, c), c))
<1> DEFINE w == Walked(r, Collect(cids, c), c)
<1>1. /\ w.rec.root_cid = r.rec.root_cid
      /\ w.rec.blob_cids = cids \cup {c} \cup Files[c]
      /\ w.next = Parent[c]
      /\ w.pc = IF Parent[c] = None THEN "get" ELSE "walk"
  <2>1. r.rec \in ProjectRecord
    BY DEF Request
  <2> DEFINE rec == [r.rec EXCEPT !.blob_cids = Collect(cids, c)]
  <2>2. /\ rec.root_cid = r.rec.root_cid
        /\ rec.blob_cids = cids \cup {c} \cup Files[c]
    BY <2>1 DEF ProjectRecord, Collect
  <2> HIDE DEF rec
  <2>3. w = [r EXCEPT !.rec = rec, !.next = Parent[c],
                      !.pc = IF Parent[c] = None THEN "get" ELSE "walk"]
    BY DEF Walked, rec
  <2> HIDE DEF w
  <2> QED BY <2>2, <2>3 DEF Request
<1>2. /\ Parent[c] = None => Closure(c) = {c} \cup Files[c]
      /\ Parent[c] # None =>
           Closure(c) = {c} \cup Files[c] \cup Closure(Parent[c])
  BY ClosureStep DEF Readable
<1> HIDE DEF w
<1>3. CASE Parent[c] = None
  <2>1. w.pc = "get" /\ w.rec.blob_cids = Closure(w.rec.root_cid)
    BY <1>1, <1>2, <1>3
  <2>2. CoveredLocals(w)
    BY <1>1, <2>1, NoneIsNoCid, ManifestsAreCids DEF CoveredLocals, Covered
  <2> QED BY <2>2 DEF w
<1>4. CASE Parent[c] # None
  <2>1. w.pc = "walk" /\ w.rec.blob_cids \cup Closure(w.next)
                           = Closure(w.rec.root_cid)
    BY <1>1, <1>2, <1>4
  <2>2. CoveredLocals(w)
    BY <1>1, <2>1 DEF CoveredLocals
  <2> QED BY <2>2 DEF w
<1> QED BY <1>3, <1>4

LEMMA GotoCovered ==
  ASSUME TypeOK, CoverageInv, NEW q \in Req, NEW r, Goto(q, r),
         CoveredLocals(r)
  PROVE  \A x \in Req : CoveredLocals(req'[x])
BY DEF TypeOK, Goto, CoverageInv

LEMMA FinishCovered ==
  ASSUME TypeOK, CoverageInv, NEW q \in Req, Finish(q)
  PROVE  \A x \in Req : CoveredLocals(req'[x])
<1>1. CoveredLocals(IdleReq)
  BY DEF CoveredLocals, IdleReq
<1> QED BY <1>1, GotoCovered DEF Finish

\* A request arrives: what it carries has no root yet.
LEMMA ArriveCovered ==
  ASSUME TypeOK, CoverageInv, NEW q \in Req, Arrive(q)
  PROVE  CoverageInv'
<1>1. UNCHANGED projects
  BY DEF Arrive, CreateBegin, UpdateRootFetch, UpdateNameFetch, ExtendTtlFetch,
         DeleteFetch, UploadProbe, PutValueFetch, stores
<1>2. ASSUME NEW r, Goto(q, r), r.rec.root_cid = None, r.rec.blob_cids = {},
             r.pc # "walk"
      PROVE  CoverageInv'
  <2>1. CoveredLocals(r)
    BY <1>2 DEF CoveredLocals, Covered
  <2> QED BY <1>1, <1>2, <2>1, GotoCovered
          DEF CoverageInv, RootCoverage, Stored
<1>3. CASE CreateBegin(q)
  <2>1. PICK key \in Key, c \in Caller, ttl \in Ttl, name \in Name \cup {None} :
       Goto(q, [IdleReq EXCEPT !.op = "create",
                  !.pc = IF Limited(c) THEN "list" ELSE "create",
                  !.key = key, !.caller = c,
                  !.rec = NewRecord(key, c, ttl, name)])
    BY <1>3 DEF CreateBegin
  <2>2. LET rec == NewRecord(key, c, ttl, name)
        IN  rec.root_cid = None /\ rec.blob_cids = {}
    BY DEF NewRecord, EmptyRecord
  <2> QED BY <1>2, <2>1, <2>2 DEF IdleReq
<1>4. CASE UpdateRootFetch(q)
  BY <1>2, <1>4 DEF UpdateRootFetch, IdleReq, EmptyRecord
<1>5. CASE UpdateNameFetch(q)
  <2>1. PICK id \in Stored, key \in Key, name \in Name \cup {None} :
       Goto(q, [IdleReq EXCEPT !.op = "update_name", !.pc = "get",
                     !.id = id, !.key = key,
                     !.rec = [EmptyRecord EXCEPT !.name = name]])
    BY <1>5 DEF UpdateNameFetch
  <2>2. LET rec == [EmptyRecord EXCEPT !.name = name]
        IN  rec.root_cid = None /\ rec.blob_cids = {}
    BY DEF EmptyRecord
  <2> QED BY <1>2, <2>1, <2>2 DEF IdleReq
<1>6. CASE ExtendTtlFetch(q)
  <2>1. PICK id \in Stored, key \in Key, c \in Caller, ttl \in Ttl :
       Goto(q, [IdleReq EXCEPT !.op = "extend_ttl", !.pc = "get",
                     !.id = id, !.key = key, !.caller = c,
                     !.rec = [EmptyRecord EXCEPT
                               !.expires_at = ExpiryFor(c, ttl)]])
    BY <1>6 DEF ExtendTtlFetch
  <2>2. LET rec == [EmptyRecord EXCEPT !.expires_at = ExpiryFor(c, ttl)]
        IN  rec.root_cid = None /\ rec.blob_cids = {}
    BY DEF EmptyRecord
  <2> QED BY <1>2, <2>1, <2>2 DEF IdleReq
<1>7. CASE DeleteFetch(q)
  BY <1>2, <1>7 DEF DeleteFetch, IdleReq, EmptyRecord
<1>8. CASE UploadProbe(q)
  BY <1>2, <1>8 DEF UploadProbe, IdleReq, EmptyRecord
<1>9. CASE PutValueFetch(q)
  BY <1>2, <1>9 DEF PutValueFetch, IdleReq, EmptyRecord
<1> QED BY <1>3, <1>4, <1>5, <1>6, <1>7, <1>8, <1>9 DEF Arrive

\* Steps of handlers that write no record.
LEMMA HandleCovered ==
  ASSUME TypeOK, CoverageInv, NEW q \in Req, UNCHANGED projects,
         CreateList(q) \/ CreateCount(q) \/ SetProjectOwner(q)
           \/ UpdateRootManifest(q) \/ UpdateRootWalk(q) \/ UpdateGet(q)
           \/ DeleteGet(q) \/ DeleteKv(q) \/ UploadPut(q) \/ PutValueWrite(q)
           \/ RequestFails(q)
  PROVE  CoverageInv'
<1> DEFINE r == req[q]
<1>1. /\ r \in Request /\ LocalsOK(r) /\ CoveredLocals(r)
      /\ r.rec \in ProjectRecord /\ r.rec.blob_cids \subseteq Cid
  BY DEF TypeOK, CoverageInv, Request, ProjectRecord
<1>2. ASSUME \A x \in Req : CoveredLocals(req'[x]) PROVE CoverageInv'
  BY <1>2 DEF CoverageInv, RootCoverage, Stored
<1>3. CASE CreateList(q)
  <2>1. CoveredLocals([r EXCEPT !.pc = "count", !.seen = Stored])
    BY <1>1, <1>3 DEF CreateList, At, CoveredLocals, Request
  <2> QED BY <1>2, <1>3, <2>1, GotoCovered DEF CreateList
<1>4. CASE CreateCount(q)
  <2>1. CoveredLocals([r EXCEPT !.pc = "create", !.seen = {}])
    BY <1>1, <1>4 DEF CreateCount, At, CoveredLocals, Request
  <2> QED BY <1>2, <1>4, <2>1, GotoCovered, FinishCovered DEF CreateCount
<1>5. CASE UpdateRootManifest(q)
  <2> DEFINE root == r.next
             rr == [r EXCEPT !.rec.root_cid = root]
  <2>1. root \in Cid
    BY <1>1, <1>5 DEF UpdateRootManifest, At, LocalsOK
  <2>2. rr \in Request /\ rr.rec.root_cid = root
    BY <1>1, <2>1 DEF Request, ProjectRecord
  <2>3. Readable(root) => CoveredLocals(Walked(rr, Collect({}, root), root))
    <3> HIDE DEF rr
    <3> QED BY <2>1, <2>2, WalkedCovered DEF Readable
  <2> QED BY <1>2, <1>5, <2>3, GotoCovered, FinishCovered
          DEF UpdateRootManifest
<1>6. CASE UpdateRootWalk(q)
  <2> DEFINE parent == r.next
  <2>1. parent \in Cid
    BY <1>1, <1>6 DEF UpdateRootWalk, At, LocalsOK
  <2>2. /\ r.rec.root_cid \in Manifest
        /\ r.rec.blob_cids \cup Closure(parent) = Closure(r.rec.root_cid)
    BY <1>1, <1>6 DEF UpdateRootWalk, At, CoveredLocals
  <2>3. Readable(parent) =>
          CoveredLocals(Walked(r, Collect(r.rec.blob_cids, parent), parent))
    BY <1>1, <2>1, <2>2, WalkedCovered
  <2> QED BY <1>2, <1>6, <2>3, GotoCovered, FinishCovered DEF UpdateRootWalk
<1>7. CASE UpdateGet(q)
  <2> DEFINE old == projects[r.id]
             rec == Modify(r.op, old, r.rec)
             rr == [r EXCEPT !.pc = "put", !.rec = rec]
  <2>1. r.id \in Project /\ r.op \in UpdateOps /\ Covered(r.rec)
    BY <1>1, <1>7 DEF UpdateGet, At, LocalsOK, CoveredLocals
  <2>2. old # None => old \in ProjectRecord /\ Covered(old)
    BY <2>1 DEF TypeOK, CoverageInv, RootCoverage, Stored
  <2>3. old # None => Covered(rec)
    BY <1>1, <2>1, <2>2, ModifyCovered
  <2> HIDE DEF rec
  <2>4. old # None => CoveredLocals(rr)
    BY <1>1, <2>3 DEF CoveredLocals, Request
  <2>5. IF old = None THEN Finish(q) ELSE Goto(q, rr)
    BY <1>7 DEF UpdateGet, rec
  <2> QED BY <1>2, <2>4, <2>5, GotoCovered, FinishCovered
<1>8. CASE DeleteGet(q)
  <2>1. CoveredLocals([r EXCEPT !.pc = "remove", !.rec = projects[r.id]])
    BY <1>1 DEF CoveredLocals, Request
  <2> QED BY <1>2, <1>8, <2>1, GotoCovered, FinishCovered DEF DeleteGet
<1>9. CASE SetProjectOwner(q) \/ DeleteKv(q) \/ UploadPut(q)
             \/ PutValueWrite(q) \/ RequestFails(q)
  BY <1>2, <1>9, FinishCovered
     DEF SetProjectOwner, DeleteKv, UploadPut, PutValueWrite, RequestFails
<1> QED BY <1>3, <1>4, <1>5, <1>6, <1>7, <1>8, <1>9

\* The two puts write what the handler carries, which is covered.
LEMMA PutCovered ==
  ASSUME TypeOK, CoverageInv, NEW q \in Req, CreateWrite(q) \/ UpdatePut(q)
  PROVE  CoverageInv'
<1>1. /\ req[q] \in Request /\ req[q].rec \in ProjectRecord
      /\ Covered(req[q].rec)
  BY DEF TypeOK, CoverageInv, CoveredLocals, CreateWrite, UpdatePut, At, Request
<1>2. \A x \in Req : CoveredLocals(req'[x])
  <2>1. CASE CreateWrite(q)
    <3>1. PICK p \in Project :
            IF req[q].caller = None
            THEN Finish(q)
            ELSE Goto(q, [req[q] EXCEPT !.pc = "owner", !.id = p])
      BY <2>1 DEF CreateWrite
    <3>2. CoveredLocals([req[q] EXCEPT !.pc = "owner", !.id = p])
      BY <1>1 DEF CoveredLocals, Request
    <3> QED BY <3>1, <3>2, GotoCovered, FinishCovered
  <2>2. CASE UpdatePut(q)
    BY <2>2, FinishCovered DEF UpdatePut
  <2> QED BY <2>1, <2>2
<1>3. PICK p \in Project : projects' = [projects EXCEPT ![p] = req[q].rec]
  BY DEF CreateWrite, UpdatePut, Write, At, TypeOK, LocalsOK
<1>4. RootCoverage'
  BY <1>1, <1>3 DEF CoverageInv, RootCoverage, Stored, TypeOK
<1> QED BY <1>2, <1>4 DEF CoverageInv

\* A step that only removes records and leaves each handler where it is, at
\* its beginning, or past its writes.
LEMMA RemoveCovered ==
  ASSUME TypeOK, CoverageInv,
         \/ \E q \in Req : DeleteRemove(q)
         \/ Reap \/ (\E p \in Project : ReaperReadFails(p))
         \/ ReaperCallFails \/ Tick \/ Crash
  PROVE  CoverageInv'
<1>1. \A p \in Project : projects'[p] \in {projects[p], None}
  BY DEF DeleteRemove, Reap, ReaperList, ReaperRead, ReaperDeleteGet,
         ReaperRemove, ReaperBlob, ReaperKv, ReaperDone, ReaperReadFails,
         ReaperCallFails, Tick, Crash, stores, TypeOK
<1>2. RootCoverage'
  BY <1>1 DEF CoverageInv, RootCoverage, Stored
<1>3. \A x \in Req : CoveredLocals(req'[x])
  <2>1. CASE \E q \in Req : DeleteRemove(q)
    <3>1. PICK q \in Req : DeleteRemove(q)
      BY <2>1
    <3>2. CoveredLocals([req[q] EXCEPT !.pc = "delete_all"])
      BY DEF CoveredLocals, TypeOK, Request
    <3> QED BY <3>1, <3>2, GotoCovered, FinishCovered DEF DeleteRemove
  <2>2. CASE Crash
    <3>1. CoveredLocals(IdleReq)
      BY DEF CoveredLocals, IdleReq
    <3> QED BY <2>2, <3>1 DEF Crash
  <2>3. CASE UNCHANGED req
    BY <2>3 DEF CoverageInv
  <2> QED BY <2>1, <2>2, <2>3
          DEF Reap, ReaperList, ReaperRead, ReaperDeleteGet, ReaperRemove,
              ReaperBlob, ReaperKv, ReaperDone, ReaperReadFails,
              ReaperCallFails, Tick
<1> QED BY <1>2, <1>3 DEF CoverageInv

\* Records and what handlers carry to a put are covered: a stale copy is one of
\* a covered record.
THEOREM CoverageInvHolds == Spec => []CoverageInv
<1>1. Init => CoverageInv
  BY DEF Init, CoverageInv, RootCoverage, Stored, CoveredLocals, IdleReq
<1>2. TypeOK /\ CoverageInv /\ [Next]_vars => CoverageInv'
  <2> SUFFICES ASSUME TypeOK, CoverageInv, [Next]_vars PROVE CoverageInv'
    OBVIOUS
  <2>1. ASSUME NEW q \in Req, Arrive(q) PROVE CoverageInv'
    BY <2>1, ArriveCovered
  <2>2. ASSUME NEW q \in Req, Handle(q) \/ RequestFails(q) PROVE CoverageInv'
    <3>1. CASE CreateWrite(q) \/ UpdatePut(q)
      BY <3>1, PutCovered
    <3>2. CASE DeleteRemove(q)
      BY <3>2, RemoveCovered
    <3>3. CASE ~ (CreateWrite(q) \/ UpdatePut(q) \/ DeleteRemove(q))
      <4>1. UNCHANGED projects
        BY <2>2, <3>3 DEF Handle, CreateList, CreateCount, SetProjectOwner,
           UpdateRootManifest, UpdateRootWalk, UpdateGet, DeleteGet, DeleteKv,
           UploadPut, PutValueWrite, RequestFails, stores
      <4> QED BY <2>2, <3>3, <4>1, HandleCovered DEF Handle
    <3> QED BY <3>1, <3>2, <3>3
  <2>3. CASE \/ Reap \/ (\E p \in Project : ReaperReadFails(p))
             \/ ReaperCallFails \/ Tick \/ Crash
    BY <2>3, RemoveCovered
  <2>4. CASE UNCHANGED vars
    BY <2>4 DEF CoverageInv, RootCoverage, Stored, vars, stores
  <2> QED BY <2>1, <2>2, <2>3, <2>4 DEF Next
<1> QED BY <1>1, <1>2, TypeCorrect, PTL DEF Spec

\* The reaper's bookkeeping is complete: at any time, whatever stale copies
\* handlers write over one another, the blob_cids of a stored record are the
\* blobs of its root and of the versions before it, and no others.
THEOREM RootCoverageHolds == Spec => []RootCoverage
<1>1. CoverageInv => RootCoverage
  BY DEF CoverageInv
<1> QED BY <1>1, CoverageInvHolds, PTL

=============================================================================
