---------------------- MODULE LwidServerSafetyProofs ----------------------
(***************************************************************************)
(* What the handlers write and what the reaper removes, for every value of *)
(* the constants.                                                          *)
(*                                                                         *)
(* A handler checks the key on one copy of the record and writes another,  *)
(* later; WriteInv says what it carries in between.  A sweep acts in two   *)
(* passes on what it read in the first; SweepInv says what it knows.  A    *)
(* creation counts first and writes later; QuotaInv says what was counted. *)
(* With them, each storage call of a handler or of the reaper is a step of *)
(* Registry, or none.                                                      *)
(***************************************************************************)
EXTENDS LwidServerProofs, ServerRegistry, FiniteSetTheorems

LEMMA KeyIsNotNone == None \notin Key
BY NoneIsNoValue

\* A limited TTL choice is a time.
LEMMA DurationIsNat ==
  ASSUME NEW t \in Ttl, t # NeverTtl
  PROVE  Duration[t] \in Nat
BY DurationType DEF Ttl, NeverTtl

\* The expiry that create and extend_ttl compute is within the tier's limit.
LEMMA ExpiryIsBounded ==
  ASSUME TypeOK, NEW c \in Caller, NEW ttl \in Ttl
  PROVE  BoundedExpiry(ExpiryFor(c, ttl))
<1> DEFINE max == MaxTtl[c]
           t == clamp_ttl(ttl, max)
<1>1. max \in Ttl /\ NeverTtl \in Nat /\ clock \in Nat
  BY PolicyType, DurationType, InstanceType DEF NeverTtl, TypeOK
<1>2. t \in Ttl /\ t <= max
  BY <1>1 DEF clamp_ttl, Ttl
<1>3. CASE max = NeverTtl
  BY <1>3 DEF BoundedExpiry
<1>4. CASE max # NeverTtl
  <2>1. t # NeverTtl /\ t \in DOMAIN Duration /\ max \in DOMAIN Duration
    BY <1>1, <1>2, <1>4, DurationType DEF Ttl, NeverTtl
  <2>2. Duration[t] <= Duration[max]
    BY <1>2, <2>1, DurationType
  <2>3. Duration[t] \in Nat /\ Duration[max] \in Nat
    BY <1>1, <1>2, <1>4, <2>1, DurationIsNat
  <2> HIDE DEF t
  <2>4. parse_ttl(t, clock) = clock + Duration[t]
    BY <2>1 DEF parse_ttl
  <2>5. clock + Duration[t] <= clock + Duration[max]
    BY <1>1, <2>2, <2>3
  <2>6. clock + Duration[t] # None
    BY <1>1, <2>3, NoneIsNoValue
  <2> QED BY <2>4, <2>5, <2>6 DEF BoundedExpiry, ExpiryFor, t
<1> QED BY <1>3, <1>4

\* A bounded expiry stays bounded as time goes by.
LEMMA BoundedLater ==
  ASSUME TypeOK, TypeOK', clock <= clock',
         NEW e \in Nat \cup {None}, BoundedExpiry(e)
  PROVE  BoundedExpiry(e)'
<1>1. clock \in Nat /\ clock' \in Nat
  BY InstanceType DEF TypeOK
<1>2. PICK c \in Caller :
        MaxTtl[c] = NeverTtl \/ (e # None /\ e <= clock + Duration[MaxTtl[c]])
  BY DEF BoundedExpiry
<1>3. CASE MaxTtl[c] = NeverTtl
  BY <1>3 DEF BoundedExpiry
<1>4. CASE MaxTtl[c] # NeverTtl
  <2>1. Duration[MaxTtl[c]] \in Nat
    BY <1>4, DurationIsNat, PolicyType
  <2>2. e \in Nat /\ e <= clock' + Duration[MaxTtl[c]]
    BY <1>1, <1>2, <1>4, <2>1
  <2> QED BY <1>2, <1>4, <2>2 DEF BoundedExpiry
<1> QED BY <1>3, <1>4

-----------------------------------------------------------------------------

\* A handler that moves on without writing.
LEMMA GotoWriteInv ==
  ASSUME TypeOK, WriteInv, NEW q \in Req, NEW r, Goto(q, r), CarriedOK(r),
         UNCHANGED <<projects, creator, clock>>
  PROVE  WriteInv'
<1>1. \A e : BoundedExpiry(e)' <=> BoundedExpiry(e)
  BY DEF BoundedExpiry
<1>2. \A x \in Req : req'[x] = req[x] \/ req'[x] = r
  BY DEF Goto, TypeOK
<1>3. ASSUME NEW x \in Req PROVE CarriedOK(req[x])'
  <2>1. CarriedOK(req[x])
    BY DEF WriteInv
  <2> QED BY <1>1, <1>2, <2>1 DEF CarriedOK
<1>4. KeyIsCreators' /\ ExpiryBound' /\ \A p \in Stored' : creator'[p] \in Key
  BY DEF WriteInv, KeyIsCreators, ExpiryBound, BoundedExpiry, Stored
<1> QED BY <1>3, <1>4 DEF WriteInv

LEMMA FinishWriteInv ==
  ASSUME TypeOK, WriteInv, NEW q \in Req, Finish(q),
         UNCHANGED <<projects, creator, clock>>
  PROVE  WriteInv'
<1>1. CarriedOK(IdleReq)
  BY DEF CarriedOK, IdleReq
<1> QED BY <1>1, GotoWriteInv DEF Finish

\* The key was checked on the stored record, so it is the creator's.
LEMMA VerifiedIsCreator ==
  ASSUME WriteInv, NEW id \in Stored, NEW key \in Key, Verified(id, key)
  PROVE  creator[id] = key
BY DEF WriteInv, KeyIsCreators, Verified

LEMMA ArriveWriteInv ==
  ASSUME TypeOK, WriteInv, NEW q \in Req, Arrive(q)
  PROVE  WriteInv'
<1>1. UNCHANGED <<projects, creator, clock>>
  BY DEF Arrive, CreateBegin, UpdateRootFetch, UpdateNameFetch, ExtendTtlFetch,
         DeleteFetch, UploadProbe, PutValueFetch, stores, history
<1>2. CASE CreateBegin(q)
  <2>1. PICK key \in Key, c \in Caller, ttl \in Ttl, name \in Name \cup {None} :
       Goto(q, [IdleReq EXCEPT !.op = "create",
                  !.pc = IF Limited(c) THEN "list" ELSE "create",
                  !.key = key, !.caller = c,
                  !.rec = NewRecord(key, c, ttl, name)])
    BY <1>2 DEF CreateBegin
  <2> DEFINE rec == NewRecord(key, c, ttl, name)
             r == [IdleReq EXCEPT !.op = "create",
                     !.pc = IF Limited(c) THEN "list" ELSE "create",
                     !.key = key, !.caller = c, !.rec = rec]
  <2>2. rec.write_pubkey = key /\ rec.expires_at = ExpiryFor(c, ttl)
    BY DEF NewRecord, EmptyRecord
  <2>3. BoundedExpiry(rec.expires_at)
    BY <2>2, ExpiryIsBounded
  <2> HIDE DEF rec
  <2>4. r.pc \in {"list", "create"} /\ r.key = key /\ r.rec = rec
    BY DEF IdleReq
  <2> HIDE DEF r
  <2>5. CarriedOK(r)
    BY <2>2, <2>3, <2>4 DEF CarriedOK
  <2> QED BY <1>1, <2>1, <2>5, GotoWriteInv DEF r, rec
<1>3. CASE UpdateRootFetch(q)
  <2>1. PICK id \in Stored, key \in Key, caller \in Caller, cid \in Cid :
          /\ Verified(id, key)
          /\ Goto(q, [IdleReq EXCEPT !.op = "update_root", !.pc = "manifest",
                     !.id = id, !.key = key, !.caller = caller, !.next = cid])
    BY <1>3 DEF UpdateRootFetch
  <2>2. creator[id] = key
    BY <2>1, VerifiedIsCreator
  <2>3. CarriedOK([IdleReq EXCEPT !.op = "update_root", !.pc = "manifest",
                     !.id = id, !.key = key, !.caller = caller, !.next = cid])
    BY <2>2 DEF CarriedOK, IdleReq
  <2> QED BY <1>1, <2>1, <2>3, GotoWriteInv
<1>4. CASE UpdateNameFetch(q)
  <2>1. PICK id \in Stored, key \in Key, name \in Name \cup {None} :
          /\ Verified(id, key)
          /\ Goto(q, [IdleReq EXCEPT !.op = "update_name", !.pc = "get",
                     !.id = id, !.key = key,
                     !.rec = [EmptyRecord EXCEPT !.name = name]])
    BY <1>4 DEF UpdateNameFetch
  <2>2. creator[id] = key
    BY <2>1, VerifiedIsCreator
  <2> DEFINE rec == [EmptyRecord EXCEPT !.name = name]
  <2> HIDE DEF rec
  <2>3. CarriedOK([IdleReq EXCEPT !.op = "update_name", !.pc = "get",
                     !.id = id, !.key = key, !.rec = rec])
    BY <2>2 DEF CarriedOK, IdleReq
  <2> QED BY <1>1, <2>1, <2>3, GotoWriteInv DEF rec
<1>5. CASE ExtendTtlFetch(q)
  <2>1. PICK id \in Stored, key \in Key, c \in Caller, ttl \in Ttl :
          /\ Verified(id, key)
          /\ Goto(q, [IdleReq EXCEPT !.op = "extend_ttl", !.pc = "get",
                     !.id = id, !.key = key, !.caller = c,
                     !.rec = [EmptyRecord EXCEPT
                               !.expires_at = ExpiryFor(c, ttl)]])
    BY <1>5 DEF ExtendTtlFetch
  <2> DEFINE rec == [EmptyRecord EXCEPT !.expires_at = ExpiryFor(c, ttl)]
  <2>2. creator[id] = key
    BY <2>1, VerifiedIsCreator
  <2>3. BoundedExpiry(rec.expires_at)
    BY ExpiryIsBounded DEF EmptyRecord
  <2> HIDE DEF rec
  <2>4. CarriedOK([IdleReq EXCEPT !.op = "extend_ttl", !.pc = "get",
                     !.id = id, !.key = key, !.caller = c, !.rec = rec])
    BY <2>2, <2>3 DEF CarriedOK, IdleReq
  <2> QED BY <1>1, <2>1, <2>4, GotoWriteInv DEF rec
<1>6. CASE DeleteFetch(q)
  <2>1. PICK id \in Stored, key \in Key :
          /\ Verified(id, key)
          /\ Goto(q, [IdleReq EXCEPT !.op = "delete", !.pc = "delete_get",
                     !.id = id, !.key = key])
    BY <1>6 DEF DeleteFetch
  <2>2. creator[id] = key
    BY <2>1, VerifiedIsCreator
  <2>3. CarriedOK([IdleReq EXCEPT !.op = "delete", !.pc = "delete_get",
                     !.id = id, !.key = key])
    BY <2>2 DEF CarriedOK, IdleReq
  <2> QED BY <1>1, <2>1, <2>3, GotoWriteInv
<1>7. CASE UploadProbe(q) \/ PutValueFetch(q)
  <2>1. ASSUME NEW r, Goto(q, r), r.pc \in {"blob_put", "kv_put"}
        PROVE  WriteInv'
    <3>1. CarriedOK(r)
      BY <2>1 DEF CarriedOK
    <3> QED BY <1>1, <2>1, <3>1, GotoWriteInv
  <2>2. CASE UploadProbe(q)
    BY <2>1, <2>2 DEF UploadProbe, IdleReq
  <2>3. CASE PutValueFetch(q)
    BY <2>1, <2>3 DEF PutValueFetch, IdleReq
  <2> QED BY <1>7, <2>2, <2>3
<1> QED BY <1>2, <1>3, <1>4, <1>5, <1>6, <1>7 DEF Arrive

-----------------------------------------------------------------------------

LEMMA ModifyKeeps ==
  ASSUME NEW op \in UpdateOps, NEW stored \in ProjectRecord,
         NEW new \in ProjectRecord
  PROVE  LET m == Modify(op, stored, new) IN
         /\ m.write_pubkey = stored.write_pubkey
         /\ m.expires_at \in {stored.expires_at, new.expires_at}
         /\ op # "extend_ttl" => m.expires_at = stored.expires_at
<1>1. CASE op = "update_root"
  BY <1>1 DEF Modify, ProjectRecord
<1>2. CASE op = "update_name"
  BY <1>2 DEF Modify, ProjectRecord
<1>3. CASE op = "extend_ttl"
  BY <1>3 DEF Modify, ProjectRecord
<1> QED BY <1>1, <1>2, <1>3 DEF UpdateOps

\* Steps of handlers that write no record.
LEMMA HandleWriteInv ==
  ASSUME TypeOK, WriteInv, NEW q \in Req,
         UNCHANGED <<projects, creator, clock>>,
         CreateList(q) \/ CreateCount(q) \/ SetProjectOwner(q)
           \/ UpdateRootManifest(q) \/ UpdateRootWalk(q) \/ UpdateGet(q)
           \/ DeleteGet(q) \/ DeleteKv(q) \/ UploadPut(q) \/ PutValueWrite(q)
           \/ RequestFails(q)
  PROVE  WriteInv'
<1> DEFINE r == req[q]
<1>1. /\ r \in Request /\ LocalsOK(r) /\ CarriedOK(r)
      /\ r.rec \in ProjectRecord /\ r.rec.blob_cids \subseteq Cid
  BY DEF TypeOK, WriteInv, Request, ProjectRecord
<1>2. CASE CreateList(q) \/ CreateCount(q)
  <2>1. CarriedOK([r EXCEPT !.pc = "count", !.seen = Stored])
    BY <1>1, <1>2 DEF CreateList, CreateCount, At, CarriedOK, Request
  <2>2. CarriedOK([r EXCEPT !.pc = "create", !.seen = {}])
    BY <1>1, <1>2 DEF CreateList, CreateCount, At, CarriedOK, Request
  <2> QED BY <1>2, <2>1, <2>2, GotoWriteInv, FinishWriteInv
          DEF CreateList, CreateCount
<1>3. CASE UpdateRootManifest(q) \/ UpdateRootWalk(q)
  <2>1. r.op = "update_root" /\ r.key \in Key /\ creator[r.id] = r.key
    BY <1>1, <1>3 DEF UpdateRootManifest, UpdateRootWalk, At, CarriedOK,
                      LocalsOK
  <2>2. ASSUME NEW s, NEW cids, NEW c,
               s \in Request, s.op = "update_root", s.key = r.key, s.id = r.id
        PROVE  CarriedOK(Walked(s, cids, c))
    <3> DEFINE w == Walked(s, cids, c)
    <3>1. w.pc \in {"get", "walk"}
      BY <2>2 DEF Walked, Request
    <3>2. w.op = "update_root" /\ w.key = r.key /\ w.id = r.id
      BY <2>2 DEF Walked, Request
    <3> HIDE DEF w
    <3>3. CarriedOK(w)
      BY <2>1, <3>1, <3>2 DEF CarriedOK
    <3> QED BY <3>3 DEF w
  <2>3. CASE UpdateRootManifest(q)
    <3> DEFINE root == r.next
               rr == [r EXCEPT !.rec.root_cid = root]
    <3>1. root \in Cid
      BY <1>1, <2>3 DEF UpdateRootManifest, At, LocalsOK
    <3>2. rr \in Request /\ rr.op = r.op /\ rr.key = r.key /\ rr.id = r.id
      BY <1>1, <3>1 DEF Request, ProjectRecord
    <3>3. CarriedOK(Walked(rr, Collect({}, root), root))
      <4> HIDE DEF rr
      <4> QED BY <2>1, <2>2, <3>2
    <3> QED BY <2>3, <3>3, GotoWriteInv, FinishWriteInv
            DEF UpdateRootManifest
  <2>4. CASE UpdateRootWalk(q)
    <3>1. CarriedOK(Walked(r, Collect(r.rec.blob_cids, r.next), r.next))
      BY <1>1, <2>1, <2>2
    <3> QED BY <2>4, <3>1, GotoWriteInv, FinishWriteInv DEF UpdateRootWalk
  <2> QED BY <1>3, <2>3, <2>4
<1>4. CASE UpdateGet(q)
  <2> DEFINE old == projects[r.id]
             rec == Modify(r.op, old, r.rec)
             rr == [r EXCEPT !.pc = "put", !.rec = rec]
  <2>1. /\ r.id \in Project /\ r.op \in UpdateOps
        /\ r.key \in Key /\ creator[r.id] = r.key
        /\ r.op = "extend_ttl" => BoundedExpiry(r.rec.expires_at)
    BY <1>1, <1>4 DEF UpdateGet, At, LocalsOK, CarriedOK
  <2>2. old # None =>
          /\ old \in ProjectRecord
          /\ old.write_pubkey = r.key /\ BoundedExpiry(old.expires_at)
    BY <2>1 DEF TypeOK, WriteInv, KeyIsCreators, ExpiryBound, Stored
  <2>3. old # None =>
          /\ rec.write_pubkey = r.key
          /\ rec.expires_at \in {old.expires_at, r.rec.expires_at}
          /\ r.op # "extend_ttl" => rec.expires_at = old.expires_at
    BY <1>1, <2>1, <2>2, ModifyKeeps
  <2> HIDE DEF rec
  <2>4. old # None => rec.write_pubkey = r.key /\ BoundedExpiry(rec.expires_at)
    BY <2>1, <2>2, <2>3
  <2>5. rr.pc = "put" /\ rr.key = r.key /\ rr.id = r.id /\ rr.rec = rec
    BY <1>1 DEF Request
  <2> HIDE DEF rr
  <2>6. old # None => CarriedOK(rr)
    BY <2>1, <2>4, <2>5 DEF CarriedOK
  <2>7. IF old = None THEN Finish(q) ELSE Goto(q, rr)
    BY <1>4 DEF UpdateGet, rec, rr
  <2> QED BY <2>6, <2>7, GotoWriteInv, FinishWriteInv
<1>5. CASE DeleteGet(q)
  <2>1. CarriedOK([r EXCEPT !.pc = "remove", !.rec = projects[r.id]])
    BY <1>1, <1>5 DEF DeleteGet, At, CarriedOK, Request
  <2> QED BY <1>5, <2>1, GotoWriteInv, FinishWriteInv DEF DeleteGet
<1>6. CASE SetProjectOwner(q) \/ DeleteKv(q) \/ UploadPut(q)
             \/ PutValueWrite(q) \/ RequestFails(q)
  BY <1>6, FinishWriteInv
     DEF SetProjectOwner, DeleteKv, UploadPut, PutValueWrite, RequestFails
<1> QED BY <1>2, <1>3, <1>4, <1>5, <1>6

\* A new project takes an id no other handler refers to.
LEMMA CreateWriteInv ==
  ASSUME TypeOK, WriteInv, NEW q \in Req, CreateWrite(q)
  PROVE  WriteInv'
<1>1. PICK p \in Project :
        /\ creator[p] = None
        /\ creator' = [creator EXCEPT ![p] = req[q].key]
        /\ projects' = [projects EXCEPT ![p] = req[q].rec]
        /\ IF req[q].caller = None
           THEN Finish(q)
           ELSE Goto(q, [req[q] EXCEPT !.pc = "owner", !.id = p])
  BY DEF CreateWrite, Write
<1>2. /\ req[q].key \in Key /\ req[q].rec.write_pubkey = req[q].key
      /\ BoundedExpiry(req[q].rec.expires_at)
      /\ req[q] \in Request
  BY DEF CreateWrite, At, TypeOK, LocalsOK, WriteInv, CarriedOK
<1>3. clock' = clock /\ \A e : BoundedExpiry(e)' <=> BoundedExpiry(e)
  BY DEF CreateWrite, BoundedExpiry
<1>4. /\ \A x \in Stored' : creator'[x] \in Key
      /\ KeyIsCreators' /\ ExpiryBound'
  BY <1>1, <1>2, <1>3 DEF WriteInv, KeyIsCreators, ExpiryBound, Stored, TypeOK
<1>5. ASSUME NEW x \in Req PROVE CarriedOK(req[x])'
  <2>1. CASE x = q
    <3> DEFINE r == [req[q] EXCEPT !.pc = "owner", !.id = p]
    <3> HIDE DEF r
    <3>1. req'[q] = IdleReq \/ req'[q] = r
      <4>1. Goto(q, IdleReq) \/ Goto(q, r)
        BY <1>1 DEF Finish, r
      <4>2. DOMAIN req = Req
        BY DEF TypeOK
      <4> QED BY <4>1, <4>2 DEF Goto
    <3>2. req'[q].pc \in {"idle", "owner"}
      <4>1. r.pc = "owner"
        BY <1>2 DEF Request, r
      <4>2. IdleReq.pc = "idle"
        BY DEF IdleReq
      <4> QED BY <3>1, <4>1, <4>2
    <3> QED BY <2>1, <3>2 DEF CarriedOK
  <2>2. CASE x # q
    <3>1. req'[x] = req[x]
      BY <1>1, <2>2 DEF Finish, Goto, TypeOK
    <3>2. /\ CarriedOK(req[x]) /\ LocalsOK(req[x])
      BY DEF WriteInv, TypeOK
    <3>3. \A y \in Project : creator[y] \in Key => creator'[y] = creator[y]
      BY <1>1, KeyIsNotNone DEF TypeOK
    <3> QED BY <1>3, <3>1, <3>2, <3>3 DEF CarriedOK, LocalsOK
  <2> QED BY <2>1, <2>2
<1> QED BY <1>4, <1>5 DEF WriteInv

LEMMA UpdateWriteInv ==
  ASSUME TypeOK, WriteInv, NEW q \in Req, UpdatePut(q)
  PROVE  WriteInv'
<1>1. /\ projects' = [projects EXCEPT ![req[q].id] = req[q].rec]
      /\ Finish(q) /\ UNCHANGED <<creator, clock>>
  BY DEF UpdatePut, Write
<1>2. /\ req[q].key \in Key /\ creator[req[q].id] = req[q].key
      /\ req[q].rec.write_pubkey = req[q].key
      /\ BoundedExpiry(req[q].rec.expires_at)
      /\ req[q].id \in Project
  BY DEF UpdatePut, At, TypeOK, LocalsOK, WriteInv, CarriedOK
<1>3. \A e : BoundedExpiry(e)' <=> BoundedExpiry(e)
  BY <1>1 DEF BoundedExpiry
<1>4. /\ \A x \in Stored' : creator'[x] \in Key
      /\ KeyIsCreators' /\ ExpiryBound'
  BY <1>1, <1>2, <1>3 DEF WriteInv, KeyIsCreators, ExpiryBound, Stored, TypeOK
<1>5. \A x \in Req : req'[x] \in {req[x], IdleReq}
  BY <1>1 DEF Finish, Goto, TypeOK
<1>6. CarriedOK(IdleReq)
  BY DEF CarriedOK, IdleReq
<1>7. \A x \in Req : CarriedOK(req[x])'
  BY <1>1, <1>3, <1>5, <1>6 DEF WriteInv, CarriedOK
<1> QED BY <1>4, <1>7 DEF WriteInv

\* Records are only removed, and handlers stay, end or get past their writes.
LEMMA RemoveWriteInv ==
  ASSUME TypeOK, TypeOK', WriteInv,
         \/ \E q \in Req : DeleteRemove(q)
         \/ Reap \/ (\E p \in Project : ReaperReadFails(p))
         \/ ReaperCallFails \/ Tick \/ Crash
  PROVE  WriteInv'
<1>1. /\ \A p \in Project : projects'[p] \in {projects[p], None}
      /\ creator' = creator
  BY DEF DeleteRemove, Reap, ReaperList, ReaperRead, ReaperDeleteGet,
         ReaperRemove, ReaperBlob, ReaperKv, ReaperDone, ReaperReadFails,
         ReaperCallFails, Tick, Crash, stores, history, TypeOK
<1>2. clock \in Nat /\ clock <= clock'
  <2>1. clock \in Nat
    BY InstanceType DEF TypeOK
  <2>2. CASE Tick
    BY <2>1, <2>2 DEF Tick
  <2>3. CASE clock' = clock
    BY <2>1, <2>3
  <2> QED BY <2>1, <2>2, <2>3 DEF DeleteRemove, Reap, ReaperList, ReaperRead,
         ReaperDeleteGet, ReaperRemove, ReaperBlob, ReaperKv, ReaperDone,
         ReaperReadFails, ReaperCallFails, Crash
<1>3. \A e \in Nat \cup {None} : BoundedExpiry(e) => BoundedExpiry(e)'
  BY <1>2, BoundedLater
<1>4. Stored' \subseteq Stored /\ \A p \in Stored' : projects'[p] = projects[p]
  BY <1>1 DEF Stored
<1>5. \A p \in Stored : projects[p].expires_at \in Nat \cup {None}
  BY DEF Stored, TypeOK, ProjectRecord
<1>6. (\A p \in Stored' : creator'[p] \in Key) /\ KeyIsCreators'
  BY <1>1, <1>4 DEF WriteInv, KeyIsCreators
<1>7. ExpiryBound'
  BY <1>3, <1>4, <1>5 DEF WriteInv, ExpiryBound
<1>8. ASSUME NEW x \in Req PROVE CarriedOK(req[x])'
  <2>1. req[x] \in Request /\ req[x].rec.expires_at \in Nat \cup {None}
    BY DEF TypeOK, Request, ProjectRecord
  <2>2. CASE req'[x] = req[x]
    <3>1. CarriedOK(req[x])
      BY DEF WriteInv
    <3> QED BY <1>1, <1>3, <2>1, <2>2, <3>1 DEF CarriedOK
  <2>3. CASE req'[x] = IdleReq
    BY <2>3 DEF CarriedOK, IdleReq
  <2>4. CASE /\ req[x].pc = "remove"
             /\ req'[x] = [req[x] EXCEPT !.pc = "delete_all"]
    <3>1. req[x].key \in Key /\ creator[req[x].id] = req[x].key
      BY <2>4 DEF WriteInv, CarriedOK
    <3> QED BY <1>1, <2>1, <2>4, <3>1 DEF CarriedOK, Request
  <2>5. CASE \E q \in Req : DeleteRemove(q)
    <3>1. \/ req'[x] = req[x] \/ req'[x] = IdleReq
          \/ /\ req[x].pc = "remove"
             /\ req'[x] = [req[x] EXCEPT !.pc = "delete_all"]
      BY <2>5 DEF DeleteRemove, Finish, Goto, At, TypeOK
    <3> QED BY <2>2, <2>3, <2>4, <3>1
  <2>6. CASE Crash
    BY <2>3, <2>6 DEF Crash
  <2>7. CASE UNCHANGED req
    BY <2>2, <2>7
  <2> QED BY <2>5, <2>6, <2>7
          DEF Reap, ReaperList, ReaperRead, ReaperDeleteGet, ReaperRemove,
              ReaperBlob, ReaperKv, ReaperDone, ReaperReadFails,
              ReaperCallFails, Tick
<1> QED BY <1>6, <1>7, <1>8 DEF WriteInv

\* Stored records and the records that handlers carry have their creator's
\* key and a bounded deadline.
THEOREM WriteInvHolds == Spec => []WriteInv
<1>1. Init => WriteInv
  BY DEF Init, WriteInv, KeyIsCreators, ExpiryBound, Stored, CarriedOK, IdleReq
<1>2. TypeOK /\ TypeOK' /\ WriteInv /\ [Next]_vars => WriteInv'
  <2> SUFFICES ASSUME TypeOK, TypeOK', WriteInv, [Next]_vars PROVE WriteInv'
    OBVIOUS
  <2>1. ASSUME NEW q \in Req, Arrive(q) PROVE WriteInv'
    BY <2>1, ArriveWriteInv
  <2>2. ASSUME NEW q \in Req, Handle(q) \/ RequestFails(q) PROVE WriteInv'
    <3>1. CASE CreateWrite(q)
      BY <3>1, CreateWriteInv
    <3>2. CASE UpdatePut(q)
      BY <3>2, UpdateWriteInv
    <3>3. CASE DeleteRemove(q)
      BY <3>3, RemoveWriteInv
    <3>4. CASE ~ (CreateWrite(q) \/ UpdatePut(q) \/ DeleteRemove(q))
      <4>1. UNCHANGED <<projects, creator, clock>>
        BY <2>2, <3>4 DEF Handle, CreateList, CreateCount, SetProjectOwner,
           UpdateRootManifest, UpdateRootWalk, UpdateGet, DeleteGet, DeleteKv,
           UploadPut, PutValueWrite, RequestFails, stores, history
      <4> QED BY <2>2, <3>4, <4>1, HandleWriteInv DEF Handle
    <3> QED BY <3>1, <3>2, <3>3, <3>4
  <2>3. CASE \/ Reap \/ (\E p \in Project : ReaperReadFails(p))
             \/ ReaperCallFails \/ Tick \/ Crash
    BY <2>3, RemoveWriteInv
  <2>4. CASE UNCHANGED vars
    BY <2>4 DEF WriteInv, KeyIsCreators, ExpiryBound, BoundedExpiry, CarriedOK,
                Stored, vars, stores, history
  <2> QED BY <2>1, <2>2, <2>3, <2>4 DEF Next
<1> QED BY <1>1, <1>2, TypeCorrect, PTL DEF Spec

\* A project keeps its creator's key, whatever handlers write over one another.
THEOREM KeyIsCreatorsHolds == Spec => []KeyIsCreators
<1>1. WriteInv => KeyIsCreators
  BY DEF WriteInv
<1> QED BY <1>1, WriteInvHolds, PTL

\* No deadline is ever beyond the longest TTL some tier allows.
THEOREM ExpiryBoundHolds == Spec => []ExpiryBound
<1>1. WriteInv => ExpiryBound
  BY DEF WriteInv
<1> QED BY <1>1, WriteInvHolds, PTL

\* A stored record changes or goes only by a step of a request that the key of
\* its creator signed for that project, or by the reaper.
THEOREM AuthorisedWritesHolds == Spec => AuthorisedWrites
<1> DEFINE Authorised ==
      \A p \in Stored : projects'[p] # projects[p] =>
       \/ reaper.pc = "remove" /\ reaper.cur = p /\ reaper'.pc # "remove"
       \/ \E q \in Req : /\ req[q].id = p /\ req[q].key = creator[p]
                         /\ req'[q] # req[q]
<1>1. TypeOK /\ WriteInv /\ [Next]_vars => Authorised
  <2> SUFFICES ASSUME TypeOK, WriteInv, [Next]_vars,
                      NEW p \in Stored, projects'[p] # projects[p]
               PROVE  \/ /\ reaper.pc = "remove" /\ reaper.cur = p
                         /\ reaper'.pc # "remove"
                      \/ \E q \in Req : /\ req[q].id = p
                                        /\ req[q].key = creator[p]
                                        /\ req'[q] # req[q]
    OBVIOUS
  <2>1. \/ \E q \in Req : CreateWrite(q) \/ UpdatePut(q) \/ DeleteRemove(q)
        \/ ReaperRemove
    BY DEF Next, Arrive, CreateBegin, UpdateRootFetch, UpdateNameFetch,
         ExtendTtlFetch, DeleteFetch, UploadProbe, PutValueFetch,
         Handle, CreateList, CreateCount, SetProjectOwner,
         UpdateRootManifest, UpdateRootWalk, UpdateGet, DeleteGet,
         DeleteKv, UploadPut, PutValueWrite, RequestFails,
         Reap, ReaperList, ReaperRead, ReaperDeleteGet,
         ReaperBlob, ReaperKv, ReaperDone, ReaperReadFails, ReaperCallFails,
         Tick, Crash, vars, stores
  <2>2. p \in Project /\ creator[p] \in Key
    BY DEF Stored, WriteInv
  <2>3. ASSUME NEW q \in Req, CreateWrite(q) PROVE FALSE
    <3>1. PICK x \in Project : creator[x] = None
                 /\ projects' = [projects EXCEPT ![x] = req[q].rec]
      BY <2>3 DEF CreateWrite, Write
    <3>2. x # p
      BY <2>2, <3>1, KeyIsNotNone
    <3> QED BY <2>2, <3>1, <3>2 DEF TypeOK
  <2>4. ASSUME NEW q \in Req, UpdatePut(q) \/ DeleteRemove(q)
        PROVE  req[q].id = p /\ req[q].key = creator[p] /\ req'[q] # req[q]
    <3>1. req[q].id = p
      BY <2>2, <2>4 DEF UpdatePut, DeleteRemove, Write, TypeOK
    <3>2. req[q].pc \in {"put", "remove"}
      BY <2>4 DEF UpdatePut, DeleteRemove, At
    <3>3. req[q].key = creator[p]
      BY <3>1, <3>2 DEF WriteInv, CarriedOK
    <3>4. req'[q].pc \in {"idle", "delete_all"}
      BY <2>4 DEF UpdatePut, DeleteRemove, Finish, Goto, IdleReq, TypeOK,
                  Request
    <3> QED BY <3>1, <3>2, <3>3, <3>4
  <2>5. CASE ReaperRemove
    BY <2>2, <2>5 DEF ReaperRemove, TypeOK, Sweep
  <2> QED BY <2>1, <2>3, <2>4, <2>5
<1>2. TypeOK /\ WriteInv /\ [Next]_vars => [Authorised]_vars
  BY <1>1
<1> QED BY <1>2, TypeCorrect, WriteInvHolds, PTL DEF Spec, AuthorisedWrites
---------------------------------------------------------------------------
(* The reaper.                                                             *)

\* A step of another task keeps what the sweep relies on, if the records it
\* changes are marked as written.
LEMMA OthersKeepSweepInv ==
  ASSUME TypeOK, TypeOK', SweepInv, UNCHANGED <<reaper, unread>>,
         clock <= clock', touched \subseteq touched',
         \A p \in Stored' \ touched' : projects'[p] = projects[p]
  PROVE  SweepInv'
<1>1. Stored' \ touched' \subseteq Stored \ touched
  BY DEF Stored
<1>2. reaper'.now <= clock'
  BY InstanceType DEF SweepInv, TypeOK, Sweep
<1>3. \A p \in Stored' \ touched' : ExpiredAtStart(p)' <=> ExpiredAtStart(p)
  BY DEF ExpiredAtStart, IsExpired
<1>4. ExpiredIsExpired'
  BY <1>1, <1>3 DEF SweepInv, ExpiredIsExpired
<1>5. ReadIsAccounted'
  BY <1>1, <1>3 DEF SweepInv, ReadIsAccounted
<1>6. SecondPassSpares'
  BY DEF SweepInv, SecondPassSpares
<1> QED BY <1>2, <1>4, <1>5, <1>6 DEF SweepInv

\* Handlers, time and a request's failure: a write marks the project.
LEMMA HandlersMarkWrites ==
  ASSUME TypeOK,
         \/ \E q \in Req : Arrive(q) \/ Handle(q) \/ RequestFails(q)
         \/ Tick \/ UNCHANGED vars
  PROVE  /\ UNCHANGED <<reaper, unread>> /\ clock <= clock'
         /\ faults' \in {faults, faults + 1}
         /\ touched \subseteq touched'
         /\ \A p \in Stored' \ touched' : projects'[p] = projects[p]
<1>1. /\ UNCHANGED <<reaper, unread>> /\ clock <= clock'
      /\ faults' \in {faults, faults + 1}
  <2>1. clock \in Nat
    BY InstanceType DEF TypeOK
  <2>2. ASSUME NEW q \in Req, Arrive(q)
        PROVE  /\ UNCHANGED <<reaper, unread, clock>>
               /\ faults' \in {faults, faults + 1}
    BY <2>2 DEF Arrive, CreateBegin, UpdateRootFetch, UpdateNameFetch,
         ExtendTtlFetch, DeleteFetch, UploadProbe, PutValueFetch, history, bounds
  <2>3. ASSUME NEW q \in Req, Handle(q) \/ RequestFails(q)
        PROVE  /\ UNCHANGED <<reaper, unread, clock>>
               /\ faults' \in {faults, faults + 1}
    BY <2>3 DEF Handle, CreateList, CreateCount, CreateWrite,
         SetProjectOwner, UpdateRootManifest, UpdateRootWalk, UpdateGet,
         UpdatePut, DeleteGet, DeleteRemove, DeleteKv, UploadPut,
         PutValueWrite, RequestFails, history, bounds
  <2>4. CASE Tick
    BY <2>1, <2>4 DEF Tick, history, bounds
  <2>5. CASE UNCHANGED vars
    BY <2>1, <2>5 DEF vars, history, bounds
  <2> QED BY <2>1, <2>2, <2>3, <2>4, <2>5
<1>2. /\ touched \subseteq touched'
      /\ \A p \in Stored' \ touched' : projects'[p] = projects[p]
  <2>1. CASE \E q \in Req : CreateWrite(q) \/ UpdatePut(q)
    <3>1. PICK id, r : id \in Project /\ Write(id, r)
      BY <2>1 DEF CreateWrite, UpdatePut, At, TypeOK, LocalsOK
    <3> QED BY <3>1 DEF Write, Stored, TypeOK
  <2>2. CASE \E q \in Req : DeleteRemove(q)
    <3>1. touched' = touched
      BY <2>2 DEF DeleteRemove, history
    <3>2. \A p \in Project : projects'[p] \in {projects[p], None}
      BY <2>2 DEF DeleteRemove, TypeOK
    <3> QED BY <3>1, <3>2 DEF Stored
  <2>3. CASE UNCHANGED <<projects, touched>>
    BY <2>3
  <2> QED BY <2>1, <2>2, <2>3
     DEF Arrive, CreateBegin, UpdateRootFetch, UpdateNameFetch,
         ExtendTtlFetch, DeleteFetch, UploadProbe, PutValueFetch,
         Handle, CreateList, CreateCount, SetProjectOwner,
         UpdateRootManifest, UpdateRootWalk, UpdateGet, DeleteGet, DeleteKv,
         UploadPut, PutValueWrite, RequestFails, Tick, vars, history, stores
<1> QED BY <1>1, <1>2

LEMMA HandlersKeepSweepInv ==
  ASSUME TypeOK, TypeOK', SweepInv,
         \/ \E q \in Req : Arrive(q) \/ Handle(q) \/ RequestFails(q)
         \/ Tick \/ UNCHANGED vars
  PROVE  SweepInv'
BY HandlersMarkWrites, OthersKeepSweepInv

\* A sweep that sleeps relies on nothing.
LEMMA AsleepKeepsSweepInv ==
  ASSUME TypeOK, TypeOK', reaper' = Asleep
  PROVE  SweepInv'
<1>1. clock' \in Nat
  BY InstanceType DEF TypeOK
<1> QED BY <1>1 DEF SweepInv, Asleep, ExpiredIsExpired, ReadIsAccounted,
                    SecondPassSpares

\* A sweep begins: all is still to be read.
LEMMA ListKeepsSweepInv ==
  ASSUME TypeOK, TypeOK', SweepInv, ReaperList
  PROVE  SweepInv'
<1>1. /\ reaper'.pc = "scan" /\ reaper'.todo = Stored
      /\ reaper'.now = clock /\ reaper'.expired = {}
      /\ clock' = clock /\ projects' = projects
  BY DEF ReaperList, Asleep, stores
<1>2. clock \in Nat
  BY InstanceType DEF TypeOK
<1> QED BY <1>1, <1>2 DEF SweepInv, ExpiredIsExpired, ReadIsAccounted,
                          SecondPassSpares, Stored

\* The first pass reads p: it becomes expired or live, or is exempt.
LEMMA ReadKeepsSweepInv ==
  ASSUME TypeOK, TypeOK', SweepInv, NEW p \in Project,
         ReaperRead(p) \/ ReaperReadFails(p)
  PROVE  SweepInv'
<1>1. /\ UNCHANGED <<projects, clock, touched>>
      /\ unread \subseteq unread'
      /\ reaper \in Sweep /\ reaper.pc = "scan"
  BY DEF ReaperRead, ReaperReadFails, stores, history, TypeOK
<1>2. /\ reaper'.pc = "scan" /\ reaper'.now = reaper.now
      /\ reaper'.todo = reaper.todo \ {p}
      /\ reaper.live \subseteq reaper'.live
      /\ reaper'.expired \subseteq reaper.expired \cup {p}
  <2>1. CASE ReaperRead(p)
    BY <1>1, <2>1 DEF ReaperRead, Partition, Sweep
  <2>2. CASE ReaperReadFails(p)
    BY <1>1, <2>2 DEF ReaperReadFails, Sweep
  <2> QED BY <2>1, <2>2
<1>3. /\ p \in reaper'.expired \ reaper.expired => ExpiredAtStart(p)
      /\ p \in Stored \ unread' =>
           ExpiredAtStart(p) \/ projects[p].blob_cids \subseteq reaper'.live
  BY <1>1 DEF ReaperRead, ReaperReadFails, Partition, Sweep, Stored,
              ExpiredAtStart
<1>4. Stored' = Stored /\ \A x : ExpiredAtStart(x)' <=> ExpiredAtStart(x)
  BY <1>1, <1>2 DEF Stored, ExpiredAtStart
<1>5. ExpiredIsExpired'
  BY <1>1, <1>2, <1>3, <1>4 DEF SweepInv, ExpiredIsExpired
<1>6. ReadIsAccounted'
  BY <1>1, <1>2, <1>3, <1>4 DEF SweepInv, ReadIsAccounted
<1>7. SecondPassSpares'
  BY <1>2 DEF SecondPassSpares
<1>8. reaper'.now <= clock'
  BY <1>1, <1>2 DEF SweepInv
<1> QED BY <1>5, <1>6, <1>7, <1>8 DEF SweepInv

\* The second pass takes up an expired project and dooms none of the live set.
LEMMA DeleteGetKeepsSweepInv ==
  ASSUME TypeOK, TypeOK', SweepInv, NEW p \in Project, ReaperDeleteGet(p)
  PROVE  SweepInv'
<1>1. /\ UNCHANGED <<projects, clock, touched, unread>>
      /\ reaper \in Sweep /\ reaper.pc = "scan" /\ reaper.todo = {}
      /\ p \in reaper.expired
  BY DEF ReaperDeleteGet, stores, history, TypeOK
<1>2. /\ reaper'.now = reaper.now /\ reaper'.todo = reaper.todo
      /\ reaper'.live = reaper.live
      /\ reaper'.expired \subseteq reaper.expired
      /\ reaper'.pc # "sleep"
  BY <1>1 DEF ReaperDeleteGet, Sweep
<1>3. reaper'.pc \in {"remove", "blobs"} =>
        /\ reaper'.cur = p
        /\ reaper'.cids \cap reaper'.live = {}
  BY <1>1 DEF ReaperDeleteGet, Sweep, Doomed
<1>4. Stored' = Stored /\ \A x : ExpiredAtStart(x)' <=> ExpiredAtStart(x)
  BY <1>1, <1>2 DEF Stored, ExpiredAtStart
<1>5. ExpiredIsExpired'
  BY <1>1, <1>2, <1>3, <1>4 DEF SweepInv, ExpiredIsExpired
<1>6. ReadIsAccounted'
  BY <1>1, <1>2, <1>4 DEF SweepInv, ReadIsAccounted
<1>7. SecondPassSpares'
  BY <1>1, <1>2, <1>3 DEF SecondPassSpares
<1>8. reaper'.now <= clock'
  BY <1>1, <1>2 DEF SweepInv
<1> QED BY <1>5, <1>6, <1>7, <1>8 DEF SweepInv

\* The rest of the second pass removes records, and drops from its lists.
LEMMA RemoveKeepsSweepInv ==
  ASSUME TypeOK, TypeOK', SweepInv,
         \/ ReaperRemove \/ (\E c \in Cid : ReaperBlob(c)) \/ ReaperKv
         \/ ReaperCallFails
  PROVE  SweepInv'
<1>1. /\ UNCHANGED <<clock, touched, unread>>
      /\ \A p \in Project : projects'[p] \in {projects[p], None}
      /\ reaper \in Sweep /\ reaper.pc # "sleep"
  BY DEF ReaperRemove, ReaperBlob, ReaperKv, ReaperCallFails, stores, history,
         TypeOK
<1>2. /\ reaper'.now = reaper.now /\ reaper'.todo = reaper.todo
      /\ reaper'.live = reaper.live
      /\ reaper'.expired \subseteq reaper.expired
      /\ reaper'.cids \subseteq reaper.cids
      /\ reaper'.pc \in {"scan", "blobs"}
      /\ reaper'.pc = "blobs" => reaper.pc \in {"remove", "blobs"}
  BY <1>1 DEF ReaperRemove, ReaperBlob, ReaperKv, ReaperCallFails, Sweep
<1>3. /\ Stored' \subseteq Stored
      /\ \A x \in Stored' : projects'[x] = projects[x]
  BY <1>1 DEF Stored
<1>4. \A x \in Stored' : ExpiredAtStart(x)' <=> ExpiredAtStart(x)
  BY <1>2, <1>3 DEF ExpiredAtStart, IsExpired
<1>5. ExpiredIsExpired'
  BY <1>1, <1>2, <1>3, <1>4 DEF SweepInv, ExpiredIsExpired
<1>6. ReadIsAccounted'
  BY <1>1, <1>2, <1>3, <1>4 DEF SweepInv, ReadIsAccounted
<1>7. SecondPassSpares'
  BY <1>1, <1>2 DEF SweepInv, SecondPassSpares
<1>8. reaper'.now <= clock'
  BY <1>1, <1>2 DEF SweepInv
<1> QED BY <1>5, <1>6, <1>7, <1>8 DEF SweepInv

\* What the sweep noted stays true between its passes, except for projects
\* that were written, or could not be read, since it listed them.
THEOREM SweepInvHolds == Spec => []SweepInv
<1>1. Init => SweepInv
  BY DEF Init, SweepInv, Asleep, ExpiredIsExpired, ReadIsAccounted,
         SecondPassSpares, Stored
<1>2. TypeOK /\ TypeOK' /\ SweepInv /\ [Next]_vars => SweepInv'
  <2> SUFFICES ASSUME TypeOK, TypeOK', SweepInv, [Next]_vars PROVE SweepInv'
    OBVIOUS
  <2>1. CASE \/ \E q \in Req : Arrive(q) \/ Handle(q) \/ RequestFails(q)
             \/ Tick \/ UNCHANGED vars
    BY <2>1, HandlersKeepSweepInv
  <2>2. CASE ReaperDone \/ Crash
    BY <2>2, AsleepKeepsSweepInv DEF ReaperDone, Crash
  <2>3. CASE ReaperList
    BY <2>3, ListKeepsSweepInv
  <2>4. ASSUME NEW p \in Project, ReaperRead(p) \/ ReaperReadFails(p)
        PROVE  SweepInv'
    BY <2>4, ReadKeepsSweepInv
  <2>5. ASSUME NEW p \in Project, ReaperDeleteGet(p)
        PROVE  SweepInv'
    BY <2>5, DeleteGetKeepsSweepInv
  <2>6. CASE \/ ReaperRemove \/ (\E c \in Cid : ReaperBlob(c)) \/ ReaperKv
             \/ ReaperCallFails
    BY <2>6, RemoveKeepsSweepInv
  <2> QED BY <2>1, <2>2, <2>3, <2>4, <2>5, <2>6 DEF Next, Reap
<1> QED BY <1>1, <1>2, TypeCorrect, PTL DEF Spec

-----------------------------------------------------------------------------

\* A record that was expired when the sweep began is overdue.
LEMMA ExpiredIsOverdue ==
  ASSUME TypeOK, SweepInv, NEW p \in Stored, ExpiredAtStart(p)
  PROVE  Overdue(p)
<1>1. /\ reaper.now \in Nat /\ clock \in Nat /\ reaper.now <= clock
      /\ projects[p].expires_at \in Nat \cup {None}
  BY InstanceType DEF TypeOK, SweepInv, Sweep, Stored, ProjectRecord
<1> QED BY <1>1 DEF ExpiredAtStart, IsExpired, Overdue

\* The reaper removes no project before its deadline, unless the record was
\* written after the sweep listed it.
THEOREM ReapsOnlyOverdueHolds == Spec => ReapsOnlyOverdue
<1>1. TypeOK /\ SweepInv =>
        [\A p \in Stored \ touched : Reaping(p) => Overdue(p)]_vars
  BY ExpiredIsOverdue DEF Reaping, SweepInv, ExpiredIsExpired
<1> QED BY <1>1, TypeCorrect, SweepInvHolds, PTL DEF ReapsOnlyOverdue

\* The reaper deletes no blob that a project before its deadline lists,
\* unless the record was written, or could not be read, since the sweep
\* listed it.  With RootCoverageHolds, no version of a live project loses a
\* file.
THEOREM KeepsBlobsOfLiveHolds == Spec => KeepsBlobsOfLive
<1>1. TypeOK /\ SweepInv /\ [Next]_vars => LiveBlobsKept(touched \cup unread)
  <2> SUFFICES ASSUME TypeOK, SweepInv, [Next]_vars,
                      NEW c \in blobs \ blobs',
                      NEW p \in Stored \ (touched \cup unread),
                      c \in projects[p].blob_cids
               PROVE  Overdue(p)
    BY DEF LiveBlobsKept
  <2>1. reaper.pc = "blobs" /\ c \in reaper.cids
    BY DEF Next, Arrive, CreateBegin, UpdateRootFetch, UpdateNameFetch,
         ExtendTtlFetch, DeleteFetch, UploadProbe, PutValueFetch,
         Handle, CreateList, CreateCount, CreateWrite, SetProjectOwner,
         UpdateRootManifest, UpdateRootWalk, UpdateGet, UpdatePut, DeleteGet,
         DeleteRemove, DeleteKv, UploadPut, PutValueWrite, RequestFails,
         Reap, ReaperList, ReaperRead, ReaperDeleteGet, ReaperRemove,
         ReaperBlob, ReaperKv, ReaperDone, ReaperReadFails, ReaperCallFails,
         Tick, Crash, vars, stores
  <2>2. c \notin reaper.live /\ reaper.todo = {}
    BY <2>1 DEF SweepInv, SecondPassSpares
  <2>3. ExpiredAtStart(p)
    BY <2>1, <2>2 DEF SweepInv, ReadIsAccounted
  <2> QED BY <2>3, ExpiredIsOverdue
<1>2. TypeOK /\ SweepInv /\ [Next]_vars
        => [LiveBlobsKept(touched \cup unread)]_vars
  BY <1>1
<1> QED BY <1>2, TypeCorrect, SweepInvHolds, PTL DEF Spec, KeepsBlobsOfLive

\* So no version of a live project loses a file: the blobs of its root and of
\* all versions before it stay, as the record lists them all.
VersionsKept ==
  \A c \in blobs \ blobs' : \A p \in Stored \ (touched \cup unread) :
    projects[p].root_cid # None /\ c \in Closure(projects[p].root_cid)
      => Overdue(p)

THEOREM KeepsVersionsOfLive == Spec => [][VersionsKept]_vars
<1>1. RootCoverage /\ [LiveBlobsKept(touched \cup unread)]_vars
        => [VersionsKept]_vars
  BY DEF RootCoverage, Covered, LiveBlobsKept, VersionsKept
<1> QED BY <1>1, RootCoverageHolds, KeepsBlobsOfLiveHolds, PTL
        DEF KeepsBlobsOfLive

\* A failure is counted: none after the step, none before it.
LEMMA FaultsCount ==
  ASSUME TypeOK, [Next]_vars, faults' = 0
  PROVE  /\ faults = 0 /\ ~ ReaperCallFails
         /\ \A p \in Project : ~ ReaperReadFails(p)
<1>1. faults \in Nat /\ faults' \in {faults, faults + 1}
  <2>1. faults \in Nat
    BY InstanceType DEF TypeOK
  <2>2. CASE \/ \E q \in Req : Arrive(q) \/ Handle(q) \/ RequestFails(q)
             \/ Tick \/ UNCHANGED vars
    BY <2>1, <2>2, HandlersMarkWrites
  <2>3. ASSUME Reap PROVE faults' = faults
    BY <2>3 DEF Reap, ReaperList, ReaperRead, ReaperDeleteGet, ReaperRemove,
                ReaperBlob, ReaperKv, ReaperDone, bounds
  <2>4. ASSUME (\E p \in Project : ReaperReadFails(p)) \/ ReaperCallFails
        PROVE  faults' = faults + 1
    BY <2>4, Zenon DEF ReaperReadFails, ReaperCallFails
  <2>5. CASE Crash
    BY <2>5 DEF Crash
  <2> QED BY <2>1, <2>2, <2>3, <2>4, <2>5 DEF Next
<1>2. faults = 0 /\ faults' # faults + 1
  BY <1>1
<1> QED BY <1>2 DEF ReaperCallFails, ReaperReadFails

\* A step after which p is due, in a sweep that was under way before it, found
\* it due, and pending if it was pending before.
LEMMA StillPending ==
  ASSUME TypeOK, TypeOK', [Next]_vars, faults' = 0,
         reaper.pc # "sleep", reaper'.pc # "sleep",
         NEW p \in Project, Due(p)'
  PROVE  Due(p) /\ (Pending(p) => Pending(p)')
<1>1. reaper \in Sweep /\ reaper'.now \in Nat
  BY DEF TypeOK, Sweep
<1>2. ASSUME UNCHANGED reaper, touched \subseteq touched',
             \A x \in Stored' \ touched' : projects'[x] = projects[x]
      PROVE  Due(p) /\ (Pending(p) => Pending(p)')
  BY <1>2 DEF Due, Pending, Stored, ExpiredAtStart
<1>3. CASE \/ \E q \in Req : Arrive(q) \/ Handle(q) \/ RequestFails(q)
           \/ Tick \/ UNCHANGED vars
  BY <1>2, <1>3, HandlersMarkWrites
<1>4. CASE ReaperList \/ ReaperDone \/ Crash
  BY <1>4 DEF ReaperList, ReaperDone, Crash, Asleep
<1>5. ASSUME NEW x \in Project, ReaperRead(x)
      PROVE  Due(p) /\ (Pending(p) => Pending(p)')
  <2>1. /\ UNCHANGED <<projects, touched>>
        /\ reaper.pc = "scan" /\ reaper'.pc = "scan"
        /\ reaper'.now = reaper.now /\ reaper'.todo = reaper.todo \ {x}
        /\ reaper.expired \subseteq reaper'.expired
    BY <1>1, <1>5 DEF ReaperRead, Partition, Sweep, stores, history
  <2>2. Due(p)
    BY <2>1 DEF Due, Stored, ExpiredAtStart
  <2>3. x = p => p \in reaper'.expired
    BY <1>1, <1>5, <2>2 DEF ReaperRead, Partition, Sweep, Due, Stored,
                            ExpiredAtStart
  <2> QED BY <2>1, <2>2, <2>3 DEF Pending
<1>6. ASSUME NEW x \in Project, ReaperDeleteGet(x)
      PROVE  Due(p) /\ (Pending(p) => Pending(p)')
  <2>1. /\ UNCHANGED <<projects, touched>> /\ reaper.pc = "scan"
        /\ reaper'.now = reaper.now /\ reaper'.todo = reaper.todo
        /\ reaper'.expired = reaper.expired \ {x}
        /\ projects[x] # None => reaper'.pc = "remove" /\ reaper'.cur = x
    BY <1>1, <1>6 DEF ReaperDeleteGet, Sweep, stores, history
  <2>2. Due(p) /\ projects[p] # None
    BY <2>1 DEF Due, Stored, ExpiredAtStart
  <2> QED BY <2>1, <2>2 DEF Pending
<1>7. CASE ReaperRemove
  <2>1. /\ touched' = touched /\ reaper.pc = "remove"
        /\ reaper'.now = reaper.now /\ reaper'.todo = reaper.todo
        /\ reaper'.expired = reaper.expired
        /\ projects' = [projects EXCEPT ![reaper.cur] = None]
    BY <1>1, <1>7 DEF ReaperRemove, Sweep, history
  <2>2. reaper.cur \in Project
    BY <2>1 DEF TypeOK
  <2>3. p # reaper.cur /\ projects'[p] = projects[p]
    BY <2>1, <2>2 DEF Due, Stored, TypeOK
  <2>4. Due(p)
    BY <2>1, <2>3 DEF Due, Stored, ExpiredAtStart
  <2> QED BY <2>1, <2>3, <2>4 DEF Pending
<1>8. CASE (\E c \in Cid : ReaperBlob(c)) \/ ReaperKv
  <2>1. /\ UNCHANGED <<projects, touched>> /\ reaper.pc = "blobs"
        /\ reaper'.now = reaper.now /\ reaper'.todo = reaper.todo
        /\ reaper'.expired = reaper.expired
    BY <1>1, <1>8 DEF ReaperBlob, ReaperKv, Sweep, history
  <2>2. Due(p)
    BY <2>1 DEF Due, Stored, ExpiredAtStart
  <2> QED BY <2>1, <2>2 DEF Pending
<1> QED BY <1>3, <1>4, <1>5, <1>6, <1>7, <1>8, FaultsCount DEF Next, Reap

\* While no call has failed, the sweep drops no project that was due when it
\* began and that nobody has written since.
THEOREM NoneDroppedHolds == Spec => []NoneDropped
<1>1. Init => NoneDropped
  BY DEF Init, Asleep, NoneDropped
<1>2. TypeOK /\ TypeOK' /\ NoneDropped /\ [Next]_vars => NoneDropped'
  <2> SUFFICES ASSUME TypeOK, TypeOK', NoneDropped, [Next]_vars,
                      faults' = 0, reaper'.pc # "sleep",
                      NEW p \in Project, Due(p)'
               PROVE  Pending(p)'
    BY DEF NoneDropped
  <2>1. faults = 0
    BY FaultsCount
  <2>2. CASE reaper.pc = "sleep"
    <3>1. CASE \/ \E q \in Req : Arrive(q) \/ Handle(q) \/ RequestFails(q)
               \/ Tick \/ UNCHANGED vars
      BY <2>2, <3>1, HandlersMarkWrites
    <3>2. CASE ReaperList
      BY <3>2 DEF ReaperList, Asleep, Due, Pending, Stored, stores
    <3>3. CASE (\E x \in Project : ReaperRead(x) \/ ReaperDeleteGet(x)
                                    \/ ReaperReadFails(x))
               \/ ReaperRemove \/ (\E c \in Cid : ReaperBlob(c)) \/ ReaperKv
               \/ ReaperDone \/ ReaperCallFails
      BY <2>2, <3>3 DEF ReaperRead, ReaperDeleteGet, ReaperReadFails,
         ReaperRemove, ReaperBlob, ReaperKv, ReaperDone, ReaperCallFails
    <3>4. CASE Crash
      BY <3>4 DEF Crash, Asleep
    <3> QED BY <3>1, <3>2, <3>3, <3>4 DEF Next, Reap
  <2>3. CASE reaper.pc # "sleep"
    BY <2>1, <2>3, StillPending DEF NoneDropped
  <2> QED BY <2>2, <2>3
<1> QED BY <1>1, <1>2, TypeCorrect, PTL DEF Spec

\* A sweep in which no call failed ends with no project left that was due when
\* it began, unless its record was written meanwhile.
THEOREM SweepIsCompleteHolds == Spec => SweepIsComplete
<1> DEFINE Complete ==
      faults = 0 /\ crashes' = crashes /\ reaper.pc # "sleep"
        /\ reaper'.pc = "sleep" => \A p \in Project : ~ Due(p)
<1>1. TypeOK /\ NoneDropped /\ [Next]_vars => Complete
  <2> SUFFICES ASSUME TypeOK, NoneDropped, [Next]_vars, faults = 0,
                      crashes' = crashes, reaper.pc # "sleep",
                      reaper'.pc = "sleep"
               PROVE  \A p \in Project : ~ Due(p)
    OBVIOUS
  <2>1. reaper \in Sweep /\ crashes \in Nat
    BY InstanceType DEF TypeOK
  <2>2. CASE \/ \E q \in Req : Arrive(q) \/ Handle(q) \/ RequestFails(q)
             \/ Tick \/ UNCHANGED vars
    BY <2>2, HandlersMarkWrites
  <2>3. CASE ReaperList \/ Crash
    BY <2>1, <2>3 DEF ReaperList, Crash
  <2>4. CASE \E p \in Project : ReaperRead(p) \/ ReaperDeleteGet(p)
                                  \/ ReaperReadFails(p)
    BY <2>1, <2>4 DEF ReaperRead, ReaperDeleteGet, ReaperReadFails, Partition,
                      Sweep
  <2>5. CASE ReaperRemove \/ (\E c \in Cid : ReaperBlob(c)) \/ ReaperKv
               \/ ReaperCallFails
    BY <2>1, <2>5 DEF ReaperRemove, ReaperBlob, ReaperKv, ReaperCallFails, Sweep
  <2>6. CASE ReaperDone
    BY <2>6 DEF ReaperDone, NoneDropped, Pending
  <2> QED BY <2>2, <2>3, <2>4, <2>5, <2>6 DEF Next, Reap
<1>2. TypeOK /\ NoneDropped /\ [Next]_vars => [Complete]_vars
  BY <1>1
<1> QED BY <1>2, TypeCorrect, NoneDroppedHolds, PTL DEF Spec, SweepIsComplete

-----------------------------------------------------------------------------
(* The quota.                                                              *)

LEMMA UserIsNotNone == None \notin User
BY NoneIsNoValue

\* One element more counts at most one more.
LEMMA OneMore ==
  ASSUME NEW S, IsFiniteSet(S), NEW x
  PROVE  IsFiniteSet(S \cup {x}) /\ Cardinality(S \cup {x}) <= Cardinality(S) + 1
<1>1. Cardinality(S) \in Nat
  BY FS_CardinalityType
<1>2. /\ IsFiniteSet(S \cup {x})
      /\ Cardinality(S \cup {x}) = Cardinality(S)
           \/ Cardinality(S \cup {x}) = Cardinality(S) + 1
  BY FS_AddElement
<1>3. ASSUME NEW n \in Nat, NEW m, m = n \/ m = n + 1 PROVE m <= n + 1
  BY <1>3
<1> QED BY <1>1, <1>2, <1>3

\* What is counted is finite.
LEMMA ClaimedFinite ==
  ASSUME TypeOK, NEW u \in User
  PROVE  /\ Claimed(u) \subseteq Project /\ IsFiniteSet(Claimed(u))
         /\ IsFiniteSet(Admitted(u))
         /\ Cardinality(Claimed(u)) \in Nat /\ Cardinality(Admitted(u)) \in Nat
<1>1. \A q \in Req : ComesBy(q, u) => req[q].id \in Project
  BY DEF TypeOK, LocalsOK, ComesBy, At
<1>2. Claimed(u) \subseteq Project /\ Admitted(u) \subseteq Req
  BY <1>1 DEF Claimed, Owned, Stored, Admitted
<1>3. IsFiniteSet(Claimed(u)) /\ IsFiniteSet(Admitted(u))
  BY <1>2, InstanceType, FS_Subset
<1> QED BY <1>2, <1>3, FS_CardinalityType

\* The bound of QuotaInv for one user.
Within(u) ==
  Cardinality(Claimed(u)) + Cardinality(Admitted(u))
    <= MaxProjects[u] + Cardinality(Req) - 1

\* A user who claims no more than before stays within it.
LEMMA LessIsWithin ==
  ASSUME TypeOK, NEW u \in User, Within(u), TypeOK',
         Claimed(u)' \subseteq Claimed(u), Admitted(u)' \subseteq Admitted(u)
  PROVE  Within(u)'
<1>1. /\ IsFiniteSet(Claimed(u)) /\ IsFiniteSet(Admitted(u))
      /\ Cardinality(Claimed(u)) \in Nat /\ Cardinality(Admitted(u)) \in Nat
  BY ClaimedFinite
<1>2. /\ Cardinality(Claimed(u)') <= Cardinality(Claimed(u))
      /\ Cardinality(Admitted(u)') <= Cardinality(Admitted(u))
      /\ IsFiniteSet(Claimed(u)') /\ IsFiniteSet(Admitted(u)')
  BY <1>1, FS_Subset
<1>3. Cardinality(Claimed(u)') \in Nat /\ Cardinality(Admitted(u)') \in Nat
  BY <1>2, FS_CardinalityType
<1>4. Cardinality(Req) \in Nat /\ MaxProjects[u] \in Nat
  BY InstanceType, PolicyType, FS_CardinalityType
<1> QED BY <1>1, <1>2, <1>3, <1>4 DEF Within

\* A handler that moves on: it is admitted only if it was, and it carries a
\* record only of a project that is stored.
LEMMA GotoQuota ==
  ASSUME TypeOK, TypeOK', QuotaInv, NEW q \in Req, NEW r, Goto(q, r),
         UNCHANGED <<projects, owner, creator>>,
         r.pc \notin {"count", "owner"},
         r.pc = "put" => r.id \in Stored,
         \A u \in User : r.pc = "create" /\ r.caller = u /\ MaxProjects[u] > 0
                          => q \in Admitted(u)
  PROVE  QuotaInv'
<1>1. \A x \in Req : req'[x] = IF x = q THEN r ELSE req[x]
  BY DEF Goto, TypeOK
<1>2. Stored' = Stored /\ \A u \in User : Owned(u)' = Owned(u)
  BY DEF Stored, Owned
<1>3. ASSUME NEW u \in User, MaxProjects[u] > 0 PROVE Within(u)'
  <2>1. Within(u)
    BY <1>3 DEF QuotaInv, Within
  <2>2. \A x \in Req \ {q} : ComesBy(x, u)' <=> ComesBy(x, u)
    BY <1>1 DEF ComesBy, At
  <2>3. ComesBy(q, u)' => r.id \in Owned(u)
    BY <1>1 DEF ComesBy, At, Owned
  <2>4. Claimed(u)' \subseteq Claimed(u)
    BY <1>1, <1>2, <2>2, <2>3 DEF Claimed
  <2>5. ASSUME NEW x \in Admitted(u)' PROVE x \in Admitted(u)
    <3>1. x \in Req
      BY <2>5 DEF Admitted
    <3>2. CASE x = q
      BY <1>1, <1>3, <2>5, <3>1, <3>2 DEF Admitted, At
    <3>3. CASE x # q
      BY <1>1, <2>5, <3>1, <3>3 DEF Admitted, At, UnderQuota
    <3> QED BY <3>2, <3>3
  <2> QED BY <2>1, <2>4, <2>5, LessIsWithin
<1>4. /\ \A p \in Project : creator'[p] = None => owner'[p] = None
      /\ \A x \in Req : At(x, "owner")' => creator'[req'[x].id] # None
  BY <1>1 DEF QuotaInv, At
<1> QED BY <1>3, <1>4 DEF QuotaInv, Within

LEMMA FinishQuota ==
  ASSUME TypeOK, TypeOK', QuotaInv, NEW q \in Req, Finish(q),
         UNCHANGED <<projects, owner, creator>>
  PROVE  QuotaInv'
BY GotoQuota DEF Finish, IdleReq

LEMMA ArriveQuota ==
  ASSUME TypeOK, TypeOK', QuotaInv, NEW q \in Req, Arrive(q)
  PROVE  QuotaInv'
<1>1. UNCHANGED <<projects, owner, creator>>
  BY DEF Arrive, CreateBegin, UpdateRootFetch, UpdateNameFetch, ExtendTtlFetch,
         DeleteFetch, UploadProbe, PutValueFetch, stores, history
<1>2. ASSUME NEW r, Goto(q, r), r.pc \in {"list", "manifest", "get", "delete_get",
                                         "blob_put", "kv_put"}
      PROVE  QuotaInv'
  BY <1>1, <1>2, GotoQuota
<1>3. CASE CreateBegin(q)
  <2>1. PICK key \in Key, c \in Caller, ttl \in Ttl, name \in Name \cup {None} :
       Goto(q, [IdleReq EXCEPT !.op = "create",
                  !.pc = IF Limited(c) THEN "list" ELSE "create",
                  !.key = key, !.caller = c,
                  !.rec = NewRecord(key, c, ttl, name)])
    BY <1>3 DEF CreateBegin
  <2> DEFINE r == [IdleReq EXCEPT !.op = "create",
                     !.pc = IF Limited(c) THEN "list" ELSE "create",
                     !.key = key, !.caller = c,
                     !.rec = NewRecord(key, c, ttl, name)]
  <2>2. r.pc = (IF Limited(c) THEN "list" ELSE "create") /\ r.caller = c
    BY DEF IdleReq
  <2>3. Goto(q, r)
    BY <2>1
  <2> HIDE DEF r
  <2>4. CASE Limited(c)
    BY <1>2, <2>2, <2>3, <2>4
  <2>5. CASE ~ Limited(c)
    <3>1. \A u \in User : r.caller = u => ~ (MaxProjects[u] > 0)
      BY <2>2, <2>5, UserIsNotNone DEF Limited
    <3>2. r.pc = "create"
      BY <2>2, <2>5
    <3> QED BY <1>1, <2>3, <3>1, <3>2, GotoQuota
  <2> QED BY <2>4, <2>5
<1>4. CASE UpdateRootFetch(q) \/ DeleteFetch(q) \/ UploadProbe(q) \/ PutValueFetch(q)
  <2>1. CASE UpdateRootFetch(q)
    <3>1. PICK id \in Stored, key \in Key, caller \in Caller, cid \in Cid :
            Goto(q, [IdleReq EXCEPT !.op = "update_root", !.pc = "manifest",
                       !.id = id, !.key = key, !.caller = caller, !.next = cid])
      BY <2>1 DEF UpdateRootFetch
    <3>2. [IdleReq EXCEPT !.op = "update_root", !.pc = "manifest",
             !.id = id, !.key = key, !.caller = caller, !.next = cid].pc = "manifest"
      BY DEF IdleReq
    <3> QED BY <1>2, <3>1, <3>2
  <2>2. CASE DeleteFetch(q)
    <3>1. PICK id \in Stored, key \in Key :
            Goto(q, [IdleReq EXCEPT !.op = "delete", !.pc = "delete_get",
                       !.id = id, !.key = key])
      BY <2>2 DEF DeleteFetch
    <3>2. [IdleReq EXCEPT !.op = "delete", !.pc = "delete_get",
             !.id = id, !.key = key].pc = "delete_get"
      BY DEF IdleReq
    <3> QED BY <1>2, <3>1, <3>2
  <2>3. CASE UploadProbe(q)
    <3>1. PICK c \in Cid : Goto(q, [IdleReq EXCEPT !.op = "upload",
                                     !.pc = "blob_put", !.next = c])
      BY <2>3 DEF UploadProbe
    <3>2. [IdleReq EXCEPT !.op = "upload", !.pc = "blob_put", !.next = c].pc
            = "blob_put"
      BY DEF IdleReq
    <3> QED BY <1>2, <3>1, <3>2
  <2>4. CASE PutValueFetch(q)
    <3>1. PICK id \in Stored : Goto(q, [IdleReq EXCEPT !.op = "put_value",
                                          !.pc = "kv_put", !.id = id])
      BY <2>4 DEF PutValueFetch
    <3>2. [IdleReq EXCEPT !.op = "put_value", !.pc = "kv_put", !.id = id].pc
            = "kv_put"
      BY DEF IdleReq
    <3> QED BY <1>2, <3>1, <3>2
  <2> QED BY <1>4, <2>1, <2>2, <2>3, <2>4
<1>5. CASE UpdateNameFetch(q) \/ ExtendTtlFetch(q)
  <2>1. CASE UpdateNameFetch(q)
    <3>1. PICK id \in Stored, key \in Key, name \in Name \cup {None} :
            Goto(q, [IdleReq EXCEPT !.op = "update_name", !.pc = "get",
                     !.id = id, !.key = key,
                     !.rec = [EmptyRecord EXCEPT !.name = name]])
      BY <2>1 DEF UpdateNameFetch
    <3> DEFINE rec == [EmptyRecord EXCEPT !.name = name]
    <3> HIDE DEF rec
    <3>2. [IdleReq EXCEPT !.op = "update_name", !.pc = "get",
             !.id = id, !.key = key, !.rec = rec].pc = "get"
      BY DEF IdleReq
    <3> QED BY <1>2, <3>1, <3>2 DEF rec
  <2>2. CASE ExtendTtlFetch(q)
    <3>1. PICK id \in Stored, key \in Key, c \in Caller, ttl \in Ttl :
            Goto(q, [IdleReq EXCEPT !.op = "extend_ttl", !.pc = "get",
                     !.id = id, !.key = key, !.caller = c,
                     !.rec = [EmptyRecord EXCEPT
                               !.expires_at = ExpiryFor(c, ttl)]])
      BY <2>2 DEF ExtendTtlFetch
    <3> DEFINE rec == [EmptyRecord EXCEPT !.expires_at = ExpiryFor(c, ttl)]
    <3> HIDE DEF rec
    <3>2. [IdleReq EXCEPT !.op = "extend_ttl", !.pc = "get",
             !.id = id, !.key = key, !.caller = c, !.rec = rec].pc = "get"
      BY DEF IdleReq
    <3> QED BY <1>2, <3>1, <3>2 DEF rec
  <2> QED BY <1>5, <2>1, <2>2
<1> QED BY <1>3, <1>4, <1>5 DEF Arrive

\* The count that admits a creation is of the projects stored when it listed
\* them: then its user is within the quota, and each other request adds one.
LEMMA CountedWithin ==
  ASSUME TypeOK, NEW q \in Req, At(q, "list"), NEW u \in User,
         UnderQuota(u, Stored)
  PROVE  Cardinality(Claimed(u)) + Cardinality(Admitted(u)) + 1
           <= MaxProjects[u] + Cardinality(Req) - 1
<1> DEFINE comers == {x \in Req : ComesBy(x, u)}
           ids == {req[x].id : x \in comers}
           others == Req \ {q}
<1>1. /\ IsFiniteSet(comers) /\ IsFiniteSet(Admitted(u)) /\ IsFiniteSet(others)
      /\ Cardinality(others) = Cardinality(Req) - 1
      /\ Cardinality(Req) \in Nat
  <2>1. comers \subseteq Req /\ Admitted(u) \subseteq Req
    BY DEF Admitted
  <2>2. IsFiniteSet(comers) /\ IsFiniteSet(Admitted(u))
    BY <2>1, InstanceType, FS_Subset
  <2>3. IsFiniteSet(others) /\ Cardinality(others) = Cardinality(Req) - 1
    BY InstanceType, FS_RemoveElement
  <2> QED BY <2>2, <2>3, InstanceType, FS_CardinalityType
<1>2. Cardinality(comers) + Cardinality(Admitted(u)) <= Cardinality(Req) - 1
  <2>1. comers \cap Admitted(u) = {} /\ comers \cup Admitted(u) \subseteq others
    BY DEF ComesBy, Admitted, At
  <2>2. /\ Cardinality(comers \cup Admitted(u)) =
             Cardinality(comers) + Cardinality(Admitted(u)) - Cardinality({})
    BY <1>1, <2>1, FS_Union
  <2>3. Cardinality({}) = 0
    BY FS_EmptySet
  <2>4. Cardinality(comers \cup Admitted(u)) <= Cardinality(others)
    BY <1>1, <2>1, FS_Subset
  <2>5. Cardinality(comers) \in Nat /\ Cardinality(Admitted(u)) \in Nat
    BY <1>1, FS_CardinalityType
  <2> QED BY <1>1, <2>2, <2>3, <2>4, <2>5
<1>3. IsFiniteSet(ids) /\ Cardinality(ids) <= Cardinality(comers)
  <2> DEFINE f == [x \in comers |-> req[x].id]
  <2>1. f \in Surjection(comers, ids)
    BY DEF Surjection
  <2> QED BY <1>1, <2>1, FS_Surjection
<1>4. IsFiniteSet(Owned(u)) /\ Cardinality(Owned(u)) < MaxProjects[u]
  <2>1. Owned(u) \subseteq Project
    BY DEF Owned, Stored
  <2>2. IsFiniteSet(Owned(u))
    BY <2>1, InstanceType, FS_Subset
  <2> QED BY <2>2 DEF UnderQuota, Owned
<1>5. Cardinality(Claimed(u)) <= Cardinality(Owned(u)) + Cardinality(ids)
  <2>1. Claimed(u) = Owned(u) \cup ids
    BY DEF Claimed
  <2>2. Cardinality(Owned(u) \cup ids) =
          Cardinality(Owned(u)) + Cardinality(ids) - Cardinality(Owned(u) \cap ids)
    BY <1>3, <1>4, FS_Union
  <2>3. IsFiniteSet(Owned(u) \cap ids)
    BY <1>4, FS_Intersection
  <2>4. /\ Cardinality(Owned(u)) \in Nat /\ Cardinality(ids) \in Nat
        /\ Cardinality(Owned(u) \cap ids) \in Nat
    BY <1>3, <1>4, <2>3, FS_CardinalityType
  <2> QED BY <2>1, <2>2, <2>4
<1>6. /\ Cardinality(Claimed(u)) \in Nat /\ Cardinality(Admitted(u)) \in Nat
      /\ Cardinality(Owned(u)) \in Nat /\ Cardinality(ids) \in Nat
      /\ Cardinality(comers) \in Nat /\ MaxProjects[u] \in Nat
  BY <1>1, <1>3, <1>4, ClaimedFinite, FS_CardinalityType, PolicyType
<1> HIDE DEF comers, ids
<1> QED BY <1>1, <1>2, <1>3, <1>4, <1>5, <1>6

LEMMA CreateListQuota ==
  ASSUME TypeOK, TypeOK', QuotaInv, NEW q \in Req, CreateList(q)
  PROVE  QuotaInv'
<1> DEFINE r == [req[q] EXCEPT !.pc = "count", !.seen = Stored]
<1>1. r.pc = "count" /\ r.caller = req[q].caller /\ r.seen = Stored
  BY DEF TypeOK, Request
<1>2. Goto(q, r) /\ UNCHANGED <<projects, owner, creator>>
  BY DEF CreateList, stores, history
<1> HIDE DEF r
<1>3. \A x \in Req : req'[x] = IF x = q THEN r ELSE req[x]
  BY <1>2 DEF Goto, TypeOK
<1>4. Stored' = Stored /\ \A u \in User : Owned(u)' = Owned(u)
  BY <1>2 DEF Stored, Owned
<1>5. ASSUME NEW u \in User, MaxProjects[u] > 0 PROVE Within(u)'
  <2>1. Within(u)
    BY <1>5 DEF QuotaInv, Within
  <2>2. \A x \in Req : ComesBy(x, u)' => x # q /\ ComesBy(x, u)
    BY <1>1, <1>2, <1>3 DEF ComesBy, At
  <2>3. Claimed(u)' \subseteq Claimed(u)
    BY <1>3, <1>4, <2>2 DEF Claimed
  <2>4. Admitted(u)' \subseteq Admitted(u) \cup {q}
    BY <1>2, <1>3 DEF Admitted, At, UnderQuota
  <2>5. CASE q \in Admitted(u)'
    <3>1. UnderQuota(u, Stored)
      BY <1>1, <1>2, <1>3, <2>5 DEF Admitted, At, UnderQuota
    <3>2. Cardinality(Claimed(u)) + Cardinality(Admitted(u)) + 1
            <= MaxProjects[u] + Cardinality(Req) - 1
      BY <3>1, CountedWithin DEF CreateList
    <3>3. /\ IsFiniteSet(Claimed(u)) /\ IsFiniteSet(Admitted(u))
          /\ Cardinality(Claimed(u)) \in Nat /\ Cardinality(Admitted(u)) \in Nat
      BY ClaimedFinite
    <3>4. /\ IsFiniteSet(Admitted(u) \cup {q})
          /\ Cardinality(Admitted(u) \cup {q}) <= Cardinality(Admitted(u)) + 1
      BY <3>3, OneMore
    <3>5. /\ IsFiniteSet(Claimed(u)') /\ IsFiniteSet(Admitted(u)')
          /\ Cardinality(Claimed(u)') <= Cardinality(Claimed(u))
          /\ Cardinality(Admitted(u)') <= Cardinality(Admitted(u) \cup {q})
      BY <2>3, <2>4, <3>3, <3>4, FS_Subset
    <3>6. /\ Cardinality(Claimed(u)') \in Nat /\ Cardinality(Admitted(u)') \in Nat
          /\ Cardinality(Admitted(u) \cup {q}) \in Nat
          /\ Cardinality(Req) \in Nat /\ MaxProjects[u] \in Nat
      BY <3>4, <3>5, FS_CardinalityType, InstanceType, PolicyType
    <3> QED BY <3>2, <3>3, <3>4, <3>5, <3>6 DEF Within
  <2>6. CASE q \notin Admitted(u)'
    BY <2>1, <2>3, <2>4, <2>6, LessIsWithin
  <2> QED BY <2>5, <2>6
<1>6. /\ \A p \in Project : creator'[p] = None => owner'[p] = None
      /\ \A x \in Req : At(x, "owner")' => creator'[req'[x].id] # None
  BY <1>1, <1>2, <1>3 DEF QuotaInv, At
<1> QED BY <1>5, <1>6 DEF QuotaInv, Within

\* The project that an admitted request creates takes its place.
LEMMA CreateWriteQuota ==
  ASSUME TypeOK, TypeOK', QuotaInv, NEW q \in Req, CreateWrite(q)
  PROVE  QuotaInv'
<1>1. PICK p \in Project :
        /\ creator[p] = None
        /\ creator' = [creator EXCEPT ![p] = req[q].key]
        /\ projects' = [projects EXCEPT ![p] = req[q].rec]
        /\ IF req[q].caller = None
           THEN Finish(q)
           ELSE Goto(q, [req[q] EXCEPT !.pc = "owner", !.id = p])
  BY DEF CreateWrite, Write
<1> DEFINE r == req'[q]
           c == req[q].caller
<1>2. req[q].key \in Key /\ req[q] \in Request /\ At(q, "create")
  BY DEF CreateWrite, At, TypeOK, LocalsOK
<1>3. /\ \A x \in Req \ {q} : req'[x] = req[x]
      /\ \/ r.pc = "owner" /\ r.id = p /\ r.caller = c
         \/ r.pc = "idle"
  <2>1. DOMAIN req = Req
    BY DEF TypeOK
  <2>2. CASE c = None
    BY <1>1, <2>1, <2>2 DEF Finish, Goto, IdleReq
  <2>3. CASE c # None
    <3>1. /\ [req[q] EXCEPT !.pc = "owner", !.id = p].pc = "owner"
          /\ [req[q] EXCEPT !.pc = "owner", !.id = p].id = p
          /\ [req[q] EXCEPT !.pc = "owner", !.id = p].caller = c
      BY <1>2 DEF Request
    <3> QED BY <1>1, <2>1, <2>3, <3>1 DEF Goto
  <2> QED BY <2>2, <2>3
<1> HIDE DEF r, c
<1>4. owner' = owner /\ owner[p] = None
  BY <1>1 DEF CreateWrite, QuotaInv
<1>5. Stored' \subseteq Stored \cup {p}
  BY <1>1 DEF Stored, TypeOK
<1>6. ASSUME NEW u \in User, MaxProjects[u] > 0 PROVE Within(u)'
  <2>1. Within(u)
    BY <1>6 DEF QuotaInv, Within
  <2>2. Owned(u)' \subseteq Owned(u)
    BY <1>4, <1>5, UserIsNotNone DEF Owned
  <2>3. \A x \in Req \ {q} : ComesBy(x, u)' => ComesBy(x, u)
    BY <1>3, <1>4 DEF ComesBy, At
  <2>4. ComesBy(q, u)' => c = u /\ r.id = p
    BY <1>3 DEF ComesBy, At, r
  <2>5. Admitted(u)' \subseteq Admitted(u) \ {q}
    BY <1>3, <1>4 DEF Admitted, At, UnderQuota, r
  <2>6. CASE c = u
    <3>1. q \in Admitted(u)
      BY <1>2, <2>6 DEF Admitted, c
    <3>2. Claimed(u)' \subseteq Claimed(u) \cup {p}
      BY <1>3, <2>2, <2>3, <2>4 DEF Claimed, r
    <3>3. /\ IsFiniteSet(Claimed(u)) /\ IsFiniteSet(Admitted(u))
          /\ Cardinality(Claimed(u)) \in Nat /\ Cardinality(Admitted(u)) \in Nat
      BY ClaimedFinite
    <3>4. /\ IsFiniteSet(Claimed(u) \cup {p}) /\ IsFiniteSet(Admitted(u) \ {q})
          /\ Cardinality(Claimed(u) \cup {p}) <= Cardinality(Claimed(u)) + 1
          /\ Cardinality(Admitted(u) \ {q}) = Cardinality(Admitted(u)) - 1
      BY <3>1, <3>3, OneMore, FS_RemoveElement
    <3>5. /\ IsFiniteSet(Claimed(u)') /\ IsFiniteSet(Admitted(u)')
          /\ Cardinality(Claimed(u)') <= Cardinality(Claimed(u) \cup {p})
          /\ Cardinality(Admitted(u)') <= Cardinality(Admitted(u) \ {q})
      BY <2>5, <3>2, <3>4, FS_Subset
    <3>6. /\ Cardinality(Claimed(u)') \in Nat /\ Cardinality(Admitted(u)') \in Nat
          /\ Cardinality(Claimed(u) \cup {p}) \in Nat
          /\ Cardinality(Req) \in Nat /\ MaxProjects[u] \in Nat
      BY <3>4, <3>5, FS_CardinalityType, InstanceType, PolicyType
    <3> QED BY <2>1, <3>3, <3>4, <3>5, <3>6 DEF Within
  <2>7. CASE c # u
    <3>1. Claimed(u)' \subseteq Claimed(u)
      BY <1>3, <2>2, <2>3, <2>4, <2>7 DEF Claimed
    <3> QED BY <2>1, <2>5, <3>1, LessIsWithin
  <2> QED BY <2>6, <2>7
<1>7. \A x \in Project : creator'[x] = None => owner'[x] = None
  BY <1>1, <1>4 DEF QuotaInv, TypeOK
<1>8. creator'[p] # None
  BY <1>1, <1>2, KeyIsNotNone DEF TypeOK
<1>9. \A x \in Req : At(x, "owner")' => creator'[req'[x].id] # None
  <2>1. \A x \in Project : creator[x] # None => creator'[x] # None
    BY <1>1, <1>8 DEF TypeOK
  <2>2. \A x \in Req : At(x, "owner") => req[x].id \in Project
    BY DEF TypeOK, LocalsOK, At
  <2> QED BY <1>3, <1>8, <2>1, <2>2 DEF QuotaInv, At, r
<1> QED BY <1>6, <1>7, <1>9 DEF QuotaInv, Within

\* The row makes the owner's what its request stood for.
LEMMA SetProjectOwnerQuota ==
  ASSUME TypeOK, TypeOK', QuotaInv, NEW q \in Req, SetProjectOwner(q)
  PROVE  QuotaInv'
<1> DEFINE id == req[q].id
           c == req[q].caller
<1>1. /\ id \in Project /\ c \in User /\ At(q, "owner") /\ creator[id] # None
      /\ UNCHANGED <<projects, creator>>
  BY DEF SetProjectOwner, At, TypeOK, LocalsOK, QuotaInv, history
<1>2. \A p \in Project :
        owner'[p] = owner[p] \/ (p = id /\ owner[p] = None /\ owner'[p] = c)
  BY DEF SetProjectOwner, TypeOK
<1>3. req'[q].pc = "idle" /\ \A x \in Req \ {q} : req'[x] = req[x]
  BY DEF SetProjectOwner, Finish, Goto, IdleReq, TypeOK
<1>4. ASSUME NEW u \in User, MaxProjects[u] > 0 PROVE Within(u)'
  <2>1. Within(u)
    BY <1>4 DEF QuotaInv, Within
  <2>2. \A p \in Project : owner'[p] = u => owner[p] = u \/ (p = id /\ c = u)
    BY <1>2
  <2>3. c = u => id \in Claimed(u)
    BY <1>1 DEF Claimed, ComesBy
  <2>4. Owned(u)' \subseteq Claimed(u)
    BY <1>1, <2>2, <2>3 DEF Claimed, Owned, Stored
  <2>5. ASSUME NEW x \in Req, ComesBy(x, u)' PROVE req'[x].id \in Claimed(u)
    <3>1. x # q /\ req'[x] = req[x]
      BY <1>3, <2>5 DEF ComesBy, At
    <3>2. CASE At(x, "put")
      <4>1. req[x].id \in Project /\ owner'[req[x].id] = u
        BY <2>5, <3>1, <3>2 DEF ComesBy, At, TypeOK, LocalsOK
      <4> QED BY <2>2, <2>3, <3>1, <3>2, <4>1 DEF Claimed, ComesBy
    <3>3. CASE At(x, "owner")
      BY <2>5, <3>1, <3>3 DEF Claimed, ComesBy, At
    <3> QED BY <2>5, <3>1, <3>2, <3>3 DEF ComesBy, At
  <2>6. Claimed(u)' \subseteq Claimed(u)
    BY <2>4, <2>5 DEF Claimed
  <2>7. ASSUME NEW x \in Admitted(u)' PROVE x \in Admitted(u)
    <3>1. x \in Req /\ x # q /\ req'[x] = req[x]
      BY <1>3, <2>7 DEF Admitted, At
    <3>2. CASE At(x, "create")
      BY <2>7, <3>1, <3>2 DEF Admitted
    <3>3. CASE At(x, "count")
      <4> DEFINE before == {p \in req[x].seen : owner[p] = u}
                 after == {p \in req[x].seen : owner'[p] = u}
      <4>1. req[x].seen \subseteq Project
        BY <3>1 DEF TypeOK, Request
      <4>2. before \subseteq after /\ after \subseteq Project
        BY <1>2, <4>1, UserIsNotNone
      <4>3. IsFiniteSet(after) /\ IsFiniteSet(before)
            /\ Cardinality(before) <= Cardinality(after)
        BY <4>2, InstanceType, FS_Subset
      <4>4. Cardinality(before) \in Nat /\ Cardinality(after) \in Nat
        BY <4>3, FS_CardinalityType
      <4>5. Cardinality(after) < MaxProjects[u] /\ req[x].caller = u
        BY <2>7, <3>1, <3>3 DEF Admitted, UnderQuota, At
      <4>6. Cardinality(before) < MaxProjects[u]
        BY <4>3, <4>4, <4>5, PolicyType
      <4> QED BY <3>1, <3>3, <4>5, <4>6 DEF Admitted, UnderQuota
    <3> QED BY <2>7, <3>1, <3>2, <3>3 DEF Admitted, At
  <2> QED BY <2>1, <2>6, <2>7, LessIsWithin
<1>5. \A p \in Project : creator'[p] = None => owner'[p] = None
  BY <1>1, <1>2 DEF QuotaInv
<1>6. \A x \in Req : At(x, "owner")' => creator'[req'[x].id] # None
  BY <1>1, <1>3 DEF QuotaInv, At
<1> QED BY <1>4, <1>5, <1>6 DEF QuotaInv, Within

\* A put stores what counted already.
LEMMA UpdatePutQuota ==
  ASSUME TypeOK, TypeOK', QuotaInv, NEW q \in Req, UpdatePut(q)
  PROVE  QuotaInv'
<1> DEFINE id == req[q].id
<1>1. At(q, "put") /\ id \in Project /\ UNCHANGED <<owner, creator>>
  BY DEF UpdatePut, At, TypeOK, LocalsOK
<1>2. Stored' \subseteq Stored \cup {id}
  BY DEF UpdatePut, Write, Stored, TypeOK
<1>3. req'[q].pc = "idle" /\ \A x \in Req \ {q} : req'[x] = req[x]
  BY DEF UpdatePut, Finish, Goto, IdleReq, TypeOK
<1>4. ASSUME NEW u \in User, MaxProjects[u] > 0 PROVE Within(u)'
  <2>1. Within(u)
    BY <1>4 DEF QuotaInv, Within
  <2>2. Owned(u)' \subseteq Claimed(u)
    BY <1>1, <1>2 DEF Claimed, Owned, ComesBy
  <2>3. \A x \in Req : ComesBy(x, u)' => ComesBy(x, u) /\ req'[x] = req[x]
    BY <1>1, <1>3 DEF ComesBy, At
  <2>4. Claimed(u)' \subseteq Claimed(u)
    BY <2>2, <2>3 DEF Claimed
  <2>5. Admitted(u)' \subseteq Admitted(u)
    BY <1>1, <1>3 DEF Admitted, At, UnderQuota
  <2> QED BY <2>1, <2>4, <2>5, LessIsWithin
<1>5. /\ \A p \in Project : creator'[p] = None => owner'[p] = None
      /\ \A x \in Req : At(x, "owner")' => creator'[req'[x].id] # None
  BY <1>1, <1>3 DEF QuotaInv, At
<1> QED BY <1>4, <1>5 DEF QuotaInv, Within

\* Records only go, and handlers stay, end or get past what they claimed.
LEMMA RemoveQuota ==
  ASSUME TypeOK, TypeOK', QuotaInv,
         Stored' \subseteq Stored, UNCHANGED <<owner, creator>>,
         \A x \in Req : req'[x] = req[x] \/ req'[x].pc \in {"idle", "delete_all"}
  PROVE  QuotaInv'
<1>1. ASSUME NEW u \in User, MaxProjects[u] > 0 PROVE Within(u)'
  <2>1. Within(u)
    BY <1>1 DEF QuotaInv, Within
  <2>2. \A x \in Req : ComesBy(x, u)' => ComesBy(x, u) /\ req'[x] = req[x]
    BY DEF ComesBy, At
  <2>3. Claimed(u)' \subseteq Claimed(u)
    BY <2>2 DEF Claimed, Owned
  <2>4. Admitted(u)' \subseteq Admitted(u)
    BY DEF Admitted, At, UnderQuota
  <2> QED BY <2>1, <2>3, <2>4, LessIsWithin
<1>2. /\ \A p \in Project : creator'[p] = None => owner'[p] = None
      /\ \A x \in Req : At(x, "owner")' => creator'[req'[x].id] # None
  BY DEF QuotaInv, At
<1> QED BY <1>1, <1>2 DEF QuotaInv, Within

LEMMA HandleQuota ==
  ASSUME TypeOK, TypeOK', QuotaInv, NEW q \in Req, Handle(q) \/ RequestFails(q)
  PROVE  QuotaInv'
<1> DEFINE r == req[q]
<1>1. r \in Request /\ LocalsOK(r)
  BY DEF TypeOK
<1>2. CASE CreateCount(q)
  <2> DEFINE s == [r EXCEPT !.pc = "create", !.seen = {}]
  <2>1. s.pc = "create" /\ s.caller = r.caller
    BY <1>1 DEF Request
  <2> HIDE DEF s
  <2>2. IF UnderQuota(r.caller, r.seen) THEN Goto(q, s) ELSE Finish(q)
    BY <1>2 DEF CreateCount, s
  <2>3. UNCHANGED <<projects, owner, creator>>
    BY <1>2 DEF CreateCount, stores, history
  <2>4. UnderQuota(r.caller, r.seen) => \A u \in User : s.caller = u => q \in Admitted(u)
    BY <1>2, <2>1 DEF CreateCount, Admitted
  <2> QED BY <2>1, <2>2, <2>3, <2>4, GotoQuota, FinishQuota
<1>3. CASE UpdateRootManifest(q) \/ UpdateRootWalk(q)
  <2>1. UNCHANGED <<projects, owner, creator>>
    BY <1>3 DEF UpdateRootManifest, UpdateRootWalk, stores, history
  <2>2. ASSUME NEW s \in Request, NEW cids, NEW m
        PROVE  Walked(s, cids, m).pc \in {"get", "walk"}
    BY DEF Walked, Request
  <2>3. r.next \in Cid
    BY <1>1, <1>3 DEF UpdateRootManifest, UpdateRootWalk, At, LocalsOK
  <2>4. [r EXCEPT !.rec.root_cid = r.next] \in Request
    BY <1>1, <2>3 DEF Request, ProjectRecord
  <2>5. ASSUME NEW s, Goto(q, s), s.pc \in {"get", "walk"} PROVE QuotaInv'
    BY <2>1, <2>5, GotoQuota
  <2>6. CASE UpdateRootManifest(q)
    <3> DEFINE s == Walked([r EXCEPT !.rec.root_cid = r.next],
                           Collect({}, r.next), r.next)
    <3>1. s.pc \in {"get", "walk"}
      BY <2>2, <2>4
    <3>2. Goto(q, s) \/ Finish(q)
      BY <2>6 DEF UpdateRootManifest
    <3> HIDE DEF s
    <3> QED BY <2>1, <2>5, <3>1, <3>2, FinishQuota
  <2>7. CASE UpdateRootWalk(q)
    <3> DEFINE s == Walked(r, Collect(r.rec.blob_cids, r.next), r.next)
    <3>1. s.pc \in {"get", "walk"}
      BY <1>1, <2>2
    <3>2. Goto(q, s) \/ Finish(q)
      BY <2>7 DEF UpdateRootWalk
    <3> HIDE DEF s
    <3> QED BY <2>1, <2>5, <3>1, <3>2, FinishQuota
  <2> QED BY <1>3, <2>6, <2>7
<1>4. CASE UpdateGet(q)
  <2> DEFINE s == [r EXCEPT !.pc = "put",
                     !.rec = Modify(r.op, projects[r.id], r.rec)]
  <2>1. s.pc = "put" /\ s.id = r.id
    BY <1>1 DEF Request
  <2> HIDE DEF s
  <2>2. IF projects[r.id] = None THEN Finish(q) ELSE Goto(q, s)
    BY <1>4 DEF UpdateGet, s
  <2>3. UNCHANGED <<projects, owner, creator>> /\ r.id \in Project
    BY <1>1, <1>4 DEF UpdateGet, stores, history, At, LocalsOK
  <2> QED BY <2>1, <2>2, <2>3, GotoQuota, FinishQuota DEF Stored
<1>5. CASE DeleteGet(q)
  <2> DEFINE s == [r EXCEPT !.pc = "remove", !.rec = projects[r.id]]
  <2>1. s.pc = "remove"
    BY <1>1 DEF Request
  <2> HIDE DEF s
  <2>2. Finish(q) \/ Goto(q, s)
    BY <1>5 DEF DeleteGet, s
  <2>3. UNCHANGED <<projects, owner, creator>>
    BY <1>5 DEF DeleteGet, stores, history
  <2> QED BY <2>1, <2>2, <2>3, GotoQuota, FinishQuota
<1>6. CASE DeleteRemove(q)
  <2> DEFINE s == [r EXCEPT !.pc = "delete_all"]
  <2>1. s.pc = "delete_all"
    BY <1>1 DEF Request
  <2> HIDE DEF s
  <2>2. Finish(q) \/ Goto(q, s)
    BY <1>6 DEF DeleteRemove, s
  <2>3. \A x \in Req : req'[x] = req[x] \/ req'[x].pc \in {"idle", "delete_all"}
    BY <2>1, <2>2 DEF Finish, Goto, IdleReq, TypeOK
  <2>4. Stored' \subseteq Stored /\ UNCHANGED <<owner, creator>>
    BY <1>6 DEF DeleteRemove, Stored, TypeOK, history
  <2> QED BY <2>3, <2>4, RemoveQuota
<1>7. CASE DeleteKv(q) \/ UploadPut(q) \/ PutValueWrite(q) \/ RequestFails(q)
  <2>1. Finish(q) /\ UNCHANGED <<projects, owner, creator>>
    BY <1>7 DEF DeleteKv, UploadPut, PutValueWrite, RequestFails, stores, history
  <2> QED BY <2>1, FinishQuota
<1> QED BY <1>2, <1>3, <1>4, <1>5, <1>6, <1>7, CreateListQuota,
           CreateWriteQuota, SetProjectOwnerQuota, UpdatePutQuota DEF Handle

THEOREM QuotaInvHolds == Spec => []QuotaInv
<1>1. Init => QuotaInv
  <2> SUFFICES ASSUME Init PROVE QuotaInv
    OBVIOUS
  <2>1. \A u \in User : Claimed(u) = {} /\ Admitted(u) = {}
    BY DEF Init, Claimed, Owned, Stored, ComesBy, Admitted, At, IdleReq
  <2>2. Cardinality({}) = 0 /\ Cardinality(Req) \in Nat
    BY FS_EmptySet, FS_CardinalityType, InstanceType
  <2>3. \A u \in User : MaxProjects[u] > 0 => Within(u)
    BY <2>1, <2>2, PolicyType DEF Within
  <2>4. \A q \in Req : ~ At(q, "owner")
    BY DEF Init, At, IdleReq
  <2> QED BY <2>3, <2>4 DEF QuotaInv, Within, Init
<1>2. TypeOK /\ TypeOK' /\ QuotaInv /\ [Next]_vars => QuotaInv'
  <2> SUFFICES ASSUME TypeOK, TypeOK', QuotaInv, [Next]_vars PROVE QuotaInv'
    OBVIOUS
  <2>1. ASSUME NEW q \in Req, Arrive(q) \/ Handle(q) \/ RequestFails(q)
        PROVE  QuotaInv'
    BY <2>1, ArriveQuota, HandleQuota
  <2>2. CASE Reap \/ (\E p \in Project : ReaperReadFails(p))
             \/ ReaperCallFails \/ Tick
    <3>1. /\ Stored' \subseteq Stored
          /\ UNCHANGED <<owner, creator, req>>
      BY <2>2 DEF Reap, ReaperList, ReaperRead, ReaperDeleteGet, ReaperRemove,
           ReaperBlob, ReaperKv, ReaperDone, ReaperReadFails, ReaperCallFails,
           Tick, stores, history, Stored, TypeOK
    <3> QED BY <3>1, RemoveQuota
  <2>3. CASE Crash
    <3>1. /\ Stored' \subseteq Stored /\ UNCHANGED <<owner, creator>>
          /\ \A x \in Req : req'[x].pc = "idle"
      BY <2>3 DEF Crash, stores, history, Stored, IdleReq
    <3> QED BY <3>1, RemoveQuota
  <2>4. CASE UNCHANGED vars
    <3>1. /\ Stored' \subseteq Stored /\ UNCHANGED <<owner, creator, req>>
      BY <2>4 DEF vars, stores, history, Stored
    <3> QED BY <3>1, RemoveQuota
  <2> QED BY <2>1, <2>2, <2>3, <2>4 DEF Next
<1> QED BY <1>1, <1>2, TypeCorrect, PTL DEF Spec

\* However creations, updates and removals overtake one another, a user owns
\* at most max_projects, and one for each request slot but the first.
THEOREM QuotaOverrunBoundedHolds == Spec => []QuotaOverrunBounded
<1>1. TypeOK /\ QuotaInv => QuotaOverrunBounded
  <2> SUFFICES ASSUME TypeOK, QuotaInv, NEW u \in User, MaxProjects[u] > 0
               PROVE  Cardinality(Owned(u))
                        <= MaxProjects[u] + Cardinality(Req) - 1
    BY DEF QuotaOverrunBounded
  <2>1. /\ IsFiniteSet(Claimed(u)) /\ Owned(u) \subseteq Claimed(u)
        /\ Cardinality(Claimed(u)) \in Nat /\ Cardinality(Admitted(u)) \in Nat
    BY ClaimedFinite DEF Claimed
  <2>2. IsFiniteSet(Owned(u)) /\ Cardinality(Owned(u)) <= Cardinality(Claimed(u))
    BY <2>1, FS_Subset
  <2>3. Cardinality(Owned(u)) \in Nat /\ Cardinality(Req) \in Nat
    BY <2>2, InstanceType, FS_CardinalityType
  <2> QED BY <2>1, <2>2, <2>3, PolicyType DEF QuotaInv
<1> QED BY <1>1, QuotaInvHolds, TypeCorrect, PTL

-----------------------------------------------------------------------------
(* LwidServer implements Registry.                                         *)

\* Asleep, the reaper has doomed nothing; the project it removes it has taken
\* off its list.
ReaperInv ==
  /\ reaper.pc = "sleep" => reaper.expired = {}
  /\ reaper.pc = "remove" => reaper.cur \notin reaper.expired

LEMMA StepReaper ==
  ASSUME TypeOK, SweepInv, ReaperInv, [Next]_vars
  PROVE  ReaperInv'
<1>1. CASE UNCHANGED reaper
  BY <1>1 DEF ReaperInv
<1>2. ASSUME NEW q \in Req, Arrive(q) \/ Handle(q) \/ RequestFails(q)
      PROVE  UNCHANGED reaper
  BY <1>2 DEF Arrive, CreateBegin, UpdateRootFetch, UpdateNameFetch,
         ExtendTtlFetch, DeleteFetch, UploadProbe, PutValueFetch,
         Handle, CreateList, CreateCount, CreateWrite, SetProjectOwner,
         UpdateRootManifest, UpdateRootWalk, UpdateGet, UpdatePut, DeleteGet,
         DeleteRemove, DeleteKv, UploadPut, PutValueWrite, RequestFails
<1>3. CASE Reap
  <2>1. ReaperList => reaper'.pc = "scan"
    BY DEF ReaperList, Asleep
  <2>2. ReaperDone => reaper'.pc = "sleep" /\ reaper'.expired = {}
    BY DEF ReaperDone, Asleep
  <2>3. ASSUME NEW p \in Project, ReaperRead(p) PROVE reaper'.pc = "scan"
    BY <2>3 DEF ReaperRead, Partition, TypeOK, Sweep
  <2>4. ASSUME NEW p \in Project, ReaperDeleteGet(p) PROVE ReaperInv'
    BY <2>4 DEF ReaperDeleteGet, ReaperInv, TypeOK, Sweep
  <2>5. CASE ReaperRemove \/ ReaperKv \/ \E c \in Cid : ReaperBlob(c)
    BY <2>5 DEF ReaperRemove, ReaperKv, ReaperBlob, ReaperInv, TypeOK, Sweep
  <2> QED BY <1>3, <2>1, <2>2, <2>3, <2>4, <2>5 DEF Reap, ReaperInv
<1>4. ASSUME NEW p \in Project, ReaperReadFails(p) PROVE ReaperInv'
  BY <1>4 DEF ReaperReadFails, ReaperInv, TypeOK, Sweep
<1>5. CASE ReaperCallFails
  BY <1>5 DEF ReaperCallFails, ReaperInv, TypeOK, Sweep
<1>6. CASE Crash
  BY <1>6 DEF Crash, ReaperInv, Asleep
<1> QED BY <1>1, <1>2, <1>3, <1>4, <1>5, <1>6 DEF Next, Tick, vars

-----------------------------------------------------------------------------
(* Orders.                                                                 *)

LEMMA GotoOrder ==
  ASSUME TypeOK, NEW q \in Req, NEW r, Goto(q, r)
  PROVE  Orders(req') = [Orders(req) EXCEPT ![q] = OrderOf(r)]
BY DEF Orders, Goto, TypeOK

LEMMA FinishOrder ==
  ASSUME TypeOK, NEW q \in Req, Finish(q)
  PROVE  Orders(req') = [Orders(req) EXCEPT ![q] = None]
<1>1. OrderOf(IdleReq) = None
  BY DEF OrderOf, OrderPc, IdleReq
<1> QED BY <1>1, GotoOrder DEF Finish

LEMMA DropOrder ==
  ASSUME TypeOK, NEW q \in Req, UNCHANGED <<projects, creator, reaper, clock>>,
         Orders(req') = [Orders(req) EXCEPT ![q] = None]
  PROVE  Promise!Drop(q)
BY DEF Promise!Drop, DoomedNow

LEMMA KeepOrder ==
  ASSUME TypeOK, NEW q \in Req, UNCHANGED <<projects, creator, reaper, clock>>,
         NEW r, Goto(q, r), OrderOf(r) = OrderOf(req[q])
  PROVE  UNCHANGED Promise!vars
<1>1. Orders(req') = Orders(req)
  BY GotoOrder DEF Orders
<1> QED BY <1>1 DEF Promise!vars, DoomedNow

\* A bounded deadline is one the registry allows.
LEMMA BoundedIsAllowed ==
  ASSUME NEW e, BoundedExpiry(e)
  PROVE  Promise!Allowed(e)
BY DEF BoundedExpiry, Tier, Promise!Allowed

\* What a handler's locals say of its order.
OrderOK(r) ==
  /\ r.pc \in {"list", "count", "create"} => r.rec.root_cid = None
  /\ r.pc \in {"walk", "get"} /\ r.op = "update_root" => r.rec.root_cid # None
  /\ r.pc = "put" => r.op \in UpdateOps
  /\ r.pc \in {"delete_get", "remove"} => r.op = "delete"
OrdersOK == \A q \in Req : OrderOK(req[q])

LEMMA GotoOrdersOK ==
  ASSUME TypeOK, OrdersOK, NEW q \in Req, NEW r, Goto(q, r), OrderOK(r)
  PROVE  OrdersOK'
BY DEF TypeOK, OrdersOK, Goto

LEMMA FinishOrdersOK ==
  ASSUME TypeOK, OrdersOK, NEW q \in Req, Finish(q)
  PROVE  OrdersOK'
<1>1. OrderOK(IdleReq)
  BY DEF OrderOK, IdleReq
<1> QED BY <1>1, GotoOrdersOK DEF Finish

\* A request arrives: a creation has no root, a deletion says so.
LEMMA ArriveOrdersOK ==
  ASSUME TypeOK, OrdersOK, NEW q \in Req, Arrive(q)
  PROVE  OrdersOK'
<1>1. ASSUME NEW r, Goto(q, r),
             r.pc \in {"list", "count", "create"} => r.rec.root_cid = None,
             r.pc \notin {"walk", "put", "remove"},
             r.pc = "get" => r.op # "update_root",
             r.pc = "delete_get" => r.op = "delete"
      PROVE  OrdersOK'
  BY <1>1, GotoOrdersOK DEF OrderOK
<1>2. CASE CreateBegin(q)
  <2>1. PICK key \in Key, c \in Caller, ttl \in Ttl, name \in Name \cup {None} :
          Goto(q, [IdleReq EXCEPT !.op = "create",
                     !.pc = IF Limited(c) THEN "list" ELSE "create",
                     !.key = key, !.caller = c,
                     !.rec = NewRecord(key, c, ttl, name)])
    BY <1>2 DEF CreateBegin
  <2> DEFINE rec == NewRecord(key, c, ttl, name)
             r == [IdleReq EXCEPT !.op = "create",
                     !.pc = IF Limited(c) THEN "list" ELSE "create",
                     !.key = key, !.caller = c, !.rec = rec]
  <2>2. rec.root_cid = None
    BY DEF NewRecord, EmptyRecord
  <2> HIDE DEF rec
  <2>3. r.pc \in {"list", "create"} /\ r.rec = rec
    BY DEF IdleReq
  <2> HIDE DEF r
  <2>4. Goto(q, r)
    BY <2>1 DEF r, rec
  <2> QED BY <1>1, <2>2, <2>3, <2>4
<1>3. CASE UpdateRootFetch(q)
  BY <1>1, <1>3 DEF UpdateRootFetch, IdleReq
<1>4. CASE UpdateNameFetch(q)
  BY <1>1, <1>4 DEF UpdateNameFetch, IdleReq
<1>5. CASE ExtendTtlFetch(q)
  BY <1>1, <1>5 DEF ExtendTtlFetch, IdleReq
<1>6. CASE DeleteFetch(q)
  BY <1>1, <1>6 DEF DeleteFetch, IdleReq
<1>7. CASE UploadProbe(q)
  BY <1>1, <1>7 DEF UploadProbe, IdleReq
<1>8. CASE PutValueFetch(q)
  BY <1>1, <1>8 DEF PutValueFetch, IdleReq
<1> QED BY <1>2, <1>3, <1>4, <1>5, <1>6, <1>7, <1>8 DEF Arrive

\* After a manifest was read, the root is in the record to be.
LEMMA WalkedFields ==
  ASSUME NEW r \in Request, NEW cids, NEW c
  PROVE  LET w == Walked(r, cids, c)
         IN  /\ w.pc \in {"walk", "get"} /\ w.op = r.op /\ w.id = r.id
             /\ w.key = r.key /\ w.rec.root_cid = r.rec.root_cid
<1> DEFINE rec == [r.rec EXCEPT !.blob_cids = cids]
<1>1. rec.root_cid = r.rec.root_cid
  BY DEF Request, ProjectRecord
<1> HIDE DEF rec
<1>2. Walked(r, cids, c) =
        [r EXCEPT !.rec = rec, !.next = Parent[c],
                  !.pc = IF Parent[c] = None THEN "get" ELSE "walk"]
  BY DEF Walked, rec
<1> QED BY <1>1, <1>2 DEF Request

\* The request whose manifest is read, once the root is noted.
LEMMA RootNoted ==
  ASSUME NEW r \in Request, NEW root \in Cid
  PROVE  LET n == [r EXCEPT !.rec.root_cid = root]
         IN  /\ n \in Request /\ n.pc = r.pc /\ n.op = r.op /\ n.id = r.id
             /\ n.key = r.key /\ n.rec.root_cid = root
BY DEF Request, ProjectRecord

LEMMA StepOrdersOK ==
  ASSUME TypeOK, OrdersOK, [Next]_vars
  PROVE  OrdersOK'
<1>1. ASSUME NEW q \in Req, Arrive(q) PROVE OrdersOK'
  BY <1>1, ArriveOrdersOK
<1>2. ASSUME NEW q \in Req, Handle(q) \/ RequestFails(q) PROVE OrdersOK'
  <2> DEFINE r == req[q]
  <2>0. r \in Request /\ LocalsOK(r) /\ OrderOK(r)
    BY DEF TypeOK, OrdersOK
  <2>1. CASE Finish(q)
    BY <2>1, FinishOrdersOK
  <2>2. CASE CreateList(q)
    <3>1. OrderOK([r EXCEPT !.pc = "count", !.seen = Stored])
      BY <2>0, <2>2 DEF OrderOK, CreateList, At, Request
    <3> QED BY <2>2, <3>1, GotoOrdersOK DEF CreateList
  <2>3. CASE CreateCount(q)
    <3>1. OrderOK([r EXCEPT !.pc = "create", !.seen = {}])
      BY <2>0, <2>3 DEF OrderOK, CreateCount, At, Request
    <3> QED BY <2>1, <2>3, <3>1, GotoOrdersOK DEF CreateCount
  <2>4. CASE CreateWrite(q)
    <3>1. PICK p : Finish(q) \/ Goto(q, [r EXCEPT !.pc = "owner", !.id = p])
      BY <2>4 DEF CreateWrite
    <3>2. OrderOK([r EXCEPT !.pc = "owner", !.id = p])
      BY <2>0 DEF OrderOK, Request
    <3> QED BY <2>1, <3>1, <3>2, GotoOrdersOK
  <2>5. CASE UpdateRootManifest(q)
    <3> DEFINE root == r.next
               n == [r EXCEPT !.rec.root_cid = root]
    <3>1. root \in Cid
      BY <2>0, <2>5 DEF UpdateRootManifest, At, LocalsOK
    <3>2. n \in Request /\ n.rec.root_cid = root
      BY <2>0, <3>1, RootNoted
    <3>3. Finish(q) \/ Goto(q, Walked(n, Collect({}, root), root))
      BY <2>5 DEF UpdateRootManifest
    <3> HIDE DEF n
    <3>4. OrderOK(Walked(n, Collect({}, root), root))
      BY <3>1, <3>2, WalkedFields, NoneIsNoCid DEF OrderOK
    <3> QED BY <2>1, <3>3, <3>4, GotoOrdersOK
  <2>6. CASE UpdateRootWalk(q)
    <3>1. PICK cids, c : Finish(q) \/ Goto(q, Walked(r, cids, c))
      BY <2>6 DEF UpdateRootWalk
    <3>2. r.rec.root_cid # None
      BY <2>0, <2>6 DEF UpdateRootWalk, At, LocalsOK, OrderOK
    <3>3. OrderOK(Walked(r, cids, c))
      BY <2>0, <3>2, WalkedFields DEF OrderOK
    <3> QED BY <2>1, <3>1, <3>3, GotoOrdersOK
  <2>7. CASE UpdateGet(q)
    <3>1. PICK rec : Finish(q) \/ Goto(q, [r EXCEPT !.pc = "put", !.rec = rec])
      BY <2>7 DEF UpdateGet
    <3>2. OrderOK([r EXCEPT !.pc = "put", !.rec = rec])
      BY <2>0, <2>7 DEF UpdateGet, At, LocalsOK, OrderOK, Request
    <3> QED BY <2>1, <3>1, <3>2, GotoOrdersOK
  <2>8. CASE DeleteGet(q)
    <3>1. PICK rec : Finish(q) \/ Goto(q, [r EXCEPT !.pc = "remove", !.rec = rec])
      BY <2>8 DEF DeleteGet
    <3>2. OrderOK([r EXCEPT !.pc = "remove", !.rec = rec])
      BY <2>0, <2>8 DEF DeleteGet, At, OrderOK, Request
    <3> QED BY <2>1, <3>1, <3>2, GotoOrdersOK
  <2>9. CASE DeleteRemove(q)
    <3>1. OrderOK([r EXCEPT !.pc = "delete_all"])
      BY <2>0 DEF OrderOK, Request
    <3> QED BY <2>1, <2>9, <3>1, GotoOrdersOK DEF DeleteRemove
  <2> QED BY <1>2, <2>1, <2>2, <2>3, <2>4, <2>5, <2>6, <2>7, <2>8, <2>9
          DEF Handle, SetProjectOwner, UpdatePut, DeleteKv, UploadPut,
              PutValueWrite, RequestFails
<1>3. CASE Crash
  BY <1>3 DEF Crash, OrdersOK, OrderOK, IdleReq
<1>4. CASE UNCHANGED req
  BY <1>4 DEF OrdersOK
<1> QED BY <1>1, <1>2, <1>3, <1>4
        DEF Next, Reap, ReaperList, ReaperRead, ReaperDeleteGet, ReaperRemove,
            ReaperBlob, ReaperKv, ReaperDone, ReaperReadFails,
            ReaperCallFails, Tick, vars

\* A handler's order is one, and no None.
LEMMA OrderType ==
  ASSUME NEW r \in Request, LocalsOK(r), OrderOK(r), r.pc \in OrderPc,
         r.key \in Key
  PROVE  OrderOf(r) \in Order /\ OrderOf(r) # None
<1>1. r.id \in Project /\ r.op \in UpdateOps \cup {"delete"}
  BY DEF LocalsOK, OrderOK, OrderPc, UpdateOps
<1>2. Asked(r) \in Cid \cup Name \cup Nat \cup {None}
  <2>1. /\ r.rec \in ProjectRecord /\ r.next \in Cid \cup {None}
        /\ r.rec.root_cid \in Cid \cup {None}
        /\ r.rec.name \in Name \cup {None}
        /\ r.rec.expires_at \in Nat \cup {None}
    BY DEF Request, ProjectRecord
  <2>2. CASE r.op = "update_root"
    BY <2>1, <2>2 DEF Asked
  <2>3. CASE r.op = "update_name"
    BY <2>1, <2>3 DEF Asked
  <2>4. CASE r.op = "extend_ttl"
    BY <2>1, <2>4 DEF Asked
  <2>5. CASE r.op = "delete"
    BY <2>5 DEF Asked
  <2> QED BY <1>1, <2>2, <2>3, <2>4, <2>5 DEF UpdateOps
<1>3. (IF r.pc = "put" THEN r.rec ELSE None) \in ProjectRecord \cup {None}
  BY DEF Request
<1>4. OrderOf(r) \in Order
  BY <1>1, <1>2, <1>3 DEF OrderOf, Order
<1> QED BY <1>4, NoneIsNoOrder

-----------------------------------------------------------------------------
(* Handlers.                                                               *)

LEMMA AdmitOrder ==
  ASSUME TypeOK, WriteInv, TypeOK', OrdersOK', NEW q \in Req, At(q, "idle"),
         UNCHANGED <<projects, creator, reaper, clock>>,
         NEW id \in Stored, NEW key \in Key, Verified(id, key),
         NEW r, Goto(q, r), r.pc \in {"manifest", "get", "delete_get"},
         r.id = id, r.key = key,
         \/ r.op \in {"update_root", "update_name", "delete"}
         \/ r.op = "extend_ttl" /\ BoundedExpiry(r.rec.expires_at)
  PROVE  \E p \in Project : Promise!Admit(q, p)
<1>1. id \in Project /\ projects[id] # None /\ key = creator[id]
  BY DEF Stored, Verified, WriteInv, KeyIsCreators
<1>2. Orders(req)[q] = None
  BY DEF Orders, OrderOf, OrderPc, At
<1> DEFINE o == OrderOf(r)
<1>3. o = [project |-> id, key |-> creator[id], op |-> r.op, arg |-> Asked(r),
           draft |-> None]
  BY <1>1 DEF OrderOf, OrderPc
<1>4. o # None
  <2>1. req'[q] = r
    BY DEF Goto, TypeOK
  <2>2. r \in Request /\ LocalsOK(r) /\ OrderOK(r)
    BY <2>1 DEF TypeOK, OrdersOK
  <2> QED BY <2>2, OrderType DEF OrderPc
<1>5. o.op = "extend_ttl" => Promise!Allowed(o.arg)
  <2>1. r.op = "extend_ttl" => Asked(r) = r.rec.expires_at
    BY DEF Asked
  <2> QED BY <1>3, <2>1, BoundedIsAllowed
<1>6. /\ o.op = r.op /\ o.arg = Asked(r)
      /\ r.op \in {"update_root", "update_name", "delete", "extend_ttl"}
  BY <1>3
<1> HIDE DEF o
<1>7. Orders(req') = [Orders(req) EXCEPT ![q] = o]
  BY GotoOrder DEF o
<1>8. Orders(req')[q] = o
  BY <1>7 DEF Orders
<1>9. UNCHANGED DoomedNow
  BY DEF DoomedNow
<1> QED BY <1>1, <1>2, <1>3, <1>4, <1>5, <1>6, <1>7, <1>8, <1>9
        DEF Promise!Admit

\* A request that is admitted has an order; any other one has none.
LEMMA ArriveImplements ==
  ASSUME TypeOK, WriteInv, TypeOK', OrdersOK', NEW q \in Req, Arrive(q)
  PROVE  \/ \E p \in Project : Promise!Admit(q, p)
         \/ UNCHANGED Promise!vars
<1>1. UNCHANGED <<projects, creator, reaper, clock>> /\ At(q, "idle")
  BY DEF Arrive, CreateBegin, UpdateRootFetch, UpdateNameFetch, ExtendTtlFetch,
         DeleteFetch, UploadProbe, PutValueFetch, Arrives, stores, history
<1>2. OrderOf(req[q]) = None
  BY <1>1 DEF OrderOf, OrderPc, At
<1>3. CASE CreateBegin(q)
  <2>1. PICK r : Goto(q, r) /\ r.pc \in {"list", "create"}
    <3>1. PICK key \in Key, c \in Caller, ttl \in Ttl, name \in Name \cup {None} :
            Goto(q, [IdleReq EXCEPT !.op = "create",
                       !.pc = IF Limited(c) THEN "list" ELSE "create",
                       !.key = key, !.caller = c,
                       !.rec = NewRecord(key, c, ttl, name)])
      BY <1>3 DEF CreateBegin
    <3>2. [IdleReq EXCEPT !.op = "create",
                       !.pc = IF Limited(c) THEN "list" ELSE "create",
                       !.key = key, !.caller = c,
                       !.rec = NewRecord(key, c, ttl, name)].pc \in {"list", "create"}
      BY DEF IdleReq
    <3> QED BY <3>1, <3>2
  <2>2. OrderOf(r) = None
    BY <2>1 DEF OrderOf, OrderPc
  <2> QED BY <1>1, <1>2, <2>1, <2>2, KeepOrder
<1>4. CASE UpdateRootFetch(q)
  <2>1. PICK id \in Stored, key \in Key, caller \in Caller, cid \in Cid :
          /\ Verified(id, key)
          /\ Goto(q, [IdleReq EXCEPT !.op = "update_root", !.pc = "manifest",
                        !.id = id, !.key = key, !.caller = caller, !.next = cid])
    BY <1>4 DEF UpdateRootFetch
  <2> DEFINE r == [IdleReq EXCEPT !.op = "update_root", !.pc = "manifest",
                        !.id = id, !.key = key, !.caller = caller, !.next = cid]
  <2>2. r.pc \in {"manifest", "get", "delete_get"} /\ r.id = id /\ r.key = key
        /\ r.op \in {"update_root", "update_name", "delete"}
    BY DEF IdleReq
  <2> HIDE DEF r
  <2> QED BY <1>1, <2>1, <2>2, AdmitOrder DEF r
<1>5. CASE UpdateNameFetch(q)
  <2>1. PICK id \in Stored, key \in Key, name \in Name \cup {None} :
          /\ Verified(id, key)
          /\ Goto(q, [IdleReq EXCEPT !.op = "update_name", !.pc = "get",
                     !.id = id, !.key = key, !.rec = [EmptyRecord EXCEPT !.name = name]])
    BY <1>5 DEF UpdateNameFetch
  <2> DEFINE r == [IdleReq EXCEPT !.op = "update_name", !.pc = "get",
                     !.id = id, !.key = key, !.rec = [EmptyRecord EXCEPT !.name = name]]
  <2>2. r.pc \in {"manifest", "get", "delete_get"} /\ r.id = id /\ r.key = key
        /\ r.op \in {"update_root", "update_name", "delete"}
    BY DEF IdleReq
  <2> HIDE DEF r
  <2> QED BY <1>1, <2>1, <2>2, AdmitOrder DEF r
<1>6. CASE ExtendTtlFetch(q)
  <2>1. PICK id \in Stored, key \in Key, c \in Caller, ttl \in Ttl :
          /\ Verified(id, key)
          /\ Goto(q, [IdleReq EXCEPT !.op = "extend_ttl", !.pc = "get",
                        !.id = id, !.key = key, !.caller = c,
                        !.rec = [EmptyRecord EXCEPT
                                  !.expires_at = ExpiryFor(c, ttl)]])
    BY <1>6 DEF ExtendTtlFetch
  <2> DEFINE r == [IdleReq EXCEPT !.op = "extend_ttl", !.pc = "get",
                        !.id = id, !.key = key, !.caller = c,
                        !.rec = [EmptyRecord EXCEPT
                                  !.expires_at = ExpiryFor(c, ttl)]]
  <2>2. /\ r.pc = "get" /\ r.id = id /\ r.key = key /\ r.op = "extend_ttl"
        /\ r.rec.expires_at = ExpiryFor(c, ttl)
    BY DEF IdleReq, EmptyRecord
  <2>3. BoundedExpiry(r.rec.expires_at)
    BY <2>2, ExpiryIsBounded
  <2> HIDE DEF r
  <2> QED BY <1>1, <2>1, <2>2, <2>3, AdmitOrder DEF r
<1>7. CASE DeleteFetch(q)
  <2>1. PICK id \in Stored, key \in Key :
          /\ Verified(id, key)
          /\ Goto(q, [IdleReq EXCEPT !.op = "delete", !.pc = "delete_get",
                        !.id = id, !.key = key])
    BY <1>7 DEF DeleteFetch
  <2> DEFINE r == [IdleReq EXCEPT !.op = "delete", !.pc = "delete_get",
                        !.id = id, !.key = key]
  <2>2. r.pc \in {"manifest", "get", "delete_get"} /\ r.id = id /\ r.key = key
        /\ r.op \in {"update_root", "update_name", "delete"}
    BY DEF IdleReq
  <2> HIDE DEF r
  <2> QED BY <1>1, <2>1, <2>2, AdmitOrder DEF r
<1>8. CASE UploadProbe(q) \/ PutValueFetch(q)
  <2>1. PICK r : Goto(q, r) /\ r.pc \in {"blob_put", "kv_put"}
    <3>1. CASE UploadProbe(q)
      <4>1. PICK c : Goto(q, [IdleReq EXCEPT !.op = "upload", !.pc = "blob_put", !.next = c])
        BY <3>1 DEF UploadProbe
      <4>2. [IdleReq EXCEPT !.op = "upload", !.pc = "blob_put", !.next = c].pc = "blob_put"
        BY DEF IdleReq
      <4> QED BY <4>1, <4>2
    <3>2. CASE PutValueFetch(q)
      <4>1. PICK id : Goto(q, [IdleReq EXCEPT !.op = "put_value", !.pc = "kv_put", !.id = id])
        BY <3>2 DEF PutValueFetch
      <4>2. [IdleReq EXCEPT !.op = "put_value", !.pc = "kv_put", !.id = id].pc = "kv_put"
        BY DEF IdleReq
      <4> QED BY <4>1, <4>2
    <3> QED BY <1>8, <3>1, <3>2
  <2>2. OrderOf(r) = None
    BY <2>1 DEF OrderOf, OrderPc
  <2> QED BY <1>1, <1>2, <2>1, <2>2, KeepOrder
<1> QED BY <1>3, <1>4, <1>5, <1>6, <1>7, <1>8 DEF Arrive

\* A new record is its creator's from the start.
LEMMA CreateImplements ==
  ASSUME TypeOK, CoverageInv, WriteInv, OrdersOK, NEW q \in Req, CreateWrite(q)
  PROVE  \E p \in Project : Promise!Create(p)
<1> DEFINE k == req[q].key
           rec == req[q].rec
<1>1. /\ k \in Key /\ rec \in ProjectRecord /\ rec.write_pubkey = k
      /\ Covered(rec) /\ BoundedExpiry(rec.expires_at) /\ req[q].pc = "create"
  BY DEF CreateWrite, At, TypeOK, LocalsOK, Request, CoverageInv, CoveredLocals,
         WriteInv, CarriedOK
<1>2. /\ rec.root_cid = None /\ rec.blob_cids = {}
      /\ Promise!Allowed(rec.expires_at)
  BY <1>1, BoundedIsAllowed DEF OrdersOK, OrderOK, Covered
<1>3. PICK p \in Project :
        /\ creator[p] = None
        /\ creator' = [creator EXCEPT ![p] = k]
        /\ projects' = [projects EXCEPT ![p] = rec]
        /\ \/ Finish(q)
           \/ Goto(q, [req[q] EXCEPT !.pc = "owner", !.id = p])
  BY DEF CreateWrite, Write
<1>4. UNCHANGED <<reaper, clock>>
  BY DEF CreateWrite
<1>5. Orders(req') = Orders(req)
  <2>1. Orders(req) = [Orders(req) EXCEPT ![q] = None]
    BY <1>1 DEF Orders, OrderOf, OrderPc
  <2>2. CASE Finish(q)
    BY <2>1, <2>2, FinishOrder
  <2>3. CASE Goto(q, [req[q] EXCEPT !.pc = "owner", !.id = p])
    <3>1. [req[q] EXCEPT !.pc = "owner", !.id = p].pc = "owner"
      BY DEF TypeOK, Request
    <3>2. OrderOf([req[q] EXCEPT !.pc = "owner", !.id = p]) = None
      BY <3>1 DEF OrderOf, OrderPc
    <3> QED BY <2>1, <2>3, <3>2, GotoOrder
  <2> QED BY <1>3, <2>2, <2>3
<1>6. projects'[p] = rec
  BY <1>3 DEF TypeOK
<1>7. projects' = [projects EXCEPT ![p] = projects'[p]]
  BY <1>3, <1>6
<1>8. UNCHANGED DoomedNow
  BY <1>4 DEF DoomedNow
<1> QED BY <1>1, <1>2, <1>3, <1>4, <1>5, <1>6, <1>7, <1>8 DEF Promise!Create

\* Reading the record again draws the order up.
LEMMA DrawUpImplements ==
  ASSUME TypeOK, CoverageInv, WriteInv, OrdersOK, NEW q \in Req, UpdateGet(q),
         ~ Finish(q)
  PROVE  Promise!DrawUp(q)
<1> DEFINE r == req[q]
           old == projects[r.id]
           new == Modify(r.op, old, r.rec)
           o == OrderOf(r)
           rr == [r EXCEPT !.pc = "put", !.rec = new]
<1>1. /\ r \in Request /\ LocalsOK(r) /\ OrderOK(r) /\ r.pc = "get"
      /\ r.id \in Project /\ r.key \in Key /\ r.op \in UpdateOps
      /\ Covered(r.rec) /\ r.rec \in ProjectRecord
  BY DEF UpdateGet, At, TypeOK, OrdersOK, LocalsOK, WriteInv, CarriedOK,
         CoverageInv, CoveredLocals, Request
<1>2. old # None /\ old \in ProjectRecord /\ Goto(q, rr)
  BY <1>1 DEF UpdateGet, TypeOK
<1>3. /\ o = [project |-> r.id, key |-> r.key, op |-> r.op, arg |-> Asked(r),
              draft |-> None]
      /\ o # None
  BY <1>1, OrderType DEF OrderOf, OrderPc
<1>4. o.op = r.op /\ o.arg = Asked(r) /\ o.project = r.id /\ o.draft = None
  BY <1>3
<1>5. /\ r.op = "update_root" => o.arg = r.rec.root_cid
      /\ r.op = "update_name" => o.arg = r.rec.name
      /\ r.op = "extend_ttl" => o.arg = r.rec.expires_at
  BY <1>1, <1>4 DEF Asked
<1> DEFINE needs == [m \in Manifest |-> Closure(m)]
<1>6. r.op = "update_root" =>
        o.arg \in DOMAIN needs /\ needs[o.arg] = r.rec.blob_cids
  BY <1>1, <1>5 DEF OrderOK, Covered
<1> HIDE DEF o
<1>7. new = Promise!Set(old, o)
  <2>1. CASE r.op = "update_root"
    <3>1. new = [old EXCEPT !.root_cid = r.rec.root_cid,
                            !.blob_cids = r.rec.blob_cids]
      BY <2>1 DEF Modify
    <3>2. Promise!Set(old, o) = [old EXCEPT !.root_cid = o.arg,
                                            !.blob_cids = needs[o.arg]]
      BY <1>4, <2>1 DEF Promise!Set
    <3> QED BY <1>5, <1>6, <2>1, <3>1, <3>2
  <2>2. CASE r.op = "update_name"
    BY <1>4, <1>5, <2>2 DEF Modify, Promise!Set
  <2>3. CASE r.op = "extend_ttl"
    BY <1>4, <1>5, <2>3 DEF Modify, Promise!Set
  <2> QED BY <1>1, <2>1, <2>2, <2>3 DEF UpdateOps
<1>8. /\ r.op = "update_root" => new.root_cid = r.rec.root_cid
      /\ r.op = "update_name" => new.name = r.rec.name
      /\ r.op = "extend_ttl" => new.expires_at = r.rec.expires_at
  BY <1>2 DEF Modify, ProjectRecord
<1> HIDE DEF new
<1>9. OrderOf(rr) = [o EXCEPT !.draft = new]
  <2>1. /\ rr.pc = "put" /\ rr.rec = new /\ rr.op = r.op /\ rr.id = r.id
        /\ rr.key = r.key
    BY <1>1 DEF Request
  <2> HIDE DEF rr
  <2>2. Asked(rr) = Asked(r)
    BY <1>1, <1>8, <2>1 DEF Asked, UpdateOps
  <2>3. OrderOf(rr) = [project |-> r.id, key |-> r.key, op |-> r.op,
                       arg |-> Asked(r), draft |-> new]
    BY <2>1, <2>2 DEF OrderOf, OrderPc
  <2> QED BY <1>3, <2>3
<1>10. Orders(req)[q] = o
  BY DEF Orders, o
<1>11. Orders(req') = [Orders(req) EXCEPT ![q] = [o EXCEPT !.draft = new]]
  BY <1>2, <1>9, GotoOrder
<1>12. UNCHANGED <<projects, creator, clock, DoomedNow>>
  BY DEF UpdateGet, stores, history, DoomedNow
<1>13. o.op # "delete"
  BY <1>1, <1>4 DEF UpdateOps
<1> HIDE DEF rr, r, old
<1> QED BY <1>2, <1>3, <1>4, <1>6, <1>7, <1>10, <1>11, <1>12, <1>13
        DEF Promise!DrawUp, r, old

\* A put carries an order out with its draft, a removal with none.
LEMMA CarryOutImplements ==
  ASSUME TypeOK, WriteInv, OrdersOK, NEW q \in Req,
         UpdatePut(q) \/ DeleteRemove(q)
  PROVE  Promise!CarryOut(q)
<1> DEFINE r == req[q]
           o == OrderOf(r)
<1>1. /\ r.pc \in {"put", "remove"} /\ r \in Request
      /\ LocalsOK(r) /\ OrderOK(r) /\ r.rec \in ProjectRecord
      /\ r.id \in Project /\ r.key \in Key /\ creator[r.id] = r.key
  BY DEF UpdatePut, DeleteRemove, At, TypeOK, LocalsOK, WriteInv, CarriedOK,
         OrdersOK, Request
<1>2. /\ o # None
      /\ o = [project |-> r.id, key |-> r.key, op |-> r.op, arg |-> Asked(r),
              draft |-> IF r.pc = "put" THEN r.rec ELSE None]
  BY <1>1, OrderType DEF OrderOf, OrderPc
<1>3. /\ o.project = r.id /\ o.key = r.key /\ o.op = r.op
      /\ o.draft = IF r.pc = "put" THEN r.rec ELSE None
  BY <1>2
<1>4. (o.op = "delete") <=> (o.draft = None)
  BY <1>1, <1>3, NoneIsNoRecord DEF OrderOK, UpdateOps
<1> HIDE DEF o
<1>5. projects' = [projects EXCEPT ![r.id] = o.draft]
  BY <1>3 DEF UpdatePut, DeleteRemove, At, Write
<1>6. UNCHANGED <<creator, clock, DoomedNow>>
  BY DEF UpdatePut, DeleteRemove, history, DoomedNow
<1>7. Orders(req') = [Orders(req) EXCEPT ![q] = None]
  <2>1. CASE Finish(q)
    BY <2>1, FinishOrder
  <2>2. CASE Goto(q, [req[q] EXCEPT !.pc = "delete_all"])
    <3>1. [req[q] EXCEPT !.pc = "delete_all"].pc = "delete_all"
      BY <1>1 DEF Request
    <3>2. OrderOf([req[q] EXCEPT !.pc = "delete_all"]) = None
      BY <3>1 DEF OrderOf, OrderPc
    <3> QED BY <2>2, <3>2, GotoOrder
  <2> QED BY <2>1, <2>2 DEF UpdatePut, DeleteRemove
<1>8. Orders(req)[q] = o
  BY DEF Orders, o
<1> HIDE DEF r
<1> QED BY <1>1, <1>2, <1>3, <1>4, <1>5, <1>6, <1>7, <1>8 DEF Promise!CarryOut

\* The other calls of a handler keep its order or drop it.
LEMMA HandleImplements ==
  ASSUME TypeOK, OrdersOK, NEW q \in Req, Handle(q) \/ RequestFails(q),
         ~ (CreateWrite(q) \/ UpdatePut(q) \/ DeleteRemove(q)),
         UpdateGet(q) => Finish(q)
  PROVE  Promise!Drop(q) \/ UNCHANGED Promise!vars
<1>0. req[q] \in Request /\ LocalsOK(req[q]) /\ OrderOK(req[q])
  BY DEF TypeOK, OrdersOK
<1>1. UNCHANGED <<projects, creator, reaper, clock>>
  BY DEF Handle, CreateList, CreateCount, SetProjectOwner,
         UpdateRootManifest, UpdateRootWalk, UpdateGet, DeleteGet,
         DeleteKv, UploadPut, PutValueWrite, RequestFails, stores, history
<1>2. CASE Finish(q)
  BY <1>1, <1>2, FinishOrder, DropOrder
<1>3. CASE CreateList(q)
  <2> DEFINE r == [req[q] EXCEPT !.pc = "count", !.seen = Stored]
  <2>1. r.pc = "count" /\ req[q].pc = "list" /\ Goto(q, r)
    BY <1>0, <1>3 DEF CreateList, At, Request
  <2> HIDE DEF r
  <2>2. OrderOf(r) = OrderOf(req[q])
    BY <2>1 DEF OrderOf, OrderPc
  <2> QED BY <1>1, <2>1, <2>2, KeepOrder
<1>4. CASE CreateCount(q)
  <2> DEFINE r == [req[q] EXCEPT !.pc = "create", !.seen = {}]
  <2>1. r.pc = "create" /\ req[q].pc = "count" /\ (Goto(q, r) \/ Finish(q))
    BY <1>0, <1>4 DEF CreateCount, At, Request
  <2> HIDE DEF r
  <2>2. OrderOf(r) = OrderOf(req[q])
    BY <2>1 DEF OrderOf, OrderPc
  <2> QED BY <1>1, <1>2, <2>1, <2>2, KeepOrder
<1>5. CASE UpdateRootManifest(q)
  <2> DEFINE root == req[q].next
             r == [req[q] EXCEPT !.rec.root_cid = root]
             w == Walked(r, Collect({}, root), root)
  <2>1. Finish(q) \/ Goto(q, w)
    BY <1>5 DEF UpdateRootManifest
  <2>2. req[q].pc = "manifest" /\ root \in Cid /\ req[q].op = "update_root"
    BY <1>0, <1>5 DEF UpdateRootManifest, At, LocalsOK
  <2>3. /\ r \in Request /\ r.op = req[q].op /\ r.id = req[q].id
        /\ r.key = req[q].key /\ r.rec.root_cid = root
    BY <1>0, <2>2, RootNoted
  <2> HIDE DEF r
  <2>4. /\ w.pc \in {"walk", "get"} /\ w.op = "update_root" /\ w.id = req[q].id
        /\ w.key = req[q].key /\ w.rec.root_cid = root
    BY <2>2, <2>3, WalkedFields
  <2> HIDE DEF w
  <2>5. Asked(w) = Asked(req[q])
    BY <2>2, <2>4 DEF Asked
  <2>6. OrderOf(w) = OrderOf(req[q])
    BY <2>2, <2>4, <2>5 DEF OrderOf, OrderPc
  <2> QED BY <1>1, <1>2, <2>1, <2>6, KeepOrder
<1>6. CASE UpdateRootWalk(q)
  <2>1. PICK cids, c : Finish(q) \/ Goto(q, Walked(req[q], cids, c))
    BY <1>6 DEF UpdateRootWalk
  <2> DEFINE w == Walked(req[q], cids, c)
  <2>2. req[q].pc = "walk" /\ req[q].op = "update_root"
    BY <1>0, <1>6 DEF UpdateRootWalk, At, LocalsOK
  <2>3. /\ w.pc \in {"walk", "get"} /\ w.op = "update_root" /\ w.id = req[q].id
        /\ w.key = req[q].key /\ w.rec.root_cid = req[q].rec.root_cid
    BY <1>0, <2>2, WalkedFields
  <2> HIDE DEF w
  <2>4. Asked(w) = Asked(req[q])
    BY <2>2, <2>3 DEF Asked
  <2>5. OrderOf(w) = OrderOf(req[q])
    BY <2>2, <2>3, <2>4 DEF OrderOf, OrderPc
  <2> QED BY <1>1, <1>2, <2>1, <2>5, KeepOrder DEF w
<1>7. CASE DeleteGet(q)
  <2>1. PICK rec : Finish(q) \/ Goto(q, [req[q] EXCEPT !.pc = "remove", !.rec = rec])
    BY <1>7 DEF DeleteGet
  <2> DEFINE r == [req[q] EXCEPT !.pc = "remove", !.rec = rec]
  <2>2. /\ r.pc = "remove" /\ r.id = req[q].id /\ r.key = req[q].key
        /\ r.op = req[q].op /\ req[q].pc = "delete_get" /\ req[q].op = "delete"
    BY <1>0, <1>7 DEF DeleteGet, At, Request, OrderOK
  <2> HIDE DEF r
  <2>3. Asked(r) = Asked(req[q])
    BY <2>2 DEF Asked
  <2>4. OrderOf(r) = OrderOf(req[q])
    BY <2>2, <2>3 DEF OrderOf, OrderPc
  <2> QED BY <1>1, <1>2, <2>1, <2>4, KeepOrder DEF r
<1> QED BY <1>2, <1>3, <1>4, <1>5, <1>6, <1>7
        DEF Handle, SetProjectOwner, DeleteKv, UploadPut, PutValueWrite, RequestFails

-----------------------------------------------------------------------------
(* The reaper.                                                             *)

\* What the sweep takes for expired is overdue; it removes nothing else.
LEMMA ReapImplements ==
  ASSUME TypeOK, SweepInv, ReaperInv,
         Reap \/ (\E p \in Project : ReaperReadFails(p)) \/ ReaperCallFails
  PROVE  \/ \E p \in Project : Promise!Doom(p) \/ Promise!Expire(p) \/ Promise!Spare(p)
         \/ UNCHANGED Promise!vars
<1>1. UNCHANGED <<creator, req, clock>>
  BY DEF Reap, ReaperList, ReaperRead, ReaperDeleteGet, ReaperRemove, ReaperBlob, ReaperKv,
         ReaperDone, ReaperReadFails, ReaperCallFails, history
<1>2. Orders(req') = Orders(req)
  BY <1>1
<1>3. reaper \in Sweep /\ reaper.now \in Nat /\ clock \in Nat /\ reaper.now <= clock
  BY InstanceType DEF TypeOK, Sweep, SweepInv
<1>4. ASSUME UNCHANGED projects, UNCHANGED DoomedNow PROVE UNCHANGED Promise!vars
  BY <1>1, <1>2, <1>4 DEF Promise!vars
<1>5. ASSUME NEW p \in Project, UNCHANGED projects, DoomedNow' = DoomedNow \ {p}
      PROVE  Promise!Spare(p)
  BY <1>1, <1>2, <1>5 DEF Promise!Spare
<1>6. CASE ReaperList
  <2>1. DoomedNow = {}
    BY <1>6 DEF ReaperList, ReaperInv, DoomedNow
  <2>2. reaper'.pc = "scan" /\ reaper'.expired = {} /\ UNCHANGED projects
    BY <1>6 DEF ReaperList, Asleep, stores
  <2>3. DoomedNow' = {}
    BY <2>2 DEF DoomedNow
  <2> QED BY <1>4, <2>1, <2>2, <2>3
<1>7. ASSUME NEW p \in Project, ReaperRead(p)
      PROVE  Promise!Doom(p) \/ UNCHANGED Promise!vars
  <2> DEFINE s == [reaper EXCEPT !.todo = @ \ {p}]
  <2>1. /\ reaper' = Partition(s, p, projects[p]) /\ reaper.pc = "scan"
        /\ UNCHANGED projects
    BY <1>7 DEF ReaperRead, stores
  <2>2. /\ s \in Sweep /\ s.pc = "scan" /\ s.now = reaper.now
        /\ s.expired = reaper.expired
    BY <1>3, <2>1 DEF Sweep
  <2> HIDE DEF s
  <2>3. DoomedNow = reaper.expired
    BY <2>1 DEF DoomedNow
  <2>4. CASE projects[p] # None /\ IsExpired(projects[p], s.now)
    <3>1. reaper'.pc = "scan" /\ reaper'.expired = reaper.expired \cup {p}
      BY <2>1, <2>2, <2>4 DEF Partition, Sweep
    <3>2. DoomedNow' = DoomedNow \cup {p}
      BY <2>3, <3>1 DEF DoomedNow
    <3>3. Promise!Overdue(projects[p])
      <4>1. projects[p].expires_at \in Nat \cup {None}
        BY <2>4 DEF TypeOK, ProjectRecord
      <4> QED BY <1>3, <2>2, <2>4, <4>1 DEF IsExpired, Promise!Overdue
    <3> QED BY <1>1, <1>2, <2>1, <2>4, <3>2, <3>3 DEF Promise!Doom
  <2>5. CASE ~ (projects[p] # None /\ IsExpired(projects[p], s.now))
    <3>1. reaper'.pc = "scan" /\ reaper'.expired = reaper.expired
      BY <2>1, <2>2, <2>5 DEF Partition, Sweep
    <3>2. DoomedNow' = DoomedNow
      BY <2>3, <3>1 DEF DoomedNow
    <3> QED BY <1>4, <2>1, <3>2
  <2> QED BY <2>4, <2>5
<1>8. ASSUME NEW p \in Project, ReaperDeleteGet(p)
      PROVE  Promise!Spare(p) \/ UNCHANGED Promise!vars
  <2>1. UNCHANGED projects /\ reaper.pc = "scan" /\ p \in reaper.expired
    BY <1>8 DEF ReaperDeleteGet, stores
  <2>2. \/ /\ reaper'.pc = "scan" /\ reaper'.expired = reaper.expired \ {p}
        \/ /\ reaper'.pc = "remove" /\ reaper'.expired = reaper.expired \ {p}
           /\ reaper'.cur = p
    BY <1>3, <1>8 DEF ReaperDeleteGet, Sweep
  <2>3. DoomedNow' = DoomedNow \ {p} \/ DoomedNow' = DoomedNow
    BY <2>1, <2>2 DEF DoomedNow
  <2> QED BY <1>4, <1>5, <2>1, <2>3
<1>9. CASE ReaperRemove
  <2>1. /\ reaper.pc = "remove" /\ reaper.cur \in Project
        /\ projects' = [projects EXCEPT ![reaper.cur] = None]
    BY <1>9 DEF ReaperRemove, TypeOK
  <2>2. reaper'.pc # "remove" /\ reaper'.expired = reaper.expired
    BY <1>3, <1>9 DEF ReaperRemove, Sweep
  <2>3. DoomedNow' = DoomedNow \ {reaper.cur} /\ reaper.cur \in DoomedNow
    BY <2>1, <2>2 DEF DoomedNow, ReaperInv
  <2> QED BY <1>1, <1>2, <2>1, <2>3 DEF Promise!Expire
<1>10. ASSUME ReaperKv \/ (\E c \in Cid : ReaperBlob(c))
       PROVE  UNCHANGED Promise!vars
  <2>1. /\ UNCHANGED projects /\ reaper.pc = "blobs"
        /\ reaper'.pc # "remove" /\ reaper'.expired = reaper.expired
    BY <1>3, <1>10 DEF ReaperKv, ReaperBlob, Sweep
  <2>2. DoomedNow' = DoomedNow
    BY <2>1 DEF DoomedNow
  <2> QED BY <1>4, <2>1, <2>2
<1>11. CASE ReaperDone
  <2>1. /\ UNCHANGED projects /\ reaper.pc = "scan" /\ reaper.expired = {}
        /\ reaper'.pc = "sleep" /\ reaper'.expired = {}
    BY <1>11 DEF ReaperDone, Asleep, stores
  <2>2. DoomedNow' = DoomedNow
    BY <2>1 DEF DoomedNow
  <2> QED BY <1>4, <2>1, <2>2
<1>12. ASSUME NEW p \in Project, ReaperReadFails(p) PROVE UNCHANGED Promise!vars
  <2>1. /\ UNCHANGED projects /\ reaper.pc = "scan"
        /\ reaper'.pc = "scan" /\ reaper'.expired = reaper.expired
    BY <1>3, <1>12 DEF ReaperReadFails, Sweep, stores
  <2>2. DoomedNow' = DoomedNow
    BY <2>1 DEF DoomedNow
  <2> QED BY <1>4, <2>1, <2>2
<1>13. CASE ReaperCallFails
  <2>0. UNCHANGED projects
    BY <1>13 DEF ReaperCallFails, stores
  <2>1. CASE /\ reaper.pc = "scan"
             /\ \E p \in reaper.expired : reaper' = [reaper EXCEPT !.expired = @ \ {p}]
    <3>1. PICK p \in reaper.expired : reaper' = [reaper EXCEPT !.expired = @ \ {p}]
      BY <2>1
    <3>2. p \in Project /\ reaper'.pc = "scan" /\ reaper'.expired = reaper.expired \ {p}
      BY <1>3, <2>1, <3>1 DEF Sweep
    <3>3. DoomedNow' = DoomedNow \ {p}
      BY <2>1, <3>2 DEF DoomedNow
    <3> QED BY <1>5, <2>0, <3>2, <3>3
  <2>2. CASE /\ reaper.pc = "remove"
             /\ reaper' = [reaper EXCEPT !.pc = "scan", !.cur = None, !.cids = {}]
    <3>1. reaper.cur \in Project /\ reaper'.pc = "scan" /\ reaper'.expired = reaper.expired
      BY <1>3, <2>2 DEF Sweep, TypeOK
    <3>2. DoomedNow' = DoomedNow \ {reaper.cur}
      BY <2>2, <3>1 DEF DoomedNow, ReaperInv
    <3> QED BY <1>5, <2>0, <3>1, <3>2
  <2>3. CASE /\ reaper.pc = "blobs" /\ reaper'.pc # "remove"
             /\ reaper'.expired = reaper.expired
    <3>1. DoomedNow' = DoomedNow
      BY <2>3 DEF DoomedNow
    <3> QED BY <1>4, <2>0, <3>1
  <2>4. reaper.pc = "blobs" => reaper'.pc # "remove" /\ reaper'.expired = reaper.expired
    BY <1>3, <1>13 DEF ReaperCallFails, Sweep
  <2> QED BY <1>13, <2>1, <2>2, <2>3, <2>4 DEF ReaperCallFails
<1> QED BY <1>6, <1>7, <1>8, <1>9, <1>10, <1>11, <1>12, <1>13 DEF Reap

-----------------------------------------------------------------------------

LEMMA InitImplements == Init => Promise!Init
<1> SUFFICES ASSUME Init PROVE Promise!Init
  OBVIOUS
<1>1. DOMAIN projects = Project /\ creator \in [Project -> Key \cup {None}]
  BY DEF Init
<1>2. \A p \in Project : projects[p] = None
  BY DEF Init
<1>3. Orders(req) = [q \in Req |-> None]
  BY DEF Init, Orders, OrderOf, OrderPc, IdleReq
<1>4. DoomedNow = {}
  BY DEF Init, DoomedNow, Asleep
<1>5. clock \in Nat
  BY DEF Init
<1> QED BY <1>1, <1>2, <1>3, <1>4, <1>5 DEF Promise!Init

LEMMA StepImplements ==
  ASSUME TypeOK, CoverageInv, WriteInv, OrdersOK, SweepInv, ReaperInv,
         TypeOK', OrdersOK', [Next]_vars
  PROVE  [Promise!Next]_(Promise!vars)
<1>1. ASSUME NEW q \in Req, Arrive(q) PROVE [Promise!Next]_(Promise!vars)
  BY <1>1, ArriveImplements DEF Promise!Next
<1>2. ASSUME NEW q \in Req, Handle(q) \/ RequestFails(q)
      PROVE  [Promise!Next]_(Promise!vars)
  BY <1>2, CreateImplements, DrawUpImplements, CarryOutImplements,
     HandleImplements DEF Promise!Next
<1>3. CASE Reap \/ (\E p \in Project : ReaperReadFails(p)) \/ ReaperCallFails
  BY <1>3, ReapImplements DEF Promise!Next
<1>4. CASE Tick
  <2>1. UNCHANGED <<projects, creator, req, reaper>> /\ clock' = clock + 1
    BY <1>4 DEF Tick, stores, history
  <2>2. Orders(req') = Orders(req) /\ DoomedNow' = DoomedNow
    BY <2>1 DEF DoomedNow
  <2> QED BY <2>1, <2>2 DEF Promise!Next, Promise!Tick
<1>5. CASE Crash
  <2>1. /\ UNCHANGED <<projects, creator, clock>>
        /\ req' = [q \in Req |-> IdleReq] /\ reaper' = Asleep
    BY <1>5 DEF Crash, stores, history
  <2>2. Orders(req') = [q \in Req |-> None]
    BY <2>1 DEF Orders, OrderOf, OrderPc, IdleReq
  <2>3. DoomedNow' = {}
    BY <2>1 DEF DoomedNow, Asleep
  <2> QED BY <2>1, <2>2, <2>3 DEF Promise!Next, Promise!Forget
<1>6. CASE UNCHANGED vars
  <2>1. UNCHANGED <<projects, creator, clock, req, reaper>>
    BY <1>6 DEF vars, stores, history
  <2>2. Orders(req') = Orders(req) /\ DoomedNow' = DoomedNow
    BY <2>1 DEF DoomedNow
  <2> QED BY <2>1, <2>2 DEF Promise!vars
<1> QED BY <1>1, <1>2, <1>3, <1>4, <1>5, <1>6 DEF Next

\* Every behaviour of the server is one of the registry: records change only
\* by creations, by orders that were signed, each of which sets what it asks
\* for in the record as it was at one moment since, and by removals decided on
\* a record past its deadline.
THEOREM ServerImplementsRegistry == Spec => ImplementsRegistry
<1>1. Init => ReaperInv /\ OrdersOK
  BY DEF Init, ReaperInv, Asleep, OrdersOK, OrderOK, IdleReq
<1>2. TypeOK /\ SweepInv /\ ReaperInv /\ [Next]_vars => ReaperInv'
  BY StepReaper
<1>3. TypeOK /\ OrdersOK /\ [Next]_vars => OrdersOK'
  BY StepOrdersOK
<1>4. TypeOK /\ CoverageInv /\ WriteInv /\ OrdersOK /\ SweepInv /\ ReaperInv
        /\ TypeOK' /\ OrdersOK' /\ [Next]_vars
        => [Promise!Next]_(Promise!vars)
  BY StepImplements
<1> QED BY <1>1, <1>2, <1>3, <1>4, InitImplements, TypeCorrect,
           CoverageInvHolds, WriteInvHolds, SweepInvHolds, PTL
        DEF Spec, ImplementsRegistry, Promise!Spec
=============================================================================
