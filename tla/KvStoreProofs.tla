---------------------------- MODULE KvStoreProofs ----------------------------
(***************************************************************************)
(* The quota of a project's store and what a removed project leaves in it, *)
(* for any number of keys and requests, any sizes and limits, on either    *)
(* backend:                                                                *)
(*                                                                         *)
(*   - no put is admitted that does not fit by its own measurements;       *)
(*   - the values of a store come to no more than its limit and one value  *)
(*     for each further request;                                           *)
(*   - once the project is removed, only values of puts that were under    *)
(*     way then can stay.                                                  *)
(***************************************************************************)
EXTENDS KvStore, FiniteSetTheorems, TLAPS

-----------------------------------------------------------------------------
(* Sums of sizes, as numbers of bytes.                                     *)

\* What the assumptions say of the bounds.
LEMMA Numbers ==
  /\ MaxValue \in Nat /\ MaxTotal \in Nat /\ MaxFaults \in Nat
  /\ IsFiniteSet(Key) /\ Cardinality(Key) \in Nat
  /\ IsFiniteSet(Req) /\ Cardinality(Req) \in Nat /\ Cardinality(Req) >= 1
  /\ Len \subseteq Nat /\ None \notin Len /\ 0 \in Len
<1>1. IsFiniteSet(Key) /\ IsFiniteSet(Req) /\ Req # {}
  BY LimitsType
<1>2. Cardinality(Key) \in Nat /\ Cardinality(Req) \in Nat
  BY <1>1, FS_CardinalityType
<1>3. Cardinality(Req) # 0
  BY <1>1, FS_EmptySet
<1> QED BY <1>1, <1>2, <1>3, LimitsType DEF Len

\* The larger of two factors.
LEMMA Times ==
  ASSUME NEW a \in Nat, NEW b \in Nat, NEW c \in Nat
  PROVE  /\ c * a \in Nat /\ c * (a + 1) = c * a + c
         /\ a <= b => c * a <= c * b
<1>1. c * a \in Nat /\ c * (a + 1) = c * a + c
  OBVIOUS
<1>2. ASSUME a <= b PROVE c * a <= c * b
  <2>1. PICK d \in Nat : b = a + d
    <3>1. b - a \in Nat /\ b = a + (b - a)
      BY <1>2
    <3> QED BY <3>1
  <2>2. c * b = c * a + c * d /\ c * d \in Nat /\ c * a \in Nat
    BY <2>1
  <2> QED BY <2>2
<1> QED BY <1>1, <1>2

LEMMA Positions ==
  ASSUME NEW n \in Nat
  PROVE  IsFiniteSet(1 .. n) /\ Cardinality(1 .. n) = n
BY FS_Interval

\* The bytes under one key.
LEMMA Column ==
  ASSUME NEW k, NEW n \in Nat
  PROVE  IsFiniteSet({k} \X (1 .. n)) /\ Cardinality({k} \X (1 .. n)) = n
<1>1. IsFiniteSet({k}) /\ Cardinality({k}) = 1
  BY FS_Singleton
<1>2. IsFiniteSet(1 .. n) /\ Cardinality(1 .. n) = n
  BY Positions
<1>3. IsFiniteSet({k} \X (1 .. n)) /\ Cardinality({k} \X (1 .. n)) = 1 * n
  BY <1>1, <1>2, FS_Product
<1> QED BY <1>3

\* No count exceeds all keys at the largest size.
LEMMA CountType ==
  ASSUME NEW s
  PROVE  /\ IsFiniteSet(Bytes(s)) /\ Count(s) \in Nat
         /\ Count(s) <= MaxValue * Cardinality(Key)
<1>1. /\ IsFiniteSet(Key \X (1 .. MaxValue))
      /\ Cardinality(Key \X (1 .. MaxValue)) = Cardinality(Key) * MaxValue
  <2>1. IsFiniteSet(1 .. MaxValue) /\ Cardinality(1 .. MaxValue) = MaxValue
    BY Numbers, Positions
  <2>2. IsFiniteSet(Key)
    BY Numbers
  <2> QED BY <2>1, <2>2, FS_Product
<1>2. Bytes(s) \in SUBSET (Key \X (1 .. MaxValue))
  BY DEF Bytes
<1>3. IsFiniteSet(Bytes(s)) /\ Cardinality(Bytes(s)) <= Cardinality(Key) * MaxValue
  BY <1>1, <1>2, FS_Subset
<1>4. Cardinality(Bytes(s)) \in Nat
  BY <1>3, FS_CardinalityType
<1>5. Cardinality(Key) * MaxValue = MaxValue * Cardinality(Key)
  BY Numbers
<1> QED BY <1>3, <1>4, <1>5 DEF Count

\* One size changes.
LEMMA CountUpdate ==
  ASSUME NEW s \in [Key -> Len], NEW k \in Key, NEW v \in Len
  PROVE  Count([s EXCEPT ![k] = v]) = Count(s) - s[k] + v
<1> DEFINE Rest == {b \in Bytes(s) : b[1] # k}
<1>1. ASSUME NEW t \in [Key -> Len], {b \in Bytes(t) : b[1] # k} = Rest
      PROVE  Count(t) = Cardinality(Rest) + t[k] /\ Cardinality(Rest) \in Nat
  <2>1. t[k] \in Nat /\ t[k] <= MaxValue
    BY Numbers DEF Len
  <2>2. Bytes(t) = Rest \cup ({k} \X (1 .. t[k]))
    <3>1. {b \in Bytes(t) : b[1] = k} = {k} \X (1 .. t[k])
      BY <2>1, Numbers DEF Bytes
    <3> QED BY <1>1, <3>1
  <2>3. Rest \cap ({k} \X (1 .. t[k])) = {}
    OBVIOUS
  <2>4. IsFiniteSet(Rest) /\ Cardinality(Rest) \in Nat
    <3>1. Rest \in SUBSET Bytes(s)
      OBVIOUS
    <3> QED BY <3>1, CountType, FS_Subset, FS_CardinalityType
  <2>5. IsFiniteSet({k} \X (1 .. t[k])) /\ Cardinality({k} \X (1 .. t[k])) = t[k]
    BY <2>1, Column
  <2> HIDE DEF Rest
  <2>6. Cardinality(Bytes(t)) = Cardinality(Rest) + t[k] - Cardinality({})
    BY <2>2, <2>3, <2>4, <2>5, FS_Union
  <2>7. Cardinality({}) = 0
    BY FS_EmptySet
  <2> QED BY <2>1, <2>4, <2>6, <2>7 DEF Count
<1>2. Count(s) = Cardinality(Rest) + s[k] /\ Cardinality(Rest) \in Nat
  BY <1>1
<1> DEFINE t == [s EXCEPT ![k] = v]
<1>3. t \in [Key -> Len] /\ t[k] = v
  OBVIOUS
<1>4. {b \in Bytes(t) : b[1] # k} = Rest
  BY DEF Bytes
<1> HIDE DEF t
<1>5. Count(t) = Cardinality(Rest) + v
  BY <1>1, <1>3, <1>4
<1>6. v \in Nat /\ s[k] \in Nat
  BY Numbers
<1> HIDE DEF Rest
<1>7. Count(t) = Count(s) - s[k] + v
  BY <1>2, <1>5, <1>6
<1> QED BY <1>7 DEF t

\* Sizes that exceed others at a few keys only.
LEMMA CountCovered ==
  ASSUME NEW s \in [Key -> Len], NEW t \in [Key -> Len], NEW X \in SUBSET Key,
         \A k \in Key \ X : s[k] <= t[k]
  PROVE  /\ Cardinality(X) \in Nat
         /\ Count(s) <= Count(t) + MaxValue * Cardinality(X)
<1> DEFINE Extra == X \X (1 .. MaxValue)
<1>1. IsFiniteSet(X) /\ Cardinality(X) \in Nat
  BY Numbers, FS_Subset, FS_CardinalityType
<1>2. IsFiniteSet(Extra) /\ Cardinality(Extra) = Cardinality(X) * MaxValue
  <2>1. IsFiniteSet(1 .. MaxValue) /\ Cardinality(1 .. MaxValue) = MaxValue
    BY Numbers, Positions
  <2> QED BY <1>1, <2>1, FS_Product
<1>3. Bytes(s) \in SUBSET (Bytes(t) \cup Extra)
  <2> SUFFICES ASSUME NEW b \in Bytes(s), b \notin Extra PROVE b \in Bytes(t)
    OBVIOUS
  <2>1. b \in Key \X (1 .. MaxValue) /\ b[2] <= s[b[1]]
    BY DEF Bytes
  <2>2. b[1] \in Key \ X /\ b[2] \in Nat
    BY <2>1, Numbers
  <2>3. s[b[1]] <= t[b[1]] /\ s[b[1]] \in Nat /\ t[b[1]] \in Nat
    BY <2>2, Numbers
  <2> QED BY <2>1, <2>2, <2>3 DEF Bytes
<1>4. /\ IsFiniteSet(Bytes(t) \cup Extra)
      /\ Cardinality(Bytes(t) \cup Extra) =
           Count(t) + Cardinality(Extra) - Cardinality(Bytes(t) \cap Extra)
  BY <1>2, CountType, FS_Union DEF Count
<1>5. Cardinality(Bytes(t) \cap Extra) \in Nat
  BY <1>2, FS_Intersection, FS_CardinalityType
<1>6. Count(s) <= Cardinality(Bytes(t) \cup Extra)
  BY <1>3, <1>4, FS_Subset DEF Count
<1>7. Cardinality(X) * MaxValue = MaxValue * Cardinality(X) /\ MaxValue * Cardinality(X) \in Nat
  BY <1>1, Numbers
<1> QED BY <1>1, <1>2, <1>4, <1>5, <1>6, <1>7, CountType

-----------------------------------------------------------------------------
(* Types, and that only a value that fits is admitted.                     *)

\* What a request has measured is no more than the files it has read can hold,
\* and what it writes was measured to fit.
RequestOK(r) ==
  /\ r \in Request
  /\ r.pc # "idle" => r.key \in Key
  /\ r.linked => r.pc = "data"
  /\ r.total <= MaxValue * Cardinality(Key \ r.todo)
  /\ r.pc = "write" => r.total + r.len <= MaxTotal + r.old

StateOK ==
  /\ backend \in Backend /\ project \in BOOLEAN
  /\ size \in [Key -> Len \cup {None}]
  /\ remover \in {"idle", "list", "clear", "done"} /\ (project => remover = "idle")
  /\ doomed \subseteq Key /\ (doomed # {} => remover = "clear")
  /\ faults \in 0 .. MaxFaults /\ racing \subseteq Key

MeasuredInv ==
  /\ StateOK
  /\ req \in [Req -> Request] /\ \A q \in Req : RequestOK(req[q])

LEMMA MeasuredImplies == MeasuredInv => TypeOK /\ AdmitsOnlyFitting
BY DEF MeasuredInv, StateOK, RequestOK, TypeOK, AdmitsOnlyFitting, At

LEMMA SizesType ==
  ASSUME size \in [Key -> Len \cup {None}]
  PROVE  Sizes \in [Key -> Len] /\ \A k \in Key : SizeOf(k) \in Len /\ Sizes[k] = SizeOf(k)
BY Numbers DEF Sizes, SizeOf

LEMMA MaxOfTwo ==
  ASSUME NEW a \in Len, NEW b \in Len
  PROVE  /\ Max({a, b}) \in {a, b}
         /\ a <= Max({a, b}) /\ b <= Max({a, b})
         /\ \A c \in Nat : a <= c /\ b <= c => Max({a, b}) <= c
<1>1. a \in Nat /\ b \in Nat
  BY Numbers
<1>2. \E x \in {a, b} : \A y \in {a, b} : x >= y
  BY <1>1
<1>3. Max({a, b}) \in {a, b} /\ \A y \in {a, b} : Max({a, b}) >= y
  BY <1>2 DEF Max
<1> QED BY <1>1, <1>3

\* As many files as are not in X hold no more than all do.
LEMMA Files ==
  ASSUME NEW X
  PROVE  /\ IsFiniteSet(Key \ X) /\ Cardinality(Key \ X) \in Nat
         /\ Cardinality(Key \ X) <= Cardinality(Key)
         /\ 0 <= MaxValue * Cardinality(Key \ X)
         /\ MaxValue * Cardinality(Key \ X) <= MaxValue * Cardinality(Key)
<1>1. Key \ X \in SUBSET Key /\ IsFiniteSet(Key)
  BY Numbers
<1>2. /\ IsFiniteSet(Key \ X) /\ Cardinality(Key \ X) \in Nat
      /\ Cardinality(Key \ X) <= Cardinality(Key)
  BY <1>1, FS_Subset, FS_CardinalityType
<1> QED BY <1>2, Numbers, Times

LEMMA IdleOK == RequestOK(IdleReq) /\ IdleReq.pc = "idle"
<1>1. IdleReq \in Request
  BY Numbers DEF IdleReq, Request
<1>2. IdleReq.total <= MaxValue * Cardinality(Key \ IdleReq.todo)
  BY Files DEF IdleReq
<1> QED BY <1>1, <1>2 DEF IdleReq, RequestOK

\* The unsigned check on numbers that no sum wraps.
LEMMA AdmitsFitting ==
  ASSUME NEW total \in Nat, NEW old \in Len, NEW len \in Len,
         total <= MaxValue * Cardinality(Key), StoreAdmits(total, old, len)
  PROVE  total + len <= MaxTotal + old
<1> DEFINE w == 2^Width
           x == total - old + len
<1>1. w \in Nat
  <2>1. IsFiniteSet(1 .. Width) /\ Cardinality(1 .. Width) = Width
    BY Positions, LimitsType
  <2>2. IsFiniteSet(SUBSET (1 .. Width)) /\ Cardinality(SUBSET (1 .. Width)) = 2^Width
    BY <2>1, FS_SUBSET
  <2> QED BY <2>2, FS_CardinalityType
<1>2. MaxValue * Cardinality(Key) + MaxValue < w
  <2>1. (Cardinality(Key) + 1) * MaxValue = MaxValue * Cardinality(Key) + MaxValue
    BY Numbers
  <2> QED BY <2>1, WidthSuffices
<1>3. /\ old \in Nat /\ len \in Nat /\ len <= MaxValue /\ MaxValue \in Nat
      /\ MaxTotal \in Nat /\ MaxValue * Cardinality(Key) \in Nat
  BY Numbers, Times DEF Len
<1>4. x % w <= MaxTotal
  BY DEF StoreAdmits
<1> HIDE DEF w
<1>5. x < w /\ w > 0 /\ x \in Int
  BY <1>1, <1>2, <1>3
<1>6. CASE x >= 0
  <2>1. x % w = x
    BY <1>1, <1>5, <1>6
  <2> QED BY <1>3, <1>4, <2>1
<1>7. CASE x < 0
  BY <1>3, <1>7
<1> QED BY <1>5, <1>6, <1>7

\* A walk reads another file, or a listing is answered.
LEMMA MeasuresOK ==
  ASSUME MeasuredInv, NEW q \in Req, PutMeasure(q)
  PROVE  \E r : Goto(q, r) /\ RequestOK(r)
<1>1. PICK r \in Measured(req[q]) : Goto(q, r)
  BY DEF PutMeasure
<1>2. RequestOK(req[q]) /\ req[q] \in Request /\ (At(q, "tier") \/ At(q, "measure"))
  BY DEF MeasuredInv, PutMeasure
<1>3. req[q].pc \in {"tier", "measure"} /\ req[q].key \in Key
  BY <1>2 DEF RequestOK, At
<1>4. CASE backend = "fs"
  <2>1. PICK k \in req[q].todo : r = [req[q] EXCEPT !.todo = @ \ {k}, !.total = @ + SizeOf(k)]
    BY <1>1, <1>4 DEF Measured
  <2>2. req[q].todo \subseteq Key /\ req[q].total \in Nat
    BY <1>2 DEF Request
  <2>3. SizeOf(k) \in Nat /\ SizeOf(k) <= MaxValue
    BY <2>1, <2>2, SizesType, Numbers DEF MeasuredInv, StateOK, Len
  <2>4. /\ r \in Request /\ r.pc = req[q].pc /\ r.key = req[q].key
        /\ r.linked = req[q].linked
        /\ r.total = req[q].total + SizeOf(k) /\ r.todo = req[q].todo \ {k}
    <3>1. req[q].total + SizeOf(k) \in Nat /\ req[q].todo \ {k} \in SUBSET Key
      BY <2>2, <2>3
    <3>2. r = [req[q] EXCEPT !.todo = req[q].todo \ {k}, !.total = req[q].total + SizeOf(k)]
      BY <2>1
    <3> QED BY <1>2, <3>1, <3>2 DEF Request
  <2>5. Cardinality(Key \ r.todo) = Cardinality(Key \ req[q].todo) + 1
    <3>1. Key \ r.todo = (Key \ req[q].todo) \cup {k}
      BY <2>1, <2>2, <2>4
    <3>2. IsFiniteSet(Key \ req[q].todo) /\ k \notin Key \ req[q].todo
      BY <2>1, Files
    <3> QED BY <3>1, <3>2, FS_AddElement
  <2>6. r.total <= MaxValue * Cardinality(Key \ r.todo)
    <3>1. MaxValue * Cardinality(Key \ r.todo) = MaxValue * Cardinality(Key \ req[q].todo) + MaxValue
      BY <2>5, Files, Times, Numbers
    <3>2. req[q].total <= MaxValue * Cardinality(Key \ req[q].todo)
          /\ MaxValue * Cardinality(Key \ req[q].todo) \in Nat
      BY <1>2, Files, Times, Numbers DEF RequestOK
    <3> QED BY <2>2, <2>3, <2>4, <3>1, <3>2, Numbers
  <2>7. RequestOK(r)
    BY <1>2, <1>3, <2>4, <2>6 DEF RequestOK
  <2> QED BY <1>1, <2>7
<1>5. CASE backend # "fs"
  <2>1. r = [req[q] EXCEPT !.todo = {}, !.total = Total, !.old = SizeOf(req[q].key)]
    BY <1>1, <1>5 DEF Measured
  <2>2. Total \in Nat /\ Total <= MaxValue * Cardinality(Key)
    BY CountType DEF Total
  <2>3. SizeOf(req[q].key) \in Len
    BY <1>3, SizesType DEF MeasuredInv, StateOK
  <2>4. /\ r \in Request /\ r.pc = req[q].pc /\ r.key = req[q].key
        /\ r.linked = req[q].linked /\ r.total = Total /\ r.todo = {}
    BY <1>2, <2>1, <2>2, <2>3 DEF Request
  <2>5. Key \ r.todo = Key
    BY <2>4
  <2>6. RequestOK(r)
    BY <1>2, <1>3, <2>2, <2>4, <2>5 DEF RequestOK
  <2> QED BY <1>1, <2>6
<1> QED BY <1>4, <1>5

\* Every other step of a request.
LEMMA LocalsOK ==
  ASSUME MeasuredInv, NEW q \in Req,
         \/ PutFetch(q) \/ DeleteFetch(q) \/ PutTierCheck(q) \/ PutExisting(q)
         \/ PutStoreCheck(q) \/ DeleteProbe(q) \/ RequestFails(q)
         \/ PutWrite(q) \/ PutData(q)
  PROVE  \E r : Goto(q, r) /\ RequestOK(r)
<1>1. RequestOK(req[q]) /\ req[q] \in Request
  BY DEF MeasuredInv
<1>2. ASSUME Finish(q) PROVE \E r : Goto(q, r) /\ RequestOK(r)
  BY <1>2, IdleOK DEF Finish
<1>3. CASE PutFetch(q)
  <2>1. PICK k \in Key, len \in Len, limit \in TierTotal :
          Goto(q, [IdleReq EXCEPT !.pc = "tier", !.key = k, !.len = len,
                                  !.limit = limit, !.todo = Key])
    BY <1>3 DEF PutFetch
  <2>2. PICK r : r = [IdleReq EXCEPT !.pc = "tier", !.key = k, !.len = len,
                                  !.limit = limit, !.todo = Key]
    OBVIOUS
  <2>3. r \in Request /\ r.pc = "tier" /\ r.key \in Key /\ ~r.linked /\ r.total = 0
    BY <2>2, Numbers DEF IdleReq, Request
  <2>4. RequestOK(r)
    BY <2>3, Files DEF RequestOK
  <2> QED BY <2>1, <2>2, <2>4
<1>4. CASE DeleteFetch(q)
  <2>1. PICK k \in Key : Goto(q, [IdleReq EXCEPT !.pc = "probe", !.key = k])
    BY <1>4 DEF DeleteFetch
  <2>2. PICK r : r = [IdleReq EXCEPT !.pc = "probe", !.key = k]
    OBVIOUS
  <2>3. r \in Request /\ r.pc = "probe" /\ r.key \in Key /\ ~r.linked /\ r.total = 0
    BY <2>2, Numbers DEF IdleReq, Request
  <2>4. RequestOK(r)
    BY <2>3, Files DEF RequestOK
  <2> QED BY <2>1, <2>2, <2>4
<1>5. CASE PutTierCheck(q)
  <2>1. PICK r : r = [req[q] EXCEPT !.pc = "measure", !.todo = Key, !.total = 0]
    OBVIOUS
  <2>2. req[q].pc = "tier"
    BY <1>5 DEF PutTierCheck, At
  <2>3. /\ r \in Request /\ r.pc = "measure" /\ r.key = req[q].key
        /\ r.linked = req[q].linked /\ r.total = 0
    BY <1>1, <2>1 DEF Request
  <2>4. RequestOK(r)
    BY <1>1, <2>2, <2>3, Files DEF RequestOK
  <2> QED BY <1>2, <1>5, <2>1, <2>4 DEF PutTierCheck
<1>6. CASE PutExisting(q)
  <2>1. PICK r : r = [req[q] EXCEPT !.pc = "existing",
                        !.old = IF backend = "fs" THEN SizeOf(req[q].key) ELSE @]
    OBVIOUS
  <2>2. req[q].pc = "measure" /\ req[q].key \in Key
    BY <1>1, <1>6 DEF PutExisting, At, RequestOK
  <2>3. SizeOf(req[q].key) \in Len
    BY <2>2, SizesType DEF MeasuredInv, StateOK
  <2>4. /\ r \in Request /\ r.pc = "existing" /\ r.key = req[q].key
        /\ r.linked = req[q].linked /\ r.total = req[q].total /\ r.todo = req[q].todo
    BY <1>1, <2>1, <2>3 DEF Request
  <2>5. RequestOK(r)
    BY <1>1, <2>2, <2>4 DEF RequestOK
  <2> QED BY <1>6, <2>1, <2>5 DEF PutExisting
<1>7. CASE PutStoreCheck(q)
  <2>1. PICK r : r = [req[q] EXCEPT !.pc = "write"]
    OBVIOUS
  <2>2. req[q].pc = "existing"
    BY <1>7 DEF PutStoreCheck, At
  <2>3. /\ r \in Request /\ r.pc = "write" /\ r.key = req[q].key /\ r.old = req[q].old
        /\ r.linked = req[q].linked /\ r.total = req[q].total /\ r.todo = req[q].todo
        /\ r.len = req[q].len
    BY <1>1, <2>1 DEF Request
  <2>4. ASSUME StoreAdmits(req[q].total, req[q].old, req[q].len)
        PROVE  RequestOK(r)
    <3>1. /\ req[q].total \in Nat /\ req[q].old \in Len /\ req[q].len \in Len
          /\ req[q].total <= MaxValue * Cardinality(Key \ req[q].todo)
      BY <1>1 DEF RequestOK, Request
    <3>2. req[q].total <= MaxValue * Cardinality(Key)
      <4> DEFINE a == MaxValue * Cardinality(Key \ req[q].todo)
                 b == MaxValue * Cardinality(Key)
      <4>1. a \in Nat /\ b \in Nat
        BY Files, Numbers, Times
      <4>2. a <= b
        BY Files
      <4>3. req[q].total \in Nat /\ req[q].total <= a
        BY <3>1
      <4> HIDE DEF a, b
      <4>4. req[q].total <= b
        BY <4>1, <4>2, <4>3
      <4> QED BY <4>4 DEF b
    <3>3. req[q].total + req[q].len <= MaxTotal + req[q].old
      BY <2>4, <3>1, <3>2, AdmitsFitting
    <3> QED BY <1>1, <2>2, <2>3, <3>3 DEF RequestOK
  <2> QED BY <1>2, <1>7, <2>1, <2>4 DEF PutStoreCheck
<1>8. CASE DeleteProbe(q)
  <2>1. PICK r : r = [req[q] EXCEPT !.pc = "unlink"]
    OBVIOUS
  <2>2. req[q].pc = "probe"
    BY <1>8 DEF DeleteProbe, At
  <2>3. /\ r \in Request /\ r.pc = "unlink" /\ r.key = req[q].key
        /\ r.linked = req[q].linked /\ r.total = req[q].total /\ r.todo = req[q].todo
    BY <1>1, <2>1 DEF Request
  <2>4. RequestOK(r)
    BY <1>1, <2>2, <2>3 DEF RequestOK
  <2> QED BY <1>2, <1>8, <2>1, <2>4 DEF DeleteProbe
<1>9. CASE RequestFails(q)
  BY <1>2, <1>9 DEF RequestFails
<1>10. CASE PutWrite(q)
  <2>1. PICK r : r = [req[q] EXCEPT !.pc = "data", !.linked = TRUE]
    OBVIOUS
  <2>2. req[q].pc = "write"
    BY <1>10 DEF PutWrite, At
  <2>3. /\ r \in Request /\ r.pc = "data" /\ r.key = req[q].key
        /\ r.total = req[q].total /\ r.todo = req[q].todo
    BY <1>1, <2>1 DEF Request
  <2>4. RequestOK(r)
    BY <1>1, <2>2, <2>3 DEF RequestOK
  <2> QED BY <1>2, <1>10, <2>1, <2>4 DEF PutWrite
<1>11. CASE PutData(q)
  BY <1>2, <1>11 DEF PutData
<1> QED BY <1>3, <1>4, <1>5, <1>6, <1>7, <1>8, <1>9, <1>10, <1>11

\* A file that loses its name changes nothing that was measured.
LEMMA UnlinkedOK ==
  ASSUME MeasuredInv, NEW k
  PROVE  /\ Unlinked(k) \in [Req -> Request]
         /\ \A q \in Req : RequestOK(Unlinked(k)[q])
<1>1. ASSUME NEW q \in Req PROVE RequestOK(Unlinked(k)[q])
  <2>1. RequestOK(req[q]) /\ req[q] \in Request
    BY DEF MeasuredInv
  <2>2. PICK r : r = [req[q] EXCEPT !.linked = FALSE]
    OBVIOUS
  <2>3. /\ r \in Request /\ r.pc = req[q].pc /\ r.key = req[q].key /\ r.old = req[q].old
        /\ r.linked = FALSE /\ r.total = req[q].total /\ r.todo = req[q].todo
        /\ r.len = req[q].len
    BY <2>1, <2>2 DEF Request
  <2>4. RequestOK(r)
    BY <2>1, <2>3 DEF RequestOK
  <2> QED BY <2>1, <2>2, <2>4 DEF Unlinked
<1>2. \A q \in Req : Unlinked(k)[q] \in Request
  BY <1>1 DEF RequestOK
<1>3. Unlinked(k) = [q \in Req |-> Unlinked(k)[q]]
  BY DEF Unlinked
<1> QED BY <1>1, <1>2, <1>3

\* What a write leaves.
LEMMA WriteSize ==
  ASSUME MeasuredInv, NEW q \in Req, PutWrite(q) \/ PutData(q)
  PROVE  size' \in [Key -> Len \cup {None}]
<1>1. /\ size \in [Key -> Len \cup {None}] /\ req[q].key \in Key /\ req[q].len \in Len
      /\ SizeOf(req[q].key) \in Len
  <2>1. RequestOK(req[q]) /\ req[q].pc # "idle"
    BY DEF MeasuredInv, PutWrite, PutData, At
  <2> QED BY <2>1, SizesType DEF MeasuredInv, StateOK, RequestOK, Request
<1>2. CASE PutWrite(q)
  BY <1>1, <1>2, Numbers DEF PutWrite
<1>3. CASE PutData(q)
  <2>1. Max({SizeOf(req[q].key), req[q].len}) \in Len
    BY <1>1, MaxOfTwo
  <2> QED BY <1>1, <1>3, <2>1 DEF PutData
<1> QED BY <1>2, <1>3

LEMMA InitMeasured == Init => MeasuredInv
<1> SUFFICES ASSUME Init PROVE MeasuredInv
  OBVIOUS
<1>1. StateOK
  BY Numbers DEF Init, StateOK
<1>2. IdleReq \in Request
  BY IdleOK DEF RequestOK
<1> QED BY <1>1, <1>2, IdleOK DEF Init, MeasuredInv

\* The types and the measurements are kept by every step.
LEMMA NextMeasured == MeasuredInv /\ [Next]_vars => MeasuredInv'
<1> SUFFICES ASSUME MeasuredInv, [Next]_vars PROVE MeasuredInv'
  OBVIOUS
<1>1. ASSUME NEW q \in Req, NEW r, Goto(q, r), RequestOK(r), StateOK'
      PROVE  MeasuredInv'
  <2>1. r \in Request
    BY <1>1 DEF RequestOK
  <2>2. req' \in [Req -> Request] /\ \A x \in Req : req'[x] = IF x = q THEN r ELSE req[x]
    BY <1>1, <2>1 DEF Goto, MeasuredInv
  <2>3. \A x \in Req : RequestOK(req'[x])
    BY <1>1, <2>2 DEF MeasuredInv
  <2> QED BY <1>1, <2>2, <2>3 DEF MeasuredInv, RequestOK
<1>2. ASSUME UNCHANGED <<backend, project, remover, doomed, racing>>,
             faults' \in 0 .. MaxFaults, size' \in [Key -> Len \cup {None}]
      PROVE  StateOK'
  BY <1>2 DEF MeasuredInv, StateOK
<1>3. ASSUME req' = req, StateOK' PROVE MeasuredInv'
  BY <1>3 DEF MeasuredInv, RequestOK
<1>4. size \in [Key -> Len \cup {None}] /\ faults \in 0 .. MaxFaults
  BY DEF MeasuredInv, StateOK
<1>5. ASSUME faults < MaxFaults, faults' = faults + 1 PROVE faults' \in 0 .. MaxFaults
  BY <1>4, <1>5, Numbers
<1>6. ASSUME NEW q \in Req, PutMeasure(q) PROVE MeasuredInv'
  BY <1>1, <1>2, <1>4, <1>6, MeasuresOK DEF PutMeasure
<1>7. ASSUME NEW q \in Req,
             \/ PutFetch(q) \/ DeleteFetch(q) \/ PutTierCheck(q) \/ PutExisting(q)
             \/ PutStoreCheck(q) \/ DeleteProbe(q)
      PROVE  MeasuredInv'
  <2>1. UNCHANGED <<backend, project, size, remover, doomed, faults, racing>>
    BY <1>7 DEF PutFetch, DeleteFetch, PutTierCheck, PutExisting, PutStoreCheck, DeleteProbe
  <2> QED BY <1>1, <1>2, <1>4, <1>7, <2>1, LocalsOK
<1>8. ASSUME NEW q \in Req, RequestFails(q) PROVE MeasuredInv'
  BY <1>1, <1>2, <1>4, <1>5, <1>8, LocalsOK DEF RequestFails
<1>9. ASSUME NEW q \in Req, PutWrite(q) \/ PutData(q) PROVE MeasuredInv'
  <2>1. UNCHANGED <<backend, project, remover, doomed, faults, racing>>
    BY <1>9 DEF PutWrite, PutData
  <2> QED BY <1>1, <1>2, <1>4, <1>9, <2>1, LocalsOK, WriteSize
<1>10. ASSUME NEW q \in Req, DeleteUnlink(q) PROVE MeasuredInv'
  <2>1. /\ req' = [Unlinked(req[q].key) EXCEPT ![q] = IdleReq]
        /\ size' = [size EXCEPT ![req[q].key] = None]
        /\ UNCHANGED <<backend, project, remover, doomed, faults, racing>>
    BY <1>10 DEF DeleteUnlink
  <2>2. StateOK'
    BY <1>2, <1>4, <2>1
  <2>3. IdleReq \in Request
    BY IdleOK DEF RequestOK
  <2>4. req' \in [Req -> Request] /\ \A x \in Req : RequestOK(req'[x])
    BY <2>1, <2>3, UnlinkedOK, IdleOK
  <2> QED BY <2>2, <2>4 DEF MeasuredInv, RequestOK
<1>11. ASSUME NEW k \in Key, ClearKey(k) PROVE MeasuredInv'
  <2>1. /\ req' = Unlinked(k) /\ size' = [size EXCEPT ![k] = None]
        /\ UNCHANGED <<backend, project, remover, faults, racing>>
        /\ doomed' = doomed \ {k} /\ remover = "clear"
    BY <1>11 DEF ClearKey
  <2>2. StateOK'
    BY <2>1 DEF MeasuredInv, StateOK
  <2>3. req' \in [Req -> Request] /\ \A x \in Req : RequestOK(req'[x])
    BY <2>1, UnlinkedOK
  <2> QED BY <2>2, <2>3 DEF MeasuredInv, RequestOK
<1>12. CASE RemoveRecord
  <2>1. Putting \subseteq Key
    BY DEF MeasuredInv, RequestOK, Putting
  <2>2. StateOK'
    BY <1>12, <2>1 DEF RemoveRecord, MeasuredInv, StateOK
  <2> QED BY <1>3, <1>12, <2>2 DEF RemoveRecord
<1>13. CASE ClearList
  <2>1. StateOK'
    BY <1>13 DEF ClearList, MeasuredInv, StateOK, Present
  <2> QED BY <1>3, <1>13, <2>1 DEF ClearList
<1>14. CASE ClearDone
  <2>1. StateOK'
    BY <1>14 DEF ClearDone, MeasuredInv, StateOK
  <2> QED BY <1>3, <1>14, <2>1 DEF ClearDone
<1>15. CASE ClearFails
  <2>1. StateOK'
    BY <1>5, <1>15 DEF ClearFails, MeasuredInv, StateOK
  <2> QED BY <1>3, <1>15, <2>1 DEF ClearFails
<1>16. CASE UNCHANGED vars
  <2>1. StateOK'
    BY <1>16 DEF vars, MeasuredInv, StateOK
  <2> QED BY <1>3, <1>16, <2>1 DEF vars
<1> QED BY <1>6, <1>7, <1>8, <1>9, <1>10, <1>11, <1>12, <1>13, <1>14, <1>15, <1>16
        DEF Next, Handle, Clear

\* The state of the store and of every request is well typed.
THEOREM TypeCorrect == Spec => []TypeOK
BY InitMeasured, NextMeasured, MeasuredImplies, PTL DEF Spec

\* The check of FsKvStore::put and S3KvStore::put lets no value through that
\* its two measurements do not leave room for, though its arithmetic is
\* unsigned and the measurements are taken apart.
THEOREM AdmitsOnlyFittingHolds == Spec => []AdmitsOnlyFitting
BY InitMeasured, NextMeasured, MeasuredImplies, PTL DEF Spec

-----------------------------------------------------------------------------
(* How far puts that measured before one another's writes overrun the      *)
(* limit.                                                                  *)
(*                                                                         *)
(* A put that passed the tier's quota is in flight, and gets a rank in the *)
(* order in which they began to measure.  Of those that reached their      *)
(* write, last is the rank of the youngest, and cap what it had measured,  *)
(* with its own value in place of the old one: within the limit.  A value  *)
(* that an older put stores after that may exceed cap at its key (over),   *)
(* but each such put is counted once, as it was when it was still in       *)
(* flight.  For a younger put, view is what it has read so far, and missed *)
(* the keys that were written since it began.                              *)

InFlight == {q \in Req : req[q].pc \in {"measure", "existing", "write", "data"}}
Before(rank, n) == {q \in InFlight : rank[q] < n}

Ordered(rank, last, top) ==
  /\ last < top
  /\ \A q \in InFlight : rank[q] < top
  /\ \A p, q \in InFlight : rank[p] = rank[q] => p = q
  /\ \A q \in InFlight : req[q].pc = "data" => rank[q] <= last
  /\ \A q \in InFlight : req[q].pc # "data" => rank[q] # last

Capped(rank, last, cap, over) ==
  /\ Count(cap) + MaxValue * (Cardinality(over) + Cardinality(Before(rank, last)))
       <= MaxTotal + MaxValue * (Cardinality(Req) - 1)
  /\ \A j \in Key \ over : SizeOf(j) <= cap[j]
  /\ \A q \in InFlight : req[q].pc = "data" /\ rank[q] = last =>
       req[q].len <= cap[req[q].key]

\* Request r has read v of the store, but for the keys of m.
Saw(r, v, m) ==
  /\ r.total = Count(v)
  /\ \A j \in r.todo : v[j] = 0
  /\ \A j \in Key \ (r.todo \cup m) : SizeOf(j) <= v[j]
  /\ r.pc # "measure" => r.todo = {}
  /\ r.todo = {} /\ (r.pc # "measure" \/ backend # "fs") =>
       r.old <= v[r.key] \/ r.key \in m

Views(rank, last, view, missed) ==
  \A w \in InFlight : rank[w] > last =>
    /\ Saw(req[w], view[w], missed[w])
    /\ Cardinality(missed[w]) + Cardinality(Before(rank, rank[w]))
         <= Cardinality(Req) - 1

Past ==
  [rank : [Req -> Nat], last : Nat, top : Nat, cap : [Key -> Len],
   over : SUBSET Key, view : [Req -> [Key -> Len]], missed : [Req -> SUBSET Key]]

Explains(h) ==
  /\ Ordered(h.rank, h.last, h.top)
  /\ Capped(h.rank, h.last, h.cap, h.over)
  /\ Views(h.rank, h.last, h.view, h.missed)

OverrunInv == \E h \in Past : Explains(h)

LEMMA SubsetSizes ==
  /\ \A X \in SUBSET Key : IsFiniteSet(X) /\ Cardinality(X) \in Nat
  /\ \A X \in SUBSET Req : IsFiniteSet(X) /\ Cardinality(X) \in Nat
                           /\ Cardinality(X) <= Cardinality(Req)
BY Numbers, FS_Subset, FS_CardinalityType

\* One more key in X for one request less in Y.
LEMMA Trade ==
  ASSUME NEW X \in SUBSET Key, NEW k \in Key,
         NEW Y \in SUBSET Req, NEW q \in Y, NEW Z \in SUBSET (Y \ {q})
  PROVE  /\ Cardinality(X \cup {k}) + Cardinality(Z) <= Cardinality(X) + Cardinality(Y)
         /\ Cardinality(X \cup {k}) \in Nat /\ Cardinality(Z) \in Nat
<1>1. /\ IsFiniteSet(X) /\ Cardinality(X) \in Nat
      /\ IsFiniteSet(Y) /\ Cardinality(Y) \in Nat
      /\ Cardinality(X \cup {k}) \in Nat
  BY SubsetSizes
<1>2. Cardinality(X \cup {k}) <= Cardinality(X) + 1
  <2>1. CASE k \in X
    <3>1. X \cup {k} = X
      BY <2>1
    <3> QED BY <1>1, <3>1
  <2>2. CASE k \notin X
    <3>1. Cardinality(X \cup {k}) = Cardinality(X) + 1
      BY <1>1, <2>2, FS_AddElement
    <3> QED BY <1>1, <3>1
  <2> QED BY <2>1, <2>2
<1>3. IsFiniteSet(Y \ {q}) /\ Cardinality(Y \ {q}) = Cardinality(Y) - 1
  BY <1>1, FS_RemoveElement
<1>4. Cardinality(Z) \in Nat /\ Cardinality(Z) <= Cardinality(Y \ {q})
  BY <1>3, FS_Subset, FS_CardinalityType
<1> QED BY <1>1, <1>2, <1>3, <1>4

\* What the explanation bounds.
LEMMA ExplainedBound == MeasuredInv /\ OverrunInv => OverrunBounded
<1> SUFFICES ASSUME MeasuredInv, OverrunInv PROVE OverrunBounded
  OBVIOUS
<1>1. PICK h \in Past : Explains(h)
  BY DEF OverrunInv
<1> DEFINE rank == h.rank
           last == h.last
           cap == h.cap
           over == h.over
<1>0. cap \in [Key -> Len] /\ over \in SUBSET Key
  BY DEF Past
<1>2. /\ Count(cap) + MaxValue * (Cardinality(over) + Cardinality(Before(rank, last)))
           <= MaxTotal + MaxValue * (Cardinality(Req) - 1)
      /\ \A j \in Key \ over : SizeOf(j) <= cap[j]
  BY <1>1 DEF Explains, Capped
<1> HIDE DEF rank, last, cap, over
<1>3. Sizes \in [Key -> Len] /\ \A j \in Key \ over : Sizes[j] <= cap[j]
  BY <1>2, SizesType DEF MeasuredInv, StateOK
<1>4. Count(Sizes) <= Count(cap) + MaxValue * Cardinality(over)
  BY <1>0, <1>3, CountCovered
<1>5. Before(rank, last) \in SUBSET Req
  BY DEF Before, InFlight
<1>6. Cardinality(over) \in Nat /\ Cardinality(Before(rank, last)) \in Nat
  BY <1>0, <1>5, SubsetSizes
<1>7. /\ MaxValue * Cardinality(over) \in Nat
      /\ MaxValue * (Cardinality(over) + Cardinality(Before(rank, last))) \in Nat
      /\ MaxValue * Cardinality(over)
           <= MaxValue * (Cardinality(over) + Cardinality(Before(rank, last)))
  <2>1. /\ Cardinality(over) + Cardinality(Before(rank, last)) \in Nat
        /\ Cardinality(over) <= Cardinality(over) + Cardinality(Before(rank, last))
    BY <1>6
  <2> QED BY <1>6, <2>1, Numbers, Times
<1>8. /\ MaxValue * (Cardinality(Req) - 1) = (Cardinality(Req) - 1) * MaxValue
      /\ (Cardinality(Req) - 1) * MaxValue \in Nat
  <2>1. Cardinality(Req) - 1 \in Nat
    BY Numbers
  <2> QED BY <2>1, Numbers
<1>9. Count(Sizes) \in Nat /\ Count(cap) \in Nat
  BY CountType
<1>10. Count(Sizes) <= MaxTotal + (Cardinality(Req) - 1) * MaxValue
  <2> DEFINE a == MaxValue * Cardinality(over)
             b == MaxValue * (Cardinality(over) + Cardinality(Before(rank, last)))
             c == (Cardinality(Req) - 1) * MaxValue
  <2>1. /\ a \in Nat /\ b \in Nat /\ c \in Nat /\ a <= b
        /\ Count(cap) + b <= MaxTotal + c
        /\ Count(Sizes) <= Count(cap) + a
    BY <1>2, <1>4, <1>7, <1>8
  <2> HIDE DEF a, b, c
  <2>2. Count(Sizes) <= MaxTotal + c
    BY <1>9, <2>1, Numbers
  <2> QED BY <2>2 DEF c
<1> QED BY <1>10 DEF OverrunBounded, Total

LEMMA InitOverrun == Init => OverrunInv
<1> SUFFICES ASSUME Init PROVE OverrunInv
  OBVIOUS
<1> DEFINE none == [k \in Key |-> 0]
<1>1. none \in [Key -> Len]
  BY Numbers
<1>2. InFlight = {}
  BY DEF Init, InFlight, IdleReq
<1>3. Count(none) = 0
  <2>1. Bytes(none) = {}
    BY Numbers DEF Bytes
  <2> QED BY <2>1, FS_EmptySet DEF Count
<1>4. \A j \in Key : SizeOf(j) = 0
  BY DEF Init, SizeOf
<1>5. Cardinality({}) = 0
  BY FS_EmptySet
<1>6. \A rank : Before(rank, 0) = {}
  BY <1>2 DEF Before
<1> DEFINE zeros == [q \in Req |-> 0]
<1>7. Ordered(zeros, 0, 1)
  BY <1>2 DEF Ordered
<1>8. Capped(zeros, 0, none, {})
  <2>1. Cardinality({}) + Cardinality(Before(zeros, 0)) = 0
    BY <1>5, <1>6
  <2>2. MaxValue * 0 = 0 /\ MaxValue * (Cardinality(Req) - 1) \in Nat
    <3>1. Cardinality(Req) - 1 \in Nat
      BY Numbers
    <3> QED BY <3>1, Numbers, Times
  <2>3. Count(none) + MaxValue * (Cardinality({}) + Cardinality(Before(zeros, 0)))
          <= MaxTotal + MaxValue * (Cardinality(Req) - 1)
    BY <1>3, <2>1, <2>2, Numbers
  <2> QED BY <1>2, <1>4, <2>3 DEF Capped
<1>9. Views(zeros, 0, [q \in Req |-> none], [q \in Req |-> {}])
  BY <1>2 DEF Views
<1>10. PICK h : h = [rank |-> zeros, last |-> 0, top |-> 1, cap |-> none, over |-> {},
                     view |-> [q \in Req |-> none], missed |-> [q \in Req |-> {}]]
  OBVIOUS
<1>11. /\ zeros \in [Req -> Nat] /\ 1 \in Nat
       /\ [q \in Req |-> none] \in [Req -> [Key -> Len]]
       /\ [q \in Req |-> {}] \in [Req -> SUBSET Key]
  BY <1>1
<1> HIDE DEF zeros, none
<1>12. h \in Past
  BY <1>1, <1>10, <1>11 DEF Past
<1>13. Explains(h)
  BY <1>7, <1>8, <1>9, <1>10 DEF Explains
<1> QED BY <1>12, <1>13 DEF OverrunInv

LEMMA PastType ==
  ASSUME NEW h \in Past
  PROVE  /\ h.rank \in [Req -> Nat] /\ h.last \in Nat /\ h.top \in Nat
         /\ h.cap \in [Key -> Len] /\ h.over \in SUBSET Key
         /\ h.view \in [Req -> [Key -> Len]] /\ h.missed \in [Req -> SUBSET Key]
BY DEF Past

\* An explanation, from its parts.
LEMMA Explained ==
  ASSUME NEW rank \in [Req -> Nat], NEW last \in Nat, NEW top \in Nat,
         NEW cap \in [Key -> Len], NEW over \in SUBSET Key,
         NEW view \in [Req -> [Key -> Len]], NEW missed \in [Req -> SUBSET Key],
         Ordered(rank, last, top)', Capped(rank, last, cap, over)',
         Views(rank, last, view, missed)'
  PROVE  OverrunInv'
<1>1. PICK h : h = [rank |-> rank, last |-> last, top |-> top, cap |-> cap,
                    over |-> over, view |-> view, missed |-> missed]
  OBVIOUS
<1>2. h \in Past
  BY <1>1 DEF Past
<1>3. Explains(h)'
  BY <1>1 DEF Explains
<1> QED BY <1>2, <1>3 DEF OverrunInv

\* The same put, with the same measurements.
SamePut(r, s) ==
  /\ s.key = r.key /\ s.len = r.len
  /\ s.todo = r.todo /\ s.total = r.total /\ s.old = r.old
  /\ s.pc = "measure" <=> r.pc = "measure"

\* Fewer requests in flight are fewer before any rank.
LEMMA BeforeShrinks ==
  ASSUME NEW rank, NEW n, InFlight' \subseteq InFlight
  PROVE  /\ Before(rank, n)' \subseteq Before(rank, n)
         /\ Before(rank, n) \in SUBSET Req
         /\ Cardinality(Before(rank, n)') \in Nat
         /\ Cardinality(Before(rank, n)) \in Nat
         /\ Cardinality(Before(rank, n)') <= Cardinality(Before(rank, n))
<1>1. Before(rank, n)' \subseteq Before(rank, n)
  BY DEF Before
<1>2. Before(rank, n) \in SUBSET Req
  BY DEF Before, InFlight
<1>3. IsFiniteSet(Before(rank, n)) /\ Cardinality(Before(rank, n)) \in Nat
  BY <1>2, SubsetSizes
<1>4. /\ Cardinality(Before(rank, n)') \in Nat
      /\ Cardinality(Before(rank, n)') <= Cardinality(Before(rank, n))
  BY <1>1, <1>3, FS_Subset, FS_CardinalityType
<1> QED BY <1>1, <1>2, <1>3, <1>4

\* The bound with fewer keys and requests to count.
LEMMA BoundKept ==
  ASSUME NEW a \in Nat, NEW b \in Nat, NEW m \in Nat, NEW n \in Nat, n <= m,
         a + MaxValue * m <= b
  PROVE  a + MaxValue * n <= b
<1>1. MaxValue * n \in Nat /\ MaxValue * m \in Nat /\ MaxValue * n <= MaxValue * m
  BY Numbers, Times
<1> DEFINE x == MaxValue * n
           y == MaxValue * m
<1>2. x \in Nat /\ y \in Nat /\ x <= y /\ a + y <= b
  BY <1>1
<1> HIDE DEF x, y
<1>3. a + x <= b
  BY <1>2
<1> QED BY <1>3 DEF x

LEMMA LimitType == MaxTotal + MaxValue * (Cardinality(Req) - 1) \in Nat
<1>1. Cardinality(Req) - 1 \in Nat
  BY Numbers
<1> QED BY <1>1, Numbers, Times

\* No size grows, and who is in flight was so with the same measurements.
LEMMA QuietKeeps ==
  ASSUME MeasuredInv, StateOK', NEW h \in Past, Explains(h),
         backend' = backend, \A j \in Key : SizeOf(j)' <= SizeOf(j),
         \A w \in InFlight' :
           /\ w \in InFlight /\ SamePut(req[w], req'[w])
           /\ req'[w].pc # "data" => req[w].pc # "data"
           /\ req'[w].pc = "data" => req[w].pc = "data" \/ h.rank[w] < h.last
  PROVE  OverrunInv'
<1> DEFINE rank == h.rank
           last == h.last
           top == h.top
           cap == h.cap
           over == h.over
           view == h.view
           missed == h.missed
<1>1. /\ rank \in [Req -> Nat] /\ last \in Nat /\ top \in Nat
      /\ cap \in [Key -> Len] /\ over \in SUBSET Key
      /\ view \in [Req -> [Key -> Len]] /\ missed \in [Req -> SUBSET Key]
  BY PastType
<1>2. /\ Ordered(rank, last, top) /\ Capped(rank, last, cap, over)
      /\ Views(rank, last, view, missed)
  BY DEF Explains
<1>3. \A w \in InFlight' :
        /\ w \in InFlight /\ SamePut(req[w], req'[w])
        /\ req'[w].pc # "data" => req[w].pc # "data"
        /\ req'[w].pc = "data" => req[w].pc = "data" \/ rank[w] < last
  OBVIOUS
<1> HIDE DEF rank, last, top, cap, over, view, missed
<1>4. InFlight' \subseteq InFlight /\ InFlight \subseteq Req
  BY <1>3 DEF InFlight
<1>5. \A j \in Key : SizeOf(j) \in Nat /\ SizeOf(j)' \in Nat /\ SizeOf(j)' <= SizeOf(j)
  <2>1. ASSUME NEW j \in Key PROVE SizeOf(j) \in Nat /\ SizeOf(j)' \in Nat
    BY Numbers DEF MeasuredInv, StateOK, SizeOf
  <2> QED BY <2>1
<1>6. Ordered(rank, last, top)'
  <2>1. \A w \in InFlight' : req'[w].pc = "data" => rank[w] <= last
    BY <1>1, <1>2, <1>3, <1>4 DEF Ordered
  <2> QED BY <1>2, <1>3, <1>4, <2>1 DEF Ordered
<1>7. Capped(rank, last, cap, over)'
  <2>1. /\ Cardinality(over) \in Nat
        /\ Cardinality(Before(rank, last)') \in Nat /\ Cardinality(Before(rank, last)) \in Nat
        /\ Cardinality(Before(rank, last)') <= Cardinality(Before(rank, last))
    BY <1>1, <1>4, BeforeShrinks, SubsetSizes
  <2>2. Count(cap) + MaxValue * (Cardinality(over) + Cardinality(Before(rank, last)'))
          <= MaxTotal + MaxValue * (Cardinality(Req) - 1)
    <3>1. /\ Cardinality(over) + Cardinality(Before(rank, last)) \in Nat
          /\ Cardinality(over) + Cardinality(Before(rank, last)') \in Nat
          /\ Cardinality(over) + Cardinality(Before(rank, last)')
               <= Cardinality(over) + Cardinality(Before(rank, last))
      BY <2>1
    <3>2. Count(cap) + MaxValue * (Cardinality(over) + Cardinality(Before(rank, last)))
            <= MaxTotal + MaxValue * (Cardinality(Req) - 1)
      BY <1>2 DEF Capped
    <3> QED BY <3>1, <3>2, BoundKept, LimitType, CountType
  <2>3. \A j \in Key \ over : SizeOf(j)' <= cap[j]
    <3>1. \A j \in Key : cap[j] \in Nat
      BY <1>1, Numbers
    <3> QED BY <1>2, <1>5, <3>1 DEF Capped
  <2>4. \A q \in InFlight' : req'[q].pc = "data" /\ rank[q] = last =>
          req'[q].len <= cap[req'[q].key]
    BY <1>1, <1>2, <1>3, <1>4 DEF Capped, SamePut
  <2> QED BY <2>2, <2>3, <2>4 DEF Capped
<1>8. Views(rank, last, view, missed)'
  <2> SUFFICES ASSUME NEW w \in InFlight', rank[w] > last
               PROVE  /\ Saw(req[w], view[w], missed[w])'
                      /\ Cardinality(missed[w]) + Cardinality(Before(rank, rank[w])')
                           <= Cardinality(Req) - 1
    BY DEF Views
  <2>1. /\ w \in InFlight /\ w \in Req /\ SamePut(req[w], req'[w])
        /\ Saw(req[w], view[w], missed[w])
        /\ Cardinality(missed[w]) + Cardinality(Before(rank, rank[w]))
             <= Cardinality(Req) - 1
    BY <1>2, <1>3, <1>4 DEF Views
  <2>2. view[w] \in [Key -> Len] /\ missed[w] \in SUBSET Key
    BY <1>1, <2>1
  <2>3. Saw(req[w], view[w], missed[w])'
    <3>1. \A j \in Key \ (req[w].todo \cup missed[w]) : SizeOf(j)' <= view[w][j]
      <4>1. \A j \in Key : view[w][j] \in Nat
        BY <2>2, Numbers
      <4> QED BY <1>5, <2>1, <4>1 DEF Saw
    <3> QED BY <2>1, <3>1 DEF Saw, SamePut
  <2>4. /\ Cardinality(missed[w]) \in Nat
        /\ Cardinality(Before(rank, rank[w])') \in Nat
        /\ Cardinality(Before(rank, rank[w])) \in Nat
        /\ Cardinality(Before(rank, rank[w])') <= Cardinality(Before(rank, rank[w]))
    BY <1>4, <2>2, BeforeShrinks, SubsetSizes
  <2> QED BY <2>1, <2>3, <2>4, Numbers
<1> QED BY <1>1, <1>6, <1>7, <1>8, Explained

\* Request q, which measures, reads another file, or the listing, or the size
\* of the old value; v is what it has seen then.
LEMMA ReadKeeps ==
  ASSUME MeasuredInv, NEW h \in Past, Explains(h),
         NEW q \in Req, NEW r, Goto(q, r), UNCHANGED <<backend, size>>,
         req[q].pc = "measure", r.pc \in {"measure", "existing"},
         NEW v \in [Key -> Len], h.rank[q] > h.last => Saw(r, v, h.missed[q])
  PROVE  OverrunInv'
<1> DEFINE rank == h.rank
           last == h.last
           top == h.top
           cap == h.cap
           over == h.over
           view == h.view
           missed == h.missed
<1>1. /\ rank \in [Req -> Nat] /\ last \in Nat /\ top \in Nat
      /\ cap \in [Key -> Len] /\ over \in SUBSET Key
      /\ view \in [Req -> [Key -> Len]] /\ missed \in [Req -> SUBSET Key]
  BY PastType
<1>2. /\ Ordered(rank, last, top) /\ Capped(rank, last, cap, over)
      /\ Views(rank, last, view, missed)
  BY DEF Explains
<1>3. rank[q] > last => Saw(r, v, missed[q])
  OBVIOUS
<1> HIDE DEF rank, last, top, cap, over, view, missed
<1>4. \A w \in Req : req'[w] = IF w = q THEN r ELSE req[w]
  BY DEF Goto, MeasuredInv
<1>5. InFlight' = InFlight /\ q \in InFlight
  BY <1>4 DEF InFlight
<1>6. \A w \in InFlight : req'[w].pc # "data" <=> req[w].pc # "data"
  BY <1>4 DEF InFlight
<1>7. Ordered(rank, last, top)'
  BY <1>2, <1>5, <1>6 DEF Ordered
<1>8. \A n : Before(rank, n)' = Before(rank, n)
  BY <1>5 DEF Before
<1>9. \A j : SizeOf(j)' = SizeOf(j)
  BY DEF SizeOf
<1>10. Capped(rank, last, cap, over)'
  <2>1. \A w \in InFlight : req'[w].pc = "data" => req'[w] = req[w]
    BY <1>4, <1>5 DEF InFlight
  <2> QED BY <1>2, <1>5, <1>8, <1>9, <2>1 DEF Capped
<1>11. PICK u : u = [view EXCEPT ![q] = v]
  OBVIOUS
<1>12. u \in [Req -> [Key -> Len]] /\ \A w \in Req : u[w] = IF w = q THEN v ELSE view[w]
  BY <1>1, <1>11
<1>13. Views(rank, last, u, missed)'
  <2> SUFFICES ASSUME NEW w \in InFlight, rank[w] > last
               PROVE  /\ Saw(req[w], u[w], missed[w])'
                      /\ Cardinality(missed[w]) + Cardinality(Before(rank, rank[w])')
                           <= Cardinality(Req) - 1
    BY <1>5 DEF Views
  <2>1. /\ Saw(req[w], view[w], missed[w])
        /\ Cardinality(missed[w]) + Cardinality(Before(rank, rank[w]))
             <= Cardinality(Req) - 1
    BY <1>2 DEF Views
  <2>2. w \in Req
    BY DEF InFlight
  <2>3. Saw(req'[w], u[w], missed[w])
    BY <1>3, <1>4, <1>12, <2>1, <2>2
  <2>4. Saw(req[w], u[w], missed[w])'
    BY <1>9, <2>3 DEF Saw
  <2>5. Before(rank, rank[w])' = Before(rank, rank[w])
    BY <1>5 DEF Before
  <2> QED BY <2>1, <2>4, <2>5
<1> QED BY <1>1, <1>7, <1>10, <1>12, <1>13, Explained

\* Request q passes the tier's quota and begins to measure.
LEMMA StartKeeps ==
  ASSUME MeasuredInv, NEW h \in Past, Explains(h),
         NEW q \in Req, NEW r, Goto(q, r), UNCHANGED <<backend, size>>,
         req[q].pc = "tier", r.pc = "measure", r.key \in Key,
         r.todo = Key, r.total = 0
  PROVE  OverrunInv'
<1> DEFINE rank == h.rank
           last == h.last
           top == h.top
           cap == h.cap
           over == h.over
           view == h.view
           missed == h.missed
<1>1. /\ rank \in [Req -> Nat] /\ last \in Nat /\ top \in Nat
      /\ cap \in [Key -> Len] /\ over \in SUBSET Key
      /\ view \in [Req -> [Key -> Len]] /\ missed \in [Req -> SUBSET Key]
  BY PastType
<1>2. /\ Ordered(rank, last, top) /\ Capped(rank, last, cap, over)
      /\ Views(rank, last, view, missed)
  BY DEF Explains
<1> HIDE DEF rank, last, top, cap, over, view, missed
<1>3. \A w \in Req : req'[w] = IF w = q THEN r ELSE req[w]
  BY DEF Goto, MeasuredInv
<1>4. InFlight' = InFlight \cup {q} /\ q \notin InFlight /\ InFlight \subseteq Req
  BY <1>3 DEF InFlight
<1>5. \A w \in InFlight : req'[w] = req[w] /\ w \in Req
  BY <1>3, <1>4
<1>6. \A j : SizeOf(j)' = SizeOf(j)
  BY DEF SizeOf
<1> DEFINE none == [k \in Key |-> 0]
<1>7. PICK rank2 : rank2 = [rank EXCEPT ![q] = top]
  OBVIOUS
<1>8. PICK view2 : view2 = [view EXCEPT ![q] = none]
  OBVIOUS
<1>9. PICK missed2 : missed2 = [missed EXCEPT ![q] = {}]
  OBVIOUS
<1>10. none \in [Key -> Len] /\ Count(none) = 0
  <2>1. none \in [Key -> Len]
    BY Numbers
  <2>2. Bytes(none) = {}
    BY Numbers DEF Bytes
  <2> QED BY <2>1, <2>2, FS_EmptySet DEF Count
<1>11. /\ \A k \in Key : none[k] = 0
  OBVIOUS
<1> HIDE DEF none
<1>12. /\ rank2 \in [Req -> Nat] /\ view2 \in [Req -> [Key -> Len]]
       /\ missed2 \in [Req -> SUBSET Key]
       /\ \A w \in Req : rank2[w] = IF w = q THEN top ELSE rank[w]
       /\ \A w \in Req : view2[w] = IF w = q THEN none ELSE view[w]
       /\ \A w \in Req : missed2[w] = IF w = q THEN {} ELSE missed[w]
  BY <1>1, <1>7, <1>8, <1>9, <1>10
<1>13. Ordered(rank2, last, top + 1)'
  <2>1. \A w \in InFlight : rank2[w] = rank[w] /\ rank[w] < top /\ rank[w] \in Nat
    BY <1>1, <1>2, <1>4, <1>12 DEF Ordered
  <2>2. rank2[q] = top /\ last < top /\ top \in Nat /\ last \in Nat
    BY <1>1, <1>2, <1>12 DEF Ordered
  <2>3. req'[q].pc = "measure"
    BY <1>3
  <2>4. last < top + 1 /\ \A w \in InFlight \cup {q} : rank2[w] < top + 1
    BY <2>1, <2>2
  <2>5. \A p, w \in InFlight \cup {q} : rank2[p] = rank2[w] => p = w
    BY <1>2, <2>1, <2>2 DEF Ordered
  <2>6. \A w \in InFlight \cup {q} : req'[w].pc = "data" => rank2[w] <= last
    BY <1>2, <1>5, <2>1, <2>3 DEF Ordered
  <2>7. \A w \in InFlight \cup {q} : req'[w].pc # "data" => rank2[w] # last
    BY <1>2, <1>5, <2>1, <2>2, <2>3 DEF Ordered
  <2> QED BY <1>4, <2>4, <2>5, <2>6, <2>7 DEF Ordered
<1>14. \A n \in Nat : n <= top => Before(rank2, n)' = Before(rank, n)
  <2> SUFFICES ASSUME NEW n \in Nat, n <= top
               PROVE  {w \in InFlight \cup {q} : rank2[w] < n} = {w \in InFlight : rank[w] < n}
    BY <1>4 DEF Before
  <2> QED BY <1>1, <1>4, <1>12
<1>15. Capped(rank2, last, cap, over)'
  <2>1. Before(rank2, last)' = Before(rank, last)
    BY <1>1, <1>2, <1>14 DEF Ordered
  <2>2. \A w \in InFlight' : req'[w].pc = "data" => w \in InFlight /\ req'[w] = req[w]
                                                   /\ rank2[w] = rank[w]
    BY <1>3, <1>4, <1>12
  <2>3. Count(cap) + MaxValue * (Cardinality(over) + Cardinality(Before(rank2, last)'))
          <= MaxTotal + MaxValue * (Cardinality(Req) - 1)
    BY <1>2, <2>1 DEF Capped
  <2> QED BY <1>2, <1>6, <2>2, <2>3 DEF Capped
<1>16. Views(rank2, last, view2, missed2)'
  <2> SUFFICES ASSUME NEW w \in InFlight', rank2[w] > last
               PROVE  /\ Saw(req[w], view2[w], missed2[w])'
                      /\ Cardinality(missed2[w]) + Cardinality(Before(rank2, rank2[w])')
                           <= Cardinality(Req) - 1
    BY DEF Views
  <2>1. CASE w \in InFlight
    <3>1. /\ w \in Req /\ w # q /\ req'[w] = req[w] /\ rank2[w] = rank[w]
          /\ view2[w] = view[w] /\ missed2[w] = missed[w]
      BY <1>4, <1>5, <1>12, <2>1
    <3>2. /\ Saw(req[w], view[w], missed[w])
          /\ Cardinality(missed[w]) + Cardinality(Before(rank, rank[w]))
               <= Cardinality(Req) - 1
      BY <1>2, <2>1, <3>1 DEF Views
    <3>3. Before(rank2, rank2[w])' = Before(rank, rank[w])
      <4>1. rank[w] \in Nat /\ rank[w] <= top
        BY <1>1, <1>2, <2>1, <3>1 DEF Ordered
      <4> QED BY <1>14, <3>1, <4>1
    <3>4. Saw(req'[w], view2[w], missed2[w])
      BY <3>1, <3>2
    <3>5. Saw(req[w], view2[w], missed2[w])'
      BY <1>6, <3>4 DEF Saw
    <3> QED BY <3>1, <3>2, <3>3, <3>5
  <2>2. CASE w = q
    <3>1. view2[w] = none /\ missed2[w] = {} /\ req'[w] = r /\ rank2[w] = top
      BY <1>3, <1>12, <2>2
    <3>2. Saw(r, none, {})
      BY <1>10, <1>11 DEF Saw
    <3>3. Before(rank2, rank2[w])' = Before(rank, top)
      BY <1>1, <1>14, <3>1
    <3>4. Before(rank, top) \in SUBSET (Req \ {q})
      BY <1>4 DEF Before
    <3>5. /\ IsFiniteSet(Req \ {q}) /\ Cardinality(Req \ {q}) = Cardinality(Req) - 1
      BY Numbers, FS_RemoveElement
    <3>6. /\ Cardinality(Before(rank, top)) <= Cardinality(Req) - 1
          /\ Cardinality(Before(rank, top)) \in Nat
      BY <3>4, <3>5, FS_Subset, FS_CardinalityType
    <3>7. Cardinality({}) = 0
      BY FS_EmptySet
    <3>8. Saw(req'[w], view2[w], missed2[w])
      BY <3>1, <3>2
    <3>9. Saw(req[w], view2[w], missed2[w])'
      BY <1>6, <3>8 DEF Saw
    <3> QED BY <3>1, <3>3, <3>6, <3>7, <3>9
  <2> QED BY <1>4, <2>1, <2>2
<1>17. top + 1 \in Nat
  BY <1>1
<1> QED BY <1>1, <1>12, <1>13, <1>15, <1>16, <1>17, Explained

\* Request q stores its value under k and is done: those that began after it
\* have missed that.
LEMMA LandViews ==
  ASSUME NEW rank \in [Req -> Nat], NEW last \in Nat, NEW m \in Nat, last <= m,
         NEW view, NEW missed \in [Req -> SUBSET Key],
         Views(rank, last, view, missed),
         NEW q \in InFlight, rank[q] <= m, NEW k \in Key,
         InFlight' = InFlight \ {q}, \A w \in InFlight \ {q} : req'[w] = req[w],
         backend' = backend, \A j \in Key \ {k} : SizeOf(j)' = SizeOf(j),
         NEW missed2 \in [Req -> SUBSET Key],
         \A w \in Req : missed2[w] = missed[w] \cup {k}
  PROVE  Views(rank, m, view, missed2)'
<1>2. InFlight \subseteq Req
  BY DEF InFlight
<1>3. Views(rank, m, view, missed2)'
  <2> SUFFICES ASSUME NEW w \in InFlight \ {q}, rank[w] > m
               PROVE  /\ Saw(req[w], view[w], missed2[w])'
                      /\ Cardinality(missed2[w]) + Cardinality(Before(rank, rank[w])')
                           <= Cardinality(Req) - 1
    BY DEF Views
  <2>1. w \in Req /\ q \in Req /\ rank[w] \in Nat /\ rank[q] \in Nat /\ rank[w] > last
    BY <1>2
  <2>2. /\ Saw(req[w], view[w], missed[w])
        /\ Cardinality(missed[w]) + Cardinality(Before(rank, rank[w]))
             <= Cardinality(Req) - 1
    BY <2>1 DEF Views
  <2>3. missed2[w] = missed[w] \cup {k} /\ missed[w] \in SUBSET Key
    BY <2>1
  <2>4. \A j \in Key \ (req[w].todo \cup missed2[w]) : SizeOf(j)' <= view[w][j]
    BY <2>2, <2>3 DEF Saw
  <2>5. Saw(req[w], view[w], missed2[w])'
    BY <2>2, <2>3, <2>4 DEF Saw
  <2>6. /\ Before(rank, rank[w]) \in SUBSET Req /\ q \in Before(rank, rank[w])
        /\ Before(rank, rank[w])' \in SUBSET (Before(rank, rank[w]) \ {q})
    BY <1>2, <2>1 DEF Before
  <2>7. /\ Cardinality(missed2[w]) + Cardinality(Before(rank, rank[w])')
             <= Cardinality(missed[w]) + Cardinality(Before(rank, rank[w]))
        /\ Cardinality(missed2[w]) \in Nat /\ Cardinality(Before(rank, rank[w])') \in Nat
    BY <2>3, <2>6, Trade
  <2>8. Cardinality(missed[w]) \in Nat /\ Cardinality(Before(rank, rank[w])) \in Nat
    BY <2>3, <2>6, SubsetSizes
  <2> QED BY <2>2, <2>5, <2>7, <2>8, Numbers
<1> QED BY <1>3

\* The order among those that stay in flight.
LEMMA LandOrder ==
  ASSUME NEW rank \in [Req -> Nat], NEW last \in Nat, NEW top \in Nat,
         Ordered(rank, last, top), NEW q \in InFlight,
         InFlight' = InFlight \ {q}, \A w \in InFlight \ {q} : req'[w] = req[w],
         NEW n \in Nat, n = last \/ (n > last /\ n = rank[q])
  PROVE  Ordered(rank, n, top)'
<1>1. InFlight \subseteq Req
  BY DEF InFlight
<1>2. n < top
  BY DEF Ordered
<1>3. \A w \in InFlight \ {q} : req'[w].pc = "data" => rank[w] <= n
  BY <1>1 DEF Ordered
<1>4. \A w \in InFlight \ {q} : req'[w].pc # "data" => rank[w] # n
  BY <1>1 DEF Ordered
<1> QED BY <1>2, <1>3, <1>4 DEF Ordered

\* A put that is not younger than the last one to write stores its value.
LEMMA LandKeeps ==
  ASSUME MeasuredInv, StateOK', NEW h \in Past, Explains(h),
         NEW q \in InFlight, h.rank[q] <= h.last, NEW k \in Key,
         InFlight' = InFlight \ {q}, \A w \in InFlight \ {q} : req'[w] = req[w],
         backend' = backend, \A j \in Key \ {k} : SizeOf(j)' = SizeOf(j),
         h.rank[q] = h.last => SizeOf(k)' <= SizeOf(k) \/ SizeOf(k)' <= h.cap[k]
  PROVE  OverrunInv'
<1> DEFINE rank == h.rank
           last == h.last
           top == h.top
           cap == h.cap
           over == h.over
           view == h.view
           missed == h.missed
<1>1. /\ rank \in [Req -> Nat] /\ last \in Nat /\ top \in Nat
      /\ cap \in [Key -> Len] /\ over \in SUBSET Key
      /\ view \in [Req -> [Key -> Len]] /\ missed \in [Req -> SUBSET Key]
  BY PastType
<1>2. /\ Ordered(rank, last, top) /\ Capped(rank, last, cap, over)
      /\ Views(rank, last, view, missed)
  BY DEF Explains
<1>3. /\ rank[q] <= last
      /\ rank[q] = last => SizeOf(k)' <= SizeOf(k) \/ SizeOf(k)' <= cap[k]
  OBVIOUS
<1> HIDE DEF rank, last, top, cap, over, view, missed
<1>4. InFlight' \subseteq InFlight /\ InFlight \subseteq Req
  BY DEF InFlight
<1>5. PICK missed2 : missed2 = [w \in Req |-> missed[w] \cup {k}]
  OBVIOUS
<1>12. /\ missed2 \in [Req -> SUBSET Key]
       /\ \A w \in Req : missed2[w] = missed[w] \cup {k}
  BY <1>1, <1>5
<1>6. Views(rank, last, view, missed2)'
  <2>1. last <= last /\ Views(rank, last, view, missed) /\ rank[q] <= last
    BY <1>1, <1>2, <1>3
  <2>2. /\ InFlight' = InFlight \ {q} /\ \A w \in InFlight \ {q} : req'[w] = req[w]
        /\ backend' = backend /\ \A j \in Key \ {k} : SizeOf(j)' = SizeOf(j)
    OBVIOUS
  <2> QED BY <1>1, <1>12, <2>1, <2>2, LandViews
<1>7. Ordered(rank, last, top)'
  BY <1>1, <1>2, LandOrder
<1>8. PICK over2 : over2 = IF rank[q] < last THEN over \cup {k} ELSE over
  OBVIOUS
<1>9. over2 \in SUBSET Key
  BY <1>1, <1>8
<1>10. Capped(rank, last, cap, over2)'
  <2>1. /\ Cardinality(over2) + Cardinality(Before(rank, last)')
             <= Cardinality(over) + Cardinality(Before(rank, last))
        /\ Cardinality(over2) + Cardinality(Before(rank, last)') \in Nat
        /\ Cardinality(over) + Cardinality(Before(rank, last)) \in Nat
    <3>1. /\ Cardinality(over) \in Nat /\ Cardinality(over2) \in Nat
          /\ Cardinality(Before(rank, last)') \in Nat /\ Cardinality(Before(rank, last)) \in Nat
          /\ Cardinality(Before(rank, last)') <= Cardinality(Before(rank, last))
      BY <1>1, <1>4, <1>9, BeforeShrinks, SubsetSizes
    <3>2. CASE rank[q] < last
      <4>1. /\ Before(rank, last) \in SUBSET Req /\ q \in Before(rank, last)
            /\ Before(rank, last)' \in SUBSET (Before(rank, last) \ {q})
        BY <1>4, <3>2 DEF Before
      <4>2. over2 = over \cup {k}
        BY <1>8, <3>2
      <4>3. Cardinality(over2) + Cardinality(Before(rank, last)')
              <= Cardinality(over) + Cardinality(Before(rank, last))
        BY <1>1, <4>1, <4>2, Trade
      <4> QED BY <3>1, <4>3
    <3>3. CASE ~ (rank[q] < last)
      <4>1. over2 = over
        BY <1>8, <3>3
      <4> QED BY <3>1, <4>1
    <3> QED BY <3>2, <3>3
  <2>2. Count(cap) + MaxValue * (Cardinality(over2) + Cardinality(Before(rank, last)'))
          <= MaxTotal + MaxValue * (Cardinality(Req) - 1)
    <3>1. Count(cap) + MaxValue * (Cardinality(over) + Cardinality(Before(rank, last)))
            <= MaxTotal + MaxValue * (Cardinality(Req) - 1)
      BY <1>2 DEF Capped
    <3> QED BY <2>1, <3>1, BoundKept, LimitType, CountType
  <2>3. ASSUME NEW j \in Key \ over2 PROVE SizeOf(j)' <= cap[j]
    <3>1. j \in Key \ over /\ SizeOf(j) <= cap[j]
      BY <1>2, <1>8, <2>3 DEF Capped
    <3>2. CASE j # k
      BY <3>1, <3>2
    <3>3. CASE j = k
      <4>1. rank[q] = last
        <5>1. ASSUME rank[q] < last PROVE FALSE
          <6>1. over2 = over \cup {k}
            BY <1>8, <5>1
          <6> QED BY <3>3, <6>1
        <5>2. q \in Req /\ rank[q] \in Nat
          BY <1>1, <1>4
        <5>3. rank[q] <= last /\ last \in Nat
          BY <1>1, <1>3
        <5> QED BY <5>1, <5>2, <5>3
      <4>2. SizeOf(k) \in Nat /\ SizeOf(k)' \in Nat /\ cap[k] \in Nat
        BY <1>1, Numbers DEF MeasuredInv, StateOK, SizeOf
      <4> QED BY <1>3, <3>1, <3>3, <4>1, <4>2
    <3> QED BY <3>2, <3>3
  <2>4. \A w \in InFlight' : req'[w].pc = "data" /\ rank[w] = last =>
          req'[w].len <= cap[req'[w].key]
    BY <1>2 DEF Capped
  <2> QED BY <2>2, <2>3, <2>4 DEF Capped
<1> QED BY <1>1, <1>6, <1>7, <1>9, <1>10, <1>12, Explained

\* A put that is younger than all that wrote before it writes: what it has
\* measured, with its value in place of the old one, is the new cap.
LEMMA NewCap ==
  ASSUME MeasuredInv, StateOK', NEW rank \in [Req -> Nat],
         NEW q \in InFlight, req[q].pc = "write", NEW k, k = req[q].key,
         NEW v \in [Key -> Len], NEW m \in SUBSET Key, Saw(req[q], v, m),
         Cardinality(m) + Cardinality(Before(rank, rank[q])) <= Cardinality(Req) - 1,
         InFlight' \subseteq InFlight,
         \A j \in Key \ {k} : SizeOf(j)' = SizeOf(j),
         SizeOf(k)' <= req[q].len
  PROVE  \E cap \in [Key -> Len], over \in SUBSET Key :
           /\ Count(cap) + MaxValue * (Cardinality(over) + Cardinality(Before(rank, rank[q])'))
                <= MaxTotal + MaxValue * (Cardinality(Req) - 1)
           /\ \A j \in Key \ over : SizeOf(j)' <= cap[j]
           /\ cap[k] = req[q].len
<1>1. PICK len, old, total, n :
        /\ len = req[q].len /\ old = req[q].old
        /\ total = req[q].total /\ n = rank[q]
  OBVIOUS
<1>2. /\ q \in Req /\ k \in Key /\ len \in Len /\ old \in Len /\ total \in Nat
      /\ total + len <= MaxTotal + old
  <2>1. q \in Req /\ RequestOK(req[q])
    BY DEF MeasuredInv, InFlight
  <2> QED BY <1>1, <2>1 DEF RequestOK, Request
<1>3. /\ total = Count(v) /\ req[q].todo = {}
      /\ \A j \in Key \ m : SizeOf(j) <= v[j]
      /\ old <= v[k] \/ k \in m
  <2>1. \A j \in Key \ (req[q].todo \cup m) : SizeOf(j) <= v[j]
    BY DEF Saw
  <2> QED BY <1>1, <2>1 DEF Saw
<1>4. PICK cap : cap = [v EXCEPT ![k] = len]
  OBVIOUS
<1>5. cap \in [Key -> Len] /\ cap[k] = len /\ \A j \in Key \ {k} : cap[j] = v[j]
  BY <1>2, <1>4
<1>6. Count(cap) = Count(v) - v[k] + len
  BY <1>2, <1>4, CountUpdate
<1>7. /\ v[k] \in Nat /\ v[k] <= MaxValue /\ len \in Nat /\ old \in Nat /\ old <= MaxValue
      /\ MaxTotal \in Nat /\ MaxValue \in Nat /\ Count(v) \in Nat /\ Count(cap) \in Nat
  BY <1>2, Numbers, CountType DEF Len
<1>8. /\ IsFiniteSet(m) /\ Cardinality(m) \in Nat
      /\ Cardinality(Before(rank, n)') \in Nat /\ Cardinality(Before(rank, n)) \in Nat
      /\ Cardinality(Before(rank, n)') <= Cardinality(Before(rank, n))
      /\ Cardinality(m) + Cardinality(Before(rank, n)) <= Cardinality(Req) - 1
      /\ Cardinality(Req) - 1 \in Nat
  BY <1>1, BeforeShrinks, SubsetSizes, Numbers
<1>9. ASSUME NEW j \in Key \ m, j # k PROVE SizeOf(j)' <= cap[j]
  BY <1>1, <1>3, <1>5, <1>9
<1>10. SizeOf(k)' <= cap[k]
  BY <1>1, <1>5
<1>11. CASE old <= v[k]
  <2>1. Count(cap) <= MaxTotal
    BY <1>2, <1>3, <1>6, <1>7, <1>11
  <2>2. Cardinality(m) + Cardinality(Before(rank, n)') \in Nat
        /\ Cardinality(m) + Cardinality(Before(rank, n)') <= Cardinality(Req) - 1
    BY <1>8
  <2>3. Count(cap) + MaxValue * (Cardinality(Req) - 1)
          <= MaxTotal + MaxValue * (Cardinality(Req) - 1)
    <3> DEFINE x == MaxValue * (Cardinality(Req) - 1)
    <3>1. x \in Nat
      BY <1>8, Numbers, Times
    <3> HIDE DEF x
    <3>2. Count(cap) + x <= MaxTotal + x
      BY <1>7, <2>1, <3>1
    <3> QED BY <3>2 DEF x
  <2>4. Count(cap) + MaxValue * (Cardinality(m) + Cardinality(Before(rank, n)'))
          <= MaxTotal + MaxValue * (Cardinality(Req) - 1)
    BY <1>7, <1>8, <2>2, <2>3, BoundKept, LimitType
  <2> QED BY <1>1, <1>5, <1>9, <1>10, <2>4
<1>12. CASE ~ (old <= v[k])
  <2>1. Count(cap) <= MaxTotal + MaxValue
    BY <1>2, <1>3, <1>6, <1>7
  <2>2. k \in m
    BY <1>3, <1>12
  <2>3. PICK over : over = m \ {k}
    OBVIOUS
  <2>4. Cardinality(over) = Cardinality(m) - 1 /\ Cardinality(over) \in Nat
        /\ over \in SUBSET Key
    <3>1. over \in SUBSET Key
      BY <2>3
    <3>2. Cardinality(m \ {k}) = Cardinality(m) - 1
      BY <1>8, <2>2, FS_RemoveElement
    <3> QED BY <2>3, <3>1, <3>2, SubsetSizes
  <2>5. PICK c \in Nat : c = Cardinality(over) + Cardinality(Before(rank, n)')
    BY <1>8, <2>4
  <2>6. c + 1 <= Cardinality(Req) - 1 /\ c + 1 \in Nat
    BY <1>8, <2>4, <2>5
  <2>7. Count(cap) + MaxValue * c <= MaxTotal + MaxValue * (Cardinality(Req) - 1)
    <3> DEFINE x == MaxValue * c
               y == MaxValue * (c + 1)
               z == MaxValue * (Cardinality(Req) - 1)
    <3>1. x \in Nat /\ y = x + MaxValue
      BY <1>7, Times
    <3>2. y <= z /\ z \in Nat
      BY <1>7, <1>8, <2>6, Times
    <3> HIDE DEF x, y, z
    <3>3. Count(cap) + x <= MaxTotal + z
      BY <1>7, <2>1, <3>1, <3>2
    <3> QED BY <3>3 DEF x, z
  <2>8. \A j \in Key \ over : SizeOf(j)' <= cap[j]
    BY <1>9, <1>10, <2>3
  <2> QED BY <1>1, <1>5, <2>4, <2>5, <2>7, <2>8
<1> QED BY <1>11, <1>12

\* A put that is younger than all that wrote before it writes: on the file
\* system it empties the file and stays in flight, on S3 it stores its value.
LEMMA WriteKeeps ==
  ASSUME MeasuredInv, StateOK', NEW h \in Past, Explains(h),
         NEW q \in InFlight, req[q].pc = "write", h.rank[q] > h.last,
         NEW k \in Key, k = req[q].key, backend' = backend,
         \A w \in InFlight \ {q} : req'[w] = req[w],
         \A j \in Key \ {k} : SizeOf(j)' = SizeOf(j),
         \/ /\ InFlight' = InFlight /\ SizeOf(k)' = 0
            /\ req'[q].pc = "data" /\ req'[q].key = k /\ req'[q].len = req[q].len
         \/ InFlight' = InFlight \ {q} /\ SizeOf(k)' = req[q].len
  PROVE  OverrunInv'
<1> DEFINE rank == h.rank
           last == h.last
           top == h.top
           view == h.view
           missed == h.missed
<1>1. /\ rank \in [Req -> Nat] /\ last \in Nat /\ top \in Nat
      /\ view \in [Req -> [Key -> Len]] /\ missed \in [Req -> SUBSET Key]
  BY PastType
<1>2. Ordered(rank, last, top) /\ Views(rank, last, view, missed) /\ rank[q] > last
  BY DEF Explains
<1> HIDE DEF rank, last, top, view, missed
<1>3. /\ InFlight' \subseteq InFlight /\ InFlight \subseteq Req /\ q \in Req
      /\ req[q].len \in Len
  <2>1. InFlight \subseteq Req /\ q \in Req
    BY DEF InFlight
  <2> QED BY <2>1 DEF MeasuredInv, Request
<1>4. /\ Saw(req[q], view[q], missed[q])
      /\ Cardinality(missed[q]) + Cardinality(Before(rank, rank[q])) <= Cardinality(Req) - 1
  BY <1>2 DEF Views
<1>5. SizeOf(k)' <= req[q].len
  BY <1>3, Numbers DEF Len
<1>6. PICK cap \in [Key -> Len], over \in SUBSET Key :
        /\ Count(cap) + MaxValue * (Cardinality(over) + Cardinality(Before(rank, rank[q])'))
             <= MaxTotal + MaxValue * (Cardinality(Req) - 1)
        /\ \A j \in Key \ over : SizeOf(j)' <= cap[j]
        /\ cap[k] = req[q].len
  <2>1. view[q] \in [Key -> Len] /\ missed[q] \in SUBSET Key
    BY <1>1, <1>3
  <2>2. \A j \in Key \ {k} : SizeOf(j)' = SizeOf(j)
    OBVIOUS
  <2> QED BY <1>1, <1>3, <1>4, <1>5, <2>1, <2>2, NewCap
<1>7. PICK n \in Nat : n = rank[q] /\ n > last
  BY <1>1, <1>2, <1>3
<1>8. \A w \in InFlight \ {q} : rank[w] # n
  BY <1>2, <1>7 DEF Ordered
<1>9. ASSUME \A w \in InFlight' : req'[w].pc = "data" /\ rank[w] = n =>
               req'[w].len <= cap[req'[w].key]
      PROVE  Capped(rank, n, cap, over)'
  BY <1>6, <1>7, <1>9 DEF Capped
<1>10. CASE InFlight' = InFlight \ {q} /\ SizeOf(k)' = req[q].len
  <2>1. PICK missed2 : missed2 = [w \in Req |-> missed[w] \cup {k}]
    OBVIOUS
  <2>2. /\ missed2 \in [Req -> SUBSET Key]
        /\ \A w \in Req : missed2[w] = missed[w] \cup {k}
    BY <1>1, <2>1
  <2>3. Views(rank, n, view, missed2)'
    <3>1. last <= n /\ rank[q] <= n
      BY <1>1, <1>7
    <3>2. /\ InFlight' = InFlight \ {q} /\ \A w \in InFlight \ {q} : req'[w] = req[w]
          /\ backend' = backend /\ \A j \in Key \ {k} : SizeOf(j)' = SizeOf(j)
      BY <1>10
    <3>3. /\ rank \in [Req -> Nat] /\ missed \in [Req -> SUBSET Key] /\ last \in Nat
          /\ Views(rank, last, view, missed)
      BY <1>1, <1>2
    <3> QED BY <2>2, <3>1, <3>2, <3>3, LandViews
  <2>4. Ordered(rank, n, top)'
    BY <1>1, <1>2, <1>7, <1>10, LandOrder
  <2>5. Capped(rank, n, cap, over)'
    BY <1>8, <1>9, <1>10
  <2> QED BY <1>1, <1>6, <2>2, <2>3, <2>4, <2>5, Explained
<1>11. CASE /\ InFlight' = InFlight /\ SizeOf(k)' = 0
            /\ req'[q].pc = "data" /\ req'[q].key = k /\ req'[q].len = req[q].len
  <2>1. Ordered(rank, n, top)'
    <3>1. n < top /\ \A w \in InFlight : rank[w] < top
      BY <1>2, <1>7 DEF Ordered
    <3>2. \A p, w \in InFlight : rank[p] = rank[w] => p = w
      BY <1>2 DEF Ordered
    <3>3. ASSUME NEW w \in InFlight
          PROVE  /\ req'[w].pc = "data" => rank[w] <= n
                 /\ req'[w].pc # "data" => rank[w] # n
      <4>1. CASE w = q
        BY <1>7, <1>11, <4>1
      <4>2. CASE w # q
        <5>1. req'[w] = req[w] /\ rank[w] # n /\ rank[w] \in Nat
          BY <1>1, <1>3, <1>8, <4>2
        <5>2. req[w].pc = "data" => rank[w] <= last
          BY <1>2 DEF Ordered
        <5> QED BY <1>1, <1>7, <5>1, <5>2
      <4> QED BY <4>1, <4>2
    <3> QED BY <1>11, <3>1, <3>2, <3>3 DEF Ordered
  <2>2. Capped(rank, n, cap, over)'
    <3>1. ASSUME NEW w \in InFlight', req'[w].pc = "data", rank[w] = n
          PROVE  req'[w].len <= cap[req'[w].key]
      <4>1. w = q
        BY <1>8, <1>11, <3>1
      <4>2. req[q].len \in Nat
        BY <1>3, Numbers
      <4> QED BY <1>6, <1>11, <4>1, <4>2
    <3> QED BY <1>9, <3>1
  <2>3. Views(rank, n, view, missed)'
    <3> SUFFICES ASSUME NEW w \in InFlight, rank[w] > n
                 PROVE  /\ Saw(req[w], view[w], missed[w])'
                        /\ Cardinality(missed[w]) + Cardinality(Before(rank, rank[w])')
                             <= Cardinality(Req) - 1
      BY <1>11 DEF Views
    <3>1. w \in Req /\ rank[w] \in Nat /\ rank[w] > last /\ w # q /\ req'[w] = req[w]
      BY <1>1, <1>3, <1>7
    <3>2. /\ Saw(req[w], view[w], missed[w])
          /\ Cardinality(missed[w]) + Cardinality(Before(rank, rank[w]))
               <= Cardinality(Req) - 1
      BY <1>2, <3>1 DEF Views
    <3>3. \A j \in Key \ (req[w].todo \cup missed[w]) : SizeOf(j)' <= view[w][j]
      <4>1. \A j \in Key : view[w][j] \in Nat
        BY <1>1, <3>1, Numbers
      <4>2. \A j \in Key \ (req[w].todo \cup missed[w]) : SizeOf(j) <= view[w][j]
        BY <3>2 DEF Saw
      <4> QED BY <1>11, <4>1, <4>2
    <3>4. Saw(req[w], view[w], missed[w])'
      BY <3>1, <3>2, <3>3 DEF Saw
    <3>5. Before(rank, rank[w])' = Before(rank, rank[w])
      BY <1>11 DEF Before
    <3> QED BY <3>2, <3>4, <3>5
  <2> QED BY <1>1, <1>6, <2>1, <2>2, <2>3, Explained
<1> QED BY <1>10, <1>11

\* Only the request itself changes: it is not in flight, or leaves, or goes on
\* to its write with what it has.
LEMMA LocalKeeps ==
  ASSUME MeasuredInv, StateOK', OverrunInv, NEW q \in Req, NEW r, Goto(q, r),
         UNCHANGED <<backend, size>>,
         \/ r.pc \in {"idle", "tier", "probe", "unlink"}
         \/ req[q].pc = "existing" /\ r = [req[q] EXCEPT !.pc = "write"]
  PROVE  OverrunInv'
<1>1. PICK h \in Past : Explains(h)
  BY DEF OverrunInv
<1>2. \A w \in Req : req'[w] = IF w = q THEN r ELSE req[w]
  BY DEF Goto, MeasuredInv
<1>3. \A j \in Key : SizeOf(j)' <= SizeOf(j)
  <2> SUFFICES ASSUME NEW j \in Key PROVE SizeOf(j)' <= SizeOf(j)
    OBVIOUS
  <2>1. SizeOf(j)' = SizeOf(j) /\ SizeOf(j) \in Nat
    BY SizesType, Numbers DEF SizeOf, MeasuredInv, StateOK
  <2> QED BY <2>1
<1>4. ASSUME NEW w \in InFlight'
      PROVE  /\ w \in InFlight /\ SamePut(req[w], req'[w])
             /\ req'[w].pc # "data" => req[w].pc # "data"
             /\ req'[w].pc = "data" => req[w].pc = "data" \/ h.rank[w] < h.last
  <2>1. CASE w # q
    BY <1>2, <2>1 DEF InFlight, SamePut
  <2>2. CASE w = q
    <3>1. req[q].pc = "existing" /\ r = [req[q] EXCEPT !.pc = "write"] /\ req'[w] = r
      BY <1>2, <2>2 DEF InFlight
    <3>2. req[q] \in Request
      BY DEF MeasuredInv
    <3>3. r.pc = "write" /\ SamePut(req[q], r)
      BY <3>1, <3>2 DEF Request, SamePut
    <3> QED BY <2>2, <3>1, <3>3 DEF InFlight
  <2> QED BY <2>1, <2>2
<1> QED BY <1>1, <1>3, <1>4, QuietKeeps

\* No size grows, and the requests keep all that matters here, or are dropped.
LEMMA RemovalKeeps ==
  ASSUME MeasuredInv, StateOK', OverrunInv, UNCHANGED backend,
         \A j \in Key : SizeOf(j)' <= SizeOf(j),
         \A w \in Req : req'[w].pc = "idle"
                        \/ (req'[w].pc = req[w].pc /\ SamePut(req[w], req'[w]))
  PROVE  OverrunInv'
<1>1. PICK h \in Past : Explains(h)
  BY DEF OverrunInv
<1>2. ASSUME NEW w \in InFlight'
      PROVE  /\ w \in InFlight /\ SamePut(req[w], req'[w])
             /\ req'[w].pc # "data" => req[w].pc # "data"
             /\ req'[w].pc = "data" => req[w].pc = "data" \/ h.rank[w] < h.last
  BY <1>2 DEF InFlight
<1> QED BY <1>1, <1>2, QuietKeeps

LEMMA UnlinkedSame ==
  ASSUME MeasuredInv, NEW k, NEW w \in Req
  PROVE  Unlinked(k)[w].pc = req[w].pc /\ SamePut(req[w], Unlinked(k)[w])
<1>1. req[w] \in Request
  BY DEF MeasuredInv
<1>2. PICK r : r = [req[w] EXCEPT !.linked = FALSE]
  OBVIOUS
<1>3. r.pc = req[w].pc /\ SamePut(req[w], r) /\ SamePut(req[w], req[w])
  BY <1>1, <1>2 DEF Request, SamePut
<1> QED BY <1>2, <1>3 DEF Unlinked

\* A removed value makes no size larger.
LEMMA RemovedSizes ==
  ASSUME MeasuredInv, NEW k \in Key, size' = [size EXCEPT ![k] = None]
  PROVE  \A j \in Key : SizeOf(j)' <= SizeOf(j)
<1> SUFFICES ASSUME NEW j \in Key PROVE SizeOf(j)' <= SizeOf(j)
  OBVIOUS
<1>1. SizeOf(j)' \in {0, SizeOf(j)} /\ SizeOf(j) \in Nat
  BY SizesType, Numbers DEF SizeOf, MeasuredInv, StateOK
<1> QED BY <1>1

\* The calls of a put that measure.
LEMMA MeasuringKeeps ==
  ASSUME MeasuredInv, StateOK', OverrunInv, NEW q \in Req,
         PutMeasure(q) \/ PutTierCheck(q) \/ PutExisting(q) \/ PutStoreCheck(q)
  PROVE  OverrunInv'
<1>1. PICK h \in Past : Explains(h)
  BY DEF OverrunInv
<1>2. /\ h.view[q] \in [Key -> Len] /\ h.missed[q] \in SUBSET Key
      /\ h.rank[q] \in Nat /\ h.last \in Nat
  BY PastType
<1>3. UNCHANGED <<backend, size>>
  BY DEF PutMeasure, PutTierCheck, PutExisting, PutStoreCheck
<1>4. req[q] \in Request /\ RequestOK(req[q])
  BY DEF MeasuredInv
<1>5. ASSUME req[q].pc = "measure", h.rank[q] > h.last PROVE Saw(req[q], h.view[q], h.missed[q])
  <2>1. Views(h.rank, h.last, h.view, h.missed) /\ q \in InFlight
    BY <1>1, <1>5 DEF Explains, InFlight
  <2> QED BY <1>5, <2>1 DEF Views
<1>6. IdleReq.pc = "idle"
  BY IdleOK
<1>7. CASE Finish(q)
  BY <1>3, <1>6, <1>7, LocalKeeps DEF Finish
<1>8. CASE PutMeasure(q)
  <2>1. PICK r \in Measured(req[q]) : Goto(q, r)
    BY <1>8 DEF PutMeasure
  <2>2. req[q].todo \subseteq Key /\ req[q].total \in Nat /\ req[q].todo # {}
    BY <1>4, <1>8 DEF Request, PutMeasure
  <2>3. r.pc = req[q].pc /\ r.key = req[q].key
    BY <1>4, <2>1 DEF Measured, Request
  <2>4. CASE req[q].pc = "tier"
    BY <1>3, <2>1, <2>3, <2>4, LocalKeeps
  <2>5. CASE req[q].pc = "measure" /\ backend = "fs"
    <3>1. PICK k \in req[q].todo : r = [req[q] EXCEPT !.todo = @ \ {k}, !.total = @ + SizeOf(k)]
      BY <2>1, <2>5 DEF Measured
    <3>2. r.todo = req[q].todo \ {k} /\ r.total = req[q].total + SizeOf(k)
      BY <1>4, <3>1 DEF Request
    <3>3. k \in Key /\ SizeOf(k) \in Len
      BY <2>2, SizesType DEF MeasuredInv, StateOK
    <3>4. PICK v : v = [h.view[q] EXCEPT ![k] = SizeOf(k)]
      OBVIOUS
    <3>5. v \in [Key -> Len] /\ v[k] = SizeOf(k) /\ \A j \in Key \ {k} : v[j] = h.view[q][j]
      BY <1>2, <3>3, <3>4
    <3>6. ASSUME h.rank[q] > h.last PROVE Saw(r, v, h.missed[q])
      <4>1. Saw(req[q], h.view[q], h.missed[q])
        BY <1>5, <2>5, <3>6
      <4>2. Count(v) = Count(h.view[q]) - h.view[q][k] + SizeOf(k)
        BY <1>2, <3>3, <3>4, CountUpdate
      <4>3. r.total = Count(v)
        <5>1. h.view[q][k] = 0 /\ req[q].total = Count(h.view[q])
          BY <4>1 DEF Saw
        <5>2. SizeOf(k) \in Nat
          BY <3>3, Numbers
        <5> QED BY <2>2, <3>2, <4>2, <5>1, <5>2
      <4>4. \A j \in r.todo : v[j] = 0
        BY <2>2, <3>2, <3>5, <4>1 DEF Saw
      <4>5. \A j \in Key \ (r.todo \cup h.missed[q]) : SizeOf(j) <= v[j]
        <5> SUFFICES ASSUME NEW j \in Key \ (r.todo \cup h.missed[q]) PROVE SizeOf(j) <= v[j]
          OBVIOUS
        <5>1. CASE j = k
          <6>1. SizeOf(k) \in Nat
            BY <3>3, Numbers
          <6>2. SizeOf(k) <= v[k]
            BY <3>5, <6>1
          <6> QED BY <5>1, <6>2
        <5>2. CASE j # k
          <6>1. j \in Key \ (req[q].todo \cup h.missed[q])
            BY <3>2, <5>2
          <6> QED BY <3>5, <4>1, <5>2, <6>1 DEF Saw
        <5> QED BY <5>1, <5>2
      <4> QED BY <2>3, <2>5, <4>3, <4>4, <4>5 DEF Saw
    <3>7. r.pc = "measure" /\ req[q].pc = "measure"
      BY <2>3, <2>5
    <3> QED BY <1>1, <1>3, <2>1, <3>5, <3>6, <3>7, ReadKeeps
  <2>6. CASE req[q].pc = "measure" /\ backend # "fs"
    <3>1. r = [req[q] EXCEPT !.todo = {}, !.total = Total, !.old = SizeOf(req[q].key)]
      BY <2>1, <2>6 DEF Measured
    <3>2. r.todo = {} /\ r.total = Total /\ r.old = SizeOf(r.key) /\ r.key \in Key
      BY <1>4, <2>3, <2>6, <3>1 DEF Request, RequestOK
    <3>3. PICK v : v = Sizes
      OBVIOUS
    <3>4. v \in [Key -> Len] /\ \A j \in Key : v[j] = SizeOf(j) /\ SizeOf(j) \in Nat
      BY <3>3, SizesType, Numbers DEF MeasuredInv, StateOK
    <3>5. Saw(r, v, h.missed[q])
      <4>1. r.total = Count(v)
        BY <3>2, <3>3 DEF Total
      <4>2. \A j \in Key : SizeOf(j) <= v[j]
        BY <3>4
      <4> QED BY <3>2, <4>1, <4>2 DEF Saw
    <3> QED BY <1>1, <1>3, <2>1, <2>3, <2>6, <3>4, <3>5, ReadKeeps
  <2>7. req[q].pc \in {"tier", "measure"}
    BY <1>8 DEF PutMeasure, At
  <2> QED BY <2>4, <2>5, <2>6, <2>7
<1>9. CASE PutTierCheck(q)
  <2>1. PICK r : r = [req[q] EXCEPT !.pc = "measure", !.todo = Key, !.total = 0]
    OBVIOUS
  <2>2. req[q].pc = "tier"
    BY <1>9 DEF PutTierCheck, At
  <2>3. r.pc = "measure" /\ r.key \in Key /\ r.todo = Key /\ r.total = 0
    BY <1>4, <2>1, <2>2 DEF Request, RequestOK
  <2>4. CASE Goto(q, r)
    BY <1>1, <1>3, <2>2, <2>3, <2>4, StartKeeps
  <2> QED BY <1>7, <1>9, <2>1, <2>4 DEF PutTierCheck
<1>10. CASE PutExisting(q)
  <2>1. PICK r : r = [req[q] EXCEPT !.pc = "existing",
                        !.old = IF backend = "fs" THEN SizeOf(req[q].key) ELSE @]
    OBVIOUS
  <2>2. req[q].pc = "measure" /\ req[q].todo = {} /\ Goto(q, r)
    BY <1>10, <2>1 DEF PutExisting, At
  <2>3. /\ r.pc = "existing" /\ r.key = req[q].key /\ r.todo = {} /\ r.total = req[q].total
        /\ r.old = IF backend = "fs" THEN SizeOf(req[q].key) ELSE req[q].old
        /\ r.key \in Key
    BY <1>4, <2>1, <2>2 DEF Request, RequestOK
  <2>4. ASSUME h.rank[q] > h.last PROVE Saw(r, h.view[q], h.missed[q])
    <3>1. Saw(req[q], h.view[q], h.missed[q])
      BY <1>5, <2>2, <2>4
    <3>2. r.old <= h.view[q][r.key] \/ r.key \in h.missed[q]
      BY <2>2, <2>3, <3>1 DEF Saw
    <3> QED BY <2>2, <2>3, <3>1, <3>2 DEF Saw
  <2> QED BY <1>1, <1>2, <1>3, <2>2, <2>3, <2>4, ReadKeeps
<1>11. CASE PutStoreCheck(q)
  <2>1. req[q].pc = "existing"
    BY <1>11 DEF PutStoreCheck, At
  <2>2. PICK r : r = [req[q] EXCEPT !.pc = "write"]
    OBVIOUS
  <2>3. CASE Goto(q, r)
    BY <1>3, <2>1, <2>2, <2>3, LocalKeeps
  <2> QED BY <1>7, <1>11, <2>2, <2>3 DEF PutStoreCheck
<1> QED BY <1>8, <1>9, <1>10, <1>11

\* The writes of a put.
LEMMA WritingKeeps ==
  ASSUME MeasuredInv, StateOK', OverrunInv, NEW q \in Req, PutWrite(q) \/ PutData(q)
  PROVE  OverrunInv'
<1>1. PICK h \in Past : Explains(h)
  BY DEF OverrunInv
<1>2. PICK k, len : k = req[q].key /\ len = req[q].len
  OBVIOUS
<1>3. req[q] \in Request /\ RequestOK(req[q]) /\ req[q].pc \in {"write", "data"}
  BY DEF MeasuredInv, PutWrite, PutData, At
<1>4. q \in InFlight /\ k \in Key /\ len \in Len /\ backend' = backend
  BY <1>2, <1>3 DEF InFlight, RequestOK, Request, PutWrite, PutData
<1>5. \A j \in Key : SizeOf(j) \in Nat /\ SizeOf(j) \in Len
  BY SizesType, Numbers DEF MeasuredInv, StateOK
<1>6. h.rank[q] \in Nat /\ h.last \in Nat /\ h.cap[k] \in Nat
  BY <1>4, PastType, Numbers
<1>7. ASSUME NEW v \in Len, size' = [size EXCEPT ![k] = v]
      PROVE  SizeOf(k)' = v /\ \A j \in Key \ {k} : SizeOf(j)' = SizeOf(j)
  BY <1>4, <1>7, Numbers DEF SizeOf, MeasuredInv, StateOK
<1>8. ASSUME NEW r, Goto(q, r), r.pc = "idle"
      PROVE  /\ InFlight' = InFlight \ {q}
             /\ \A w \in InFlight \ {q} : req'[w] = req[w]
  <2>1. \A w \in Req : req'[w] = IF w = q THEN r ELSE req[w]
    BY <1>8 DEF Goto, MeasuredInv
  <2> QED BY <1>8, <2>1 DEF InFlight
<1>9. IdleReq.pc = "idle"
  BY IdleOK
<1>10. CASE PutWrite(q) /\ backend = "fs"
  <2>1. PICK r : r = [req[q] EXCEPT !.pc = "data", !.linked = TRUE]
    OBVIOUS
  <2>2. /\ Goto(q, r) /\ size' = [size EXCEPT ![k] = 0] /\ req[q].pc = "write"
    BY <1>2, <1>10, <2>1 DEF PutWrite, At
  <2>3. r.pc = "data" /\ r.key = k /\ r.len = len /\ SamePut(req[q], r)
    BY <1>2, <1>3, <2>1, <2>2 DEF Request, SamePut
  <2>4. \A w \in Req : req'[w] = IF w = q THEN r ELSE req[w]
    BY <2>2 DEF Goto, MeasuredInv
  <2>5. InFlight' = InFlight /\ \A w \in InFlight \ {q} : req'[w] = req[w]
    BY <2>2, <2>3, <2>4 DEF InFlight
  <2>6. SizeOf(k)' = 0 /\ \A j \in Key \ {k} : SizeOf(j)' = SizeOf(j)
    BY <1>7, <2>2, Numbers
  <2>7. CASE h.rank[q] > h.last
    <3>1. req'[q].pc = "data" /\ req'[q].key = k /\ req'[q].len = req[q].len
      BY <1>2, <2>3, <2>4
    <3> QED BY <1>1, <1>2, <1>4, <2>2, <2>5, <2>6, <2>7, <3>1, WriteKeeps
  <2>8. CASE ~ (h.rank[q] > h.last)
    <3>1. h.rank[q] # h.last
      BY <1>1, <1>4, <2>2 DEF Explains, Ordered
    <3>2. h.rank[q] < h.last
      BY <1>6, <2>8, <3>1
    <3>3. ASSUME NEW w \in InFlight'
          PROVE  /\ w \in InFlight /\ SamePut(req[w], req'[w])
                 /\ req'[w].pc # "data" => req[w].pc # "data"
                 /\ req'[w].pc = "data" => req[w].pc = "data" \/ h.rank[w] < h.last
      <4>1. CASE w = q
        BY <1>4, <2>3, <2>4, <3>2, <4>1
      <4>2. CASE w # q
        BY <2>5, <4>2 DEF SamePut
      <4> QED BY <4>1, <4>2
    <3>4. \A j \in Key : SizeOf(j)' <= SizeOf(j)
      <4> SUFFICES ASSUME NEW j \in Key PROVE SizeOf(j)' <= SizeOf(j)
        OBVIOUS
      <4>1. CASE j = k
        <5>1. SizeOf(k) \in Nat /\ SizeOf(k)' = 0
          BY <1>4, <1>5, <2>6
        <5>2. SizeOf(k)' <= SizeOf(k)
          BY <5>1
        <5> QED BY <4>1, <5>2
      <4>2. CASE j # k
        <5>1. SizeOf(j)' = SizeOf(j) /\ SizeOf(j) \in Nat
          BY <1>5, <2>6, <4>2
        <5> QED BY <5>1
      <4> QED BY <4>1, <4>2
    <3> QED BY <1>1, <1>4, <3>3, <3>4, QuietKeeps
  <2> QED BY <2>7, <2>8
<1>11. CASE PutWrite(q) /\ backend # "fs"
  <2>1. Goto(q, IdleReq) /\ size' = [size EXCEPT ![k] = len] /\ req[q].pc = "write"
    BY <1>2, <1>11 DEF PutWrite, At, Finish
  <2>2. InFlight' = InFlight \ {q} /\ \A w \in InFlight \ {q} : req'[w] = req[w]
    BY <1>8, <1>9, <2>1
  <2>3. SizeOf(k)' = len /\ \A j \in Key \ {k} : SizeOf(j)' = SizeOf(j)
    BY <1>4, <1>7, <2>1
  <2>4. CASE h.rank[q] > h.last
    <3>1. SizeOf(k)' = req[q].len
      BY <1>2, <2>3
    <3> QED BY <1>1, <1>2, <1>4, <2>1, <2>2, <2>3, <2>4, <3>1, WriteKeeps
  <2>5. CASE ~ (h.rank[q] > h.last)
    <3>1. h.rank[q] # h.last
      BY <1>1, <1>4, <2>1 DEF Explains, Ordered
    <3>2. h.rank[q] <= h.last
      BY <1>6, <2>5
    <3> QED BY <1>1, <1>4, <2>2, <2>3, <3>1, <3>2, LandKeeps
  <2> QED BY <2>4, <2>5
<1>12. CASE PutData(q)
  <2>1. Goto(q, IdleReq) /\ req[q].pc = "data"
    BY <1>12 DEF PutData, At, Finish
  <2>2. InFlight' = InFlight \ {q} /\ \A w \in InFlight \ {q} : req'[w] = req[w]
    BY <1>8, <1>9, <2>1
  <2>3. PICK v : v = IF req[q].linked THEN Max({SizeOf(k), len}) ELSE SizeOf(k)
    OBVIOUS
  <2>4. SizeOf(k) \in Len /\ SizeOf(k) \in Nat /\ len \in Nat
    BY <1>4, <1>5, Numbers
  <2>5. v \in Len /\ v \in {SizeOf(k), len}
    <3>1. CASE req[q].linked
      BY <1>4, <2>3, <2>4, <3>1, MaxOfTwo
    <3>2. CASE ~ req[q].linked
      BY <2>3, <2>4, <3>2
    <3> QED BY <3>1, <3>2
  <2>6. SizeOf(k)' = v /\ \A j \in Key \ {k} : SizeOf(j)' = SizeOf(j)
    <3>1. CASE req[q].linked
      <4>1. size' = [size EXCEPT ![k] = v]
        BY <1>2, <1>12, <2>3, <3>1 DEF PutData
      <4> QED BY <1>7, <2>5, <4>1
    <3>2. CASE ~ req[q].linked
      <4>1. size' = size /\ v = SizeOf(k)
        BY <1>12, <2>3, <3>2 DEF PutData
      <4> QED BY <4>1 DEF SizeOf
    <3> QED BY <3>1, <3>2
  <2>7. h.rank[q] <= h.last
    BY <1>1, <1>4, <2>1 DEF Explains, Ordered
  <2>8. h.rank[q] = h.last => SizeOf(k)' <= SizeOf(k) \/ SizeOf(k)' <= h.cap[k]
    <3>1. ASSUME h.rank[q] = h.last PROVE len <= h.cap[k]
      BY <1>1, <1>2, <1>4, <2>1, <3>1 DEF Explains, Capped
    <3> QED BY <2>4, <2>5, <2>6, <3>1
  <2> QED BY <1>1, <1>4, <2>2, <2>6, <2>7, <2>8, LandKeeps
<1> QED BY <1>10, <1>11, <1>12

\* Every step leaves an explanation of the sizes.
LEMMA NextOverrun == MeasuredInv /\ OverrunInv /\ [Next]_vars => OverrunInv'
<1> SUFFICES ASSUME MeasuredInv, OverrunInv, [Next]_vars PROVE OverrunInv'
  OBVIOUS
<1>1. StateOK'
  BY NextMeasured DEF MeasuredInv
<1>2. IdleReq.pc = "idle"
  BY IdleOK
<1>3. ASSUME NEW q \in Req,
             PutMeasure(q) \/ PutTierCheck(q) \/ PutExisting(q) \/ PutStoreCheck(q)
      PROVE  OverrunInv'
  BY <1>1, <1>3, MeasuringKeeps
<1>4. ASSUME NEW q \in Req, PutWrite(q) \/ PutData(q) PROVE OverrunInv'
  BY <1>1, <1>4, WritingKeeps
<1>5. ASSUME NEW q \in Req, PutFetch(q) PROVE OverrunInv'
  <2>1. PICK k, len, limit :
          Goto(q, [IdleReq EXCEPT !.pc = "tier", !.key = k, !.len = len,
                                  !.limit = limit, !.todo = Key])
    BY <1>5 DEF PutFetch
  <2>2. PICK r : r = [IdleReq EXCEPT !.pc = "tier", !.key = k, !.len = len,
                                  !.limit = limit, !.todo = Key]
    OBVIOUS
  <2>3. r.pc = "tier"
    BY <2>2 DEF IdleReq
  <2> QED BY <1>1, <1>5, <2>1, <2>2, <2>3, LocalKeeps DEF PutFetch
<1>6. ASSUME NEW q \in Req, DeleteFetch(q) PROVE OverrunInv'
  <2>1. PICK k : Goto(q, [IdleReq EXCEPT !.pc = "probe", !.key = k])
    BY <1>6 DEF DeleteFetch
  <2>2. PICK r : r = [IdleReq EXCEPT !.pc = "probe", !.key = k]
    OBVIOUS
  <2>3. r.pc = "probe"
    BY <2>2 DEF IdleReq
  <2> QED BY <1>1, <1>6, <2>1, <2>2, <2>3, LocalKeeps DEF DeleteFetch
<1>7. ASSUME NEW q \in Req, DeleteProbe(q) PROVE OverrunInv'
  <2>1. PICK r : r = [req[q] EXCEPT !.pc = "unlink"]
    OBVIOUS
  <2>2. r.pc = "unlink"
    BY <2>1 DEF MeasuredInv, Request
  <2>3. Goto(q, r) \/ Goto(q, IdleReq)
    BY <1>7, <2>1 DEF DeleteProbe, Finish
  <2> QED BY <1>1, <1>2, <1>7, <2>2, <2>3, LocalKeeps DEF DeleteProbe
<1>8. ASSUME NEW q \in Req, RequestFails(q) PROVE OverrunInv'
  BY <1>1, <1>2, <1>8, LocalKeeps DEF RequestFails, Finish
<1>9. ASSUME NEW q \in Req, DeleteUnlink(q) PROVE OverrunInv'
  <2>1. PICK k : k = req[q].key
    OBVIOUS
  <2>2. k \in Key
    BY <1>9, <2>1 DEF MeasuredInv, RequestOK, DeleteUnlink, At
  <2>3. /\ req' = [Unlinked(k) EXCEPT ![q] = IdleReq] /\ backend' = backend
        /\ size' = [size EXCEPT ![k] = None]
    BY <1>9, <2>1 DEF DeleteUnlink
  <2>4. \A w \in Req : req'[w] = IF w = q THEN IdleReq ELSE Unlinked(k)[w]
    <3>1. DOMAIN Unlinked(k) = Req
      BY DEF Unlinked
    <3> QED BY <2>3, <3>1
  <2>5. \A w \in Req : req'[w].pc = "idle"
                       \/ (req'[w].pc = req[w].pc /\ SamePut(req[w], req'[w]))
    <3> SUFFICES ASSUME NEW w \in Req
                 PROVE  req'[w].pc = "idle"
                        \/ (req'[w].pc = req[w].pc /\ SamePut(req[w], req'[w]))
      OBVIOUS
    <3>1. CASE w = q
      BY <1>2, <2>4, <3>1
    <3>2. CASE w # q
      <4>1. req'[w] = Unlinked(k)[w]
        BY <2>4, <3>2
      <4>2. Unlinked(k)[w].pc = req[w].pc /\ SamePut(req[w], Unlinked(k)[w])
        BY UnlinkedSame
      <4> QED BY <4>1, <4>2 DEF SamePut
    <3> QED BY <3>1, <3>2
  <2> QED BY <1>1, <2>2, <2>3, <2>5, RemovedSizes, RemovalKeeps
<1>10. ASSUME NEW k \in Key, ClearKey(k) PROVE OverrunInv'
  <2>1. req' = Unlinked(k) /\ backend' = backend /\ size' = [size EXCEPT ![k] = None]
    BY <1>10 DEF ClearKey
  <2>2. \A w \in Req : req'[w].pc = req[w].pc /\ SamePut(req[w], req'[w])
    BY <2>1, UnlinkedSame
  <2> QED BY <1>1, <2>1, <2>2, RemovedSizes, RemovalKeeps
<1>11. ASSUME UNCHANGED <<backend, size, req>> PROVE OverrunInv'
  <2>1. \A w \in Req : req'[w].pc = req[w].pc /\ SamePut(req[w], req'[w])
    BY <1>11 DEF SamePut
  <2>2. \A j \in Key : SizeOf(j)' <= SizeOf(j)
    <3> SUFFICES ASSUME NEW j \in Key PROVE SizeOf(j)' <= SizeOf(j)
      OBVIOUS
    <3>1. SizeOf(j)' = SizeOf(j) /\ SizeOf(j) \in Nat
      BY <1>11, SizesType, Numbers DEF SizeOf, MeasuredInv, StateOK
    <3> QED BY <3>1
  <2> QED BY <1>1, <1>11, <2>1, <2>2, RemovalKeeps
<1>12. CASE RemoveRecord \/ ClearList \/ ClearDone \/ ClearFails \/ UNCHANGED vars
  BY <1>11, <1>12 DEF RemoveRecord, ClearList, ClearDone, ClearFails, vars
<1> QED BY <1>3, <1>4, <1>5, <1>6, <1>7, <1>8, <1>9, <1>10, <1>12 DEF Next, Handle, Clear

\* However the puts of a project interleave, the values of its store come to
\* no more than the limit and one value for each further request.
THEOREM OverrunBoundedHolds == Spec => []OverrunBounded
<1>1. Init => MeasuredInv /\ OverrunInv
  BY InitMeasured, InitOverrun
<1>2. MeasuredInv /\ OverrunInv /\ [Next]_vars => (MeasuredInv /\ OverrunInv)'
  BY NextMeasured, NextOverrun
<1>3. MeasuredInv /\ OverrunInv => OverrunBounded
  BY ExplainedBound
<1> QED BY <1>1, <1>2, <1>3, PTL DEF Spec

-----------------------------------------------------------------------------
(* What a removed project leaves.                                          *)

\* A record with the fields of Request, whatever they hold.
Fields(r) ==
  r = [f \in {"pc", "key", "len", "limit", "todo", "total", "old", "linked"}
         |-> r[f]]

\* As much of TypeOK as the proof needs: it does not look at sizes.
Shape ==
  /\ DOMAIN req = Req /\ req = [q \in Req |-> req[q]]
  /\ \A q \in Req :
       /\ Fields(req[q])
       /\ req[q].pc # "idle" => req[q].key \in Key
  /\ size = [k \in Key |-> size[k]]
  /\ doomed \subseteq Key
  /\ remover \in {"idle", "list", "clear", "done"}
  /\ faults \in Nat

Inv == Shape /\ RemovalInv

\* The key that a request is putting, as Putting collects it.
Puts(r) == r.pc \notin {"idle", "probe", "unlink"}

LEMMA PuttingIs == Putting = {req[q].key : q \in {x \in Req : Puts(req[x])}}
BY DEF Putting, Puts

\* A step that gives request q the locals r puts no other key, unless r does.
LEMMA GotoPutting ==
  ASSUME Shape, NEW q \in Req, NEW r, Goto(q, r),
         Fields(r),
         r.pc # "idle" => r.key \in Key,
         Puts(r) => Puts(req[q]) /\ r.key = req[q].key
  PROVE  /\ DOMAIN req' = Req /\ req' = [x \in Req |-> req'[x]]
         /\ \A x \in Req :
              /\ Fields(req'[x])
              /\ req'[x].pc # "idle" => req'[x].key \in Key
         /\ Putting' \subseteq Putting
<1>1. \A x \in Req : req'[x] = IF x = q THEN r ELSE req[x]
  BY DEF Goto, Shape
<1>2. DOMAIN req' = Req /\ req' = [x \in Req |-> req'[x]]
  BY DEF Goto, Shape
<1>3. \A x \in Req :
        /\ Fields(req'[x])
        /\ req'[x].pc # "idle" => req'[x].key \in Key
  BY <1>1 DEF Shape
<1>4. \A x \in Req : Puts(req'[x]) => Puts(req[x]) /\ req'[x].key = req[x].key
  BY <1>1
<1>5. Putting' = {req'[x].key : x \in {y \in Req : Puts(req'[y])}}
  BY DEF Putting, Puts
<1> QED BY <1>2, <1>3, <1>4, <1>5, PuttingIs

\* Losing the name of an open file changes no key and no next call.
LEMMA UnlinkedPutting ==
  ASSUME Shape, NEW k \in Key, NEW q \in Req
  PROVE  /\ DOMAIN Unlinked(k) = Req /\ Unlinked(k) = [x \in Req |-> Unlinked(k)[x]]
         /\ \A x \in Req :
              /\ Fields(Unlinked(k)[x])
              /\ Unlinked(k)[x].pc = req[x].pc
              /\ Unlinked(k)[x].key = req[x].key
<1>1. /\ DOMAIN Unlinked(k) = Req
      /\ Unlinked(k) = [x \in Req |-> Unlinked(k)[x]]
  BY DEF Unlinked
<1>2. ASSUME NEW x \in Req
      PROVE  /\ Fields(Unlinked(k)[x])
             /\ Unlinked(k)[x].pc = req[x].pc
             /\ Unlinked(k)[x].key = req[x].key
  <2> DEFINE r == [req[x] EXCEPT !.linked = FALSE]
  <2>1. Fields(req[x])
    BY DEF Shape
  <2>2. Fields(r) /\ r.pc = req[x].pc /\ r.key = req[x].key
    BY <2>1 DEF Fields
  <2>3. Unlinked(k)[x] \in {r, req[x]}
    BY DEF Unlinked
  <2> QED BY <2>1, <2>2, <2>3
<1> QED BY <1>1, <1>2

\* The store loses a value, or gains one that is being put.
StoreStep ==
  /\ size' = [k \in Key |-> size'[k]]
  /\ Present' \subseteq Present \cup Putting

ReqShape ==
  /\ DOMAIN req = Req /\ req = [q \in Req |-> req[q]]
  /\ \A q \in Req :
       /\ Fields(req[q])
       /\ req[q].pc # "idle" => req[q].key \in Key

\* A step of a request that is past the check of the record.
LEMMA PastCheck ==
  ASSUME Inv, ReqShape', Putting' \subseteq Putting, StoreStep,
         faults' \in Nat, faults' = 0 => faults = 0,
         UNCHANGED <<project, remover, doomed, racing>>
  PROVE  Inv'
<1>1. Shape'
  BY DEF Inv, Shape, ReqShape, StoreStep
<1>2. CASE project
  BY <1>1, <1>2 DEF Inv, RemovalInv, OnlyRacingValuesStay
<1>3. CASE ~ project
  <2>1. Putting' \subseteq racing' /\ Present' \subseteq Present \cup racing
    BY <1>3 DEF Inv, RemovalInv, StoreStep
  <2> QED BY <1>1, <1>3, <2>1 DEF Inv, RemovalInv, OnlyRacingValuesStay
<1> QED BY <1>2, <1>3

LEMMA InitInv == Init => Inv
<1> SUFFICES ASSUME Init PROVE Inv
  OBVIOUS
<1>1. Fields(IdleReq) /\ IdleReq.pc = "idle"
  BY DEF Fields, IdleReq
<1> QED BY <1>1 DEF Init, Inv, Shape, RemovalInv, OnlyRacingValuesStay

\* The calls that only read: the request keeps its key or goes.
LEMMA ReadsKeepInv ==
  ASSUME Inv, NEW q \in Req,
         \/ PutMeasure(q) \/ PutTierCheck(q) \/ PutExisting(q)
         \/ PutStoreCheck(q) \/ DeleteProbe(q) \/ RequestFails(q)
  PROVE  Inv'
<1>1. Fields(req[q]) /\ (req[q].pc # "idle" => req[q].key \in Key)
  BY DEF Inv, Shape
<1>2. PICK r : /\ Goto(q, r) /\ Fields(r)
               /\ r.pc # "idle" => r.key \in Key
               /\ Puts(r) => Puts(req[q]) /\ r.key = req[q].key
  <2>1. CASE PutMeasure(q)
    <3>1. PICK r \in Measured(req[q]) : Goto(q, r)
      BY <2>1 DEF PutMeasure
    <3>2. r.pc = req[q].pc /\ r.key = req[q].key /\ Fields(r)
      BY <1>1, <3>1 DEF Measured, Fields
    <3> QED BY <1>1, <3>1, <3>2 DEF Puts
  <2>2. Fields(IdleReq) /\ IdleReq.pc = "idle" /\ ~ Puts(IdleReq)
    BY DEF Fields, IdleReq, Puts
  <2>3. CASE Goto(q, IdleReq)
    BY <2>2, <2>3
  <2>4. CASE PutTierCheck(q)
    <3> DEFINE r == [req[q] EXCEPT !.pc = "measure", !.todo = Key, !.total = 0]
    <3>1. Fields(r) /\ r.pc = "measure" /\ r.key = req[q].key
      BY <1>1 DEF Fields
    <3>2. CASE Goto(q, r)
      BY <1>1, <2>4, <3>1, <3>2 DEF PutTierCheck, Puts, At
    <3> QED BY <2>3, <2>4, <3>2 DEF PutTierCheck, Finish
  <2>5. CASE PutExisting(q)
    <3> DEFINE r == [req[q] EXCEPT !.pc = "existing",
                       !.old = IF backend = "fs" THEN SizeOf(req[q].key) ELSE @]
    <3>1. Fields(r) /\ r.pc = "existing" /\ r.key = req[q].key
      BY <1>1 DEF Fields
    <3> QED BY <1>1, <2>5, <3>1 DEF PutExisting, Puts, At
  <2>6. CASE PutStoreCheck(q)
    <3> DEFINE r == [req[q] EXCEPT !.pc = "write"]
    <3>1. Fields(r) /\ r.pc = "write" /\ r.key = req[q].key
      BY <1>1 DEF Fields
    <3>2. CASE Goto(q, r)
      BY <1>1, <2>6, <3>1, <3>2 DEF PutStoreCheck, Puts, At
    <3> QED BY <2>3, <2>6, <3>2 DEF PutStoreCheck, Finish
  <2>7. CASE DeleteProbe(q)
    <3> DEFINE r == [req[q] EXCEPT !.pc = "unlink"]
    <3>1. Fields(r) /\ r.pc = "unlink" /\ r.key = req[q].key
      BY <1>1 DEF Fields
    <3>2. CASE Goto(q, r)
      BY <1>1, <2>7, <3>1, <3>2 DEF DeleteProbe, Puts, At
    <3> QED BY <2>3, <2>7, <3>2 DEF DeleteProbe, Finish
  <2>8. CASE RequestFails(q)
    BY <2>3, <2>8 DEF RequestFails, Finish
  <2> QED BY <2>1, <2>4, <2>5, <2>6, <2>7, <2>8
<1>3. ReqShape' /\ Putting' \subseteq Putting
  BY <1>2, GotoPutting DEF Inv, ReqShape
<1>4. /\ UNCHANGED <<size, project, remover, doomed, racing>>
      /\ faults' \in Nat /\ (faults' = 0 => faults = 0)
  BY DEF Inv, Shape, PutMeasure, PutTierCheck, PutExisting, PutStoreCheck,
         DeleteProbe, RequestFails
<1>5. StoreStep
  BY <1>4 DEF StoreStep, Inv, Shape, Present
<1> QED BY <1>3, <1>4, <1>5, PastCheck

\* The calls that write a value.
LEMMA WritesKeepInv ==
  ASSUME Inv, NEW q \in Req, PutWrite(q) \/ PutData(q)
  PROVE  Inv'
<1>1. Fields(req[q]) /\ req[q].key \in Key /\ Puts(req[q])
  BY DEF Inv, Shape, PutWrite, PutData, At, Puts
<1>2. req[q].key \in Putting
  BY <1>1, PuttingIs
<1>3. PICK r : /\ Goto(q, r) /\ Fields(r)
               /\ r.pc # "idle" => r.key \in Key
               /\ Puts(r) => Puts(req[q]) /\ r.key = req[q].key
  <2>1. CASE Goto(q, IdleReq)
    BY <2>1 DEF Fields, IdleReq, Puts
  <2>2. CASE PutWrite(q) /\ backend = "fs"
    <3> DEFINE r == [req[q] EXCEPT !.pc = "data", !.linked = TRUE]
    <3>1. Fields(r) /\ r.pc = "data" /\ r.key = req[q].key
      BY <1>1 DEF Fields
    <3> QED BY <1>1, <2>2, <3>1 DEF PutWrite
  <2> QED BY <2>1, <2>2 DEF PutWrite, PutData, Finish
<1>4. ReqShape' /\ Putting' \subseteq Putting
  BY <1>3, GotoPutting DEF Inv, ReqShape
<1>5. \A k \in Key \ {req[q].key} : size'[k] = size[k]
  BY DEF PutWrite, PutData, Inv, Shape
<1>6. size' = [k \in Key |-> size'[k]]
  BY DEF PutWrite, PutData, Inv, Shape
<1>7. StoreStep
  BY <1>2, <1>5, <1>6 DEF StoreStep, Present
<1>8. UNCHANGED <<project, remover, doomed, racing, faults>>
  BY DEF PutWrite, PutData
<1> QED BY <1>4, <1>7, <1>8, PastCheck DEF Inv, Shape

\* The check of the record: a put that passes it finds the project in place.
LEMMA FetchesKeepInv ==
  ASSUME Inv, NEW q \in Req, PutFetch(q) \/ DeleteFetch(q)
  PROVE  Inv'
<1>1. PICK r : Goto(q, r) /\ Fields(r) /\ r.key \in Key
  <2>1. CASE PutFetch(q)
    <3>1. PICK k \in Key, len \in Len, limit \in TierTotal :
            Goto(q, [IdleReq EXCEPT !.pc = "tier", !.key = k, !.len = len,
                                    !.limit = limit, !.todo = Key])
      BY <2>1 DEF PutFetch
    <3> DEFINE r == [IdleReq EXCEPT !.pc = "tier", !.key = k, !.len = len,
                                    !.limit = limit, !.todo = Key]
    <3>2. Fields(r) /\ r.key = k
      BY DEF Fields, IdleReq
    <3> QED BY <3>1, <3>2
  <2>2. CASE DeleteFetch(q)
    <3>1. PICK k \in Key : Goto(q, [IdleReq EXCEPT !.pc = "probe", !.key = k])
      BY <2>2 DEF DeleteFetch
    <3> DEFINE r == [IdleReq EXCEPT !.pc = "probe", !.key = k]
    <3>2. Fields(r) /\ r.key = k
      BY DEF Fields, IdleReq
    <3> QED BY <3>1, <3>2
  <2> QED BY <2>1, <2>2
<1>2. ReqShape'
  <2>1. \A x \in Req : req'[x] = IF x = q THEN r ELSE req[x]
    BY <1>1 DEF Goto, Inv, Shape
  <2> QED BY <1>1, <2>1 DEF Goto, Inv, Shape, ReqShape
<1>3. project /\ UNCHANGED <<size, project, remover, doomed, faults, racing>>
  BY DEF PutFetch, DeleteFetch
<1> QED BY <1>2, <1>3 DEF Inv, Shape, ReqShape, RemovalInv,
          OnlyRacingValuesStay

\* A key is deleted, by a request or by delete_all.
LEMMA DeletesKeepInv ==
  ASSUME Inv, (\E q \in Req : DeleteUnlink(q)) \/ (\E k \in Key : ClearKey(k))
  PROVE  Inv'
<1>1. CASE \E q \in Req : DeleteUnlink(q)
  <2>1. PICK q \in Req : DeleteUnlink(q)
    BY <1>1
  <2> DEFINE k == req[q].key
  <2>2. k \in Key
    BY <2>1 DEF Inv, Shape, DeleteUnlink, At
  <2> HIDE DEF k
  <2>3. \A x \in Req : req'[x] = IF x = q THEN IdleReq ELSE Unlinked(k)[x]
    BY <2>1, <2>2, UnlinkedPutting DEF DeleteUnlink, Inv, k
  <2>4. ReqShape'
    <3>1. DOMAIN req' = Req /\ req' = [x \in Req |-> req'[x]]
      BY <2>1, <2>2, UnlinkedPutting DEF DeleteUnlink, Inv, k
    <3>2. Fields(IdleReq) /\ IdleReq.pc = "idle"
      BY DEF Fields, IdleReq
    <3>3. \A x \in Req : /\ Fields(Unlinked(k)[x])
                         /\ Unlinked(k)[x].pc # "idle" => Unlinked(k)[x].key \in Key
      BY <2>2, UnlinkedPutting DEF Inv, Shape
    <3>4. ASSUME NEW x \in Req
          PROVE  Fields(req'[x]) /\ (req'[x].pc # "idle" => req'[x].key \in Key)
      <4>1. CASE x = q
        BY <2>3, <3>2, <4>1
      <4>2. CASE x # q
        BY <2>3, <3>3, <4>2
      <4> QED BY <4>1, <4>2
    <3> QED BY <3>1, <3>4 DEF ReqShape
  <2>5. Putting' \subseteq Putting
    <3>1. \A x \in Req : Puts(req'[x]) => Puts(req[x]) /\ req'[x].key = req[x].key
      BY <2>2, <2>3, UnlinkedPutting DEF Inv, Puts, IdleReq
    <3>2. Putting' = {req'[x].key : x \in {y \in Req : Puts(req'[y])}}
      BY DEF Putting, Puts
    <3> QED BY <3>1, <3>2, PuttingIs
  <2>6. StoreStep
    BY <2>1 DEF StoreStep, DeleteUnlink, Inv, Shape, Present
  <2>7. UNCHANGED <<project, remover, doomed, racing, faults>>
    BY <2>1 DEF DeleteUnlink
  <2> QED BY <2>4, <2>5, <2>6, <2>7, PastCheck DEF Inv, Shape
<1>2. CASE \E k \in Key : ClearKey(k)
  <2>1. PICK k \in Key : ClearKey(k)
    BY <1>2
  <2>2. req' = Unlinked(k)
    BY <2>1 DEF ClearKey
  <2>3. ReqShape' /\ Putting' \subseteq Putting
    <3>1. Putting' = {req'[x].key : x \in {y \in Req : Puts(req'[y])}}
      BY DEF Putting, Puts
    <3>2. \A x \in Req : Puts(req'[x]) => Puts(req[x]) /\ req'[x].key = req[x].key
      BY <2>2, UnlinkedPutting DEF Inv, Puts
    <3>3. ReqShape'
      <4>1. DOMAIN req' = Req /\ req' = [x \in Req |-> req'[x]]
        BY <2>2 DEF Unlinked
      <4>2. ASSUME NEW x \in Req
            PROVE  Fields(req'[x]) /\ (req'[x].pc # "idle" => req'[x].key \in Key)
        BY <2>2, UnlinkedPutting DEF Inv, Shape
      <4> QED BY <4>1, <4>2 DEF ReqShape
    <3> QED BY <3>1, <3>2, <3>3, PuttingIs
  <2>4. /\ size' = [x \in Key |-> size'[x]]
        /\ Present' = Present \ {k}
    BY <2>1 DEF ClearKey, Present, Inv, Shape
  <2>5. /\ doomed' = doomed \ {k} /\ remover = "clear"
        /\ UNCHANGED <<project, remover, faults, racing>>
    BY <2>1 DEF ClearKey
  <2> QED BY <2>3, <2>4, <2>5 DEF Inv, Shape, ReqShape, RemovalInv,
            OnlyRacingValuesStay
<1> QED BY <1>1, <1>2

\* The task that removes the project.
LEMMA RemovalKeepsInv ==
  ASSUME Inv, RemoveRecord \/ ClearList \/ ClearDone \/ ClearFails
  PROVE  Inv'
<1>1. UNCHANGED <<size, req>> /\ Putting' = Putting /\ Present' = Present
  BY DEF RemoveRecord, ClearList, ClearDone, ClearFails, Putting, Present
<1>2. Shape'
  BY <1>1 DEF Inv, Shape, RemoveRecord, ClearList, ClearDone, ClearFails,
       Present
<1>3. RemovalInv'
  BY <1>1 DEF Inv, Shape, RemoveRecord, ClearList, ClearDone, ClearFails,
       RemovalInv, OnlyRacingValuesStay
<1> QED BY <1>2, <1>3 DEF Inv

LEMMA NextKeepsInv == Inv /\ [Next]_vars => Inv'
<1> SUFFICES ASSUME Inv, [Next]_vars PROVE Inv'
  OBVIOUS
<1>1. CASE Next
  BY <1>1, FetchesKeepInv, ReadsKeepInv, WritesKeepInv, DeletesKeepInv,
     RemovalKeepsInv DEF Next, Handle, Clear
<1>2. CASE UNCHANGED vars
  BY <1>2 DEF vars, Inv, Shape, RemovalInv, OnlyRacingValuesStay, Putting,
       Present
<1> QED BY <1>1, <1>2

\* Whatever puts, deletes and failed requests interleave with the removal of
\* the project (delete_project or the reaper, then KvStore::delete_all), the
\* values left are of puts that had read the record before it went.
THEOREM OnlyRacingValuesStayHolds == Spec => []OnlyRacingValuesStay
<1>1. Inv => OnlyRacingValuesStay
  BY DEF Inv, RemovalInv
<1> QED BY <1>1, InitInv, NextKeepsInv, PTL DEF Spec

=============================================================================
