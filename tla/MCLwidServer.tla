--------------------------- MODULE MCLwidServer ---------------------------
(***************************************************************************)
(* Instances of LwidServer for TLC.                                        *)
(***************************************************************************)
EXTENDS ServerRegistry, TLC

CONSTANTS p1, p2, k1, k2, u1, n1, q1, q2, m1, m2, f1

\* Two versions: m1 has one file, and m2, which follows it, has none.
MCFiles == [m \in Manifest |-> IF m = m1 THEN {f1} ELSE {}]
MCParent == [m \in Manifest |-> IF m = m1 THEN None ELSE m1]
MCSize == [m \in Manifest |-> Cardinality(MCFiles[m])]

\* Two TTL choices before "never".
MCDuration == <<1, 2>>
TtlBounded == [c \in Caller |-> 2]
QuotaOfOne == [u \in User |-> 1]
Unlimited == [u \in User |-> 0]
OneTtl == <<2>>
ShortestOnly == [c \in Caller |-> 1]
SizeAll == [c \in Caller |-> 1]
\* Anonymous callers may publish empty versions only.
SizeByTier == [c \in Caller |-> IF c = None THEN 0 ELSE 1]

ReqSymmetry == Permutations(Req)
LifecycleSymmetry == Permutations(Req) \cup Permutations(Project)

\* p1 has published m1, is due at time 1 and, if there are users, is u1's;
\* the blobs of both versions are uploaded, and p1 has values in its store.
\* Any other project is still to be created.
PublishedInit ==
  /\ projects = [p \in Project |->
       IF p = p1 THEN [EmptyRecord EXCEPT !.write_pubkey = k1,
                         !.expires_at = 1, !.root_cid = m1,
                         !.blob_cids = {m1, f1}]
       ELSE None]
  /\ blobs = Cid
  /\ kv = {p1}
  /\ owner = [p \in Project |-> IF p = p1 /\ u1 \in User THEN u1 ELSE None]
  /\ clock = 0
  /\ req = [q \in Req |-> IdleReq]
  /\ reaper = Asleep
  /\ faults = 0
  /\ crashes = 0
  /\ creator = [p \in Project |-> IF p = p1 THEN k1 ELSE None]
  /\ touched = {}
  /\ unread = {}

\* p1 as above; p2 has published m2, is due at time 2, and shares m1 and f1.
SharedInit ==
  /\ projects = [p \in Project |->
       CASE p = p1 -> [EmptyRecord EXCEPT !.write_pubkey = k1,
                         !.expires_at = 1, !.root_cid = m1,
                         !.blob_cids = {m1, f1}]
         [] p = p2 -> [EmptyRecord EXCEPT !.write_pubkey = k1,
                         !.expires_at = 2, !.root_cid = m2,
                         !.blob_cids = Cid]]
  /\ blobs = Cid
  /\ kv = {p1, p2}
  /\ owner = [p \in Project |-> None]
  /\ clock = 0
  /\ req = [q \in Req |-> IdleReq]
  /\ reaper = Asleep
  /\ faults = 0
  /\ crashes = 0
  /\ creator = [p \in Project |-> k1]
  /\ touched = {}
  /\ unread = {}

FairShared == SharedInit /\ [][Next]_vars /\ Fairness
Published == PublishedInit /\ [][Next]_vars

=============================================================================
