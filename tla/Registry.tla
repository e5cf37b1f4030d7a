------------------------------ MODULE Registry ------------------------------
(***************************************************************************)
(* What the server promises of project records, without its tasks, its     *)
(* storage calls and its tiers.  A project has a holder: the key that      *)
(* created it.  The holder signs orders: set the root, the name or the     *)
(* deadline, or delete the project.  An order that was admitted is drawn   *)
(* up later: what it sets is set in the record as it is at that moment,    *)
(* and nothing else.  Later still, or never, the result replaces the       *)
(* record.                                                                 *)
(*                                                                         *)
(* That is all the code promises.  What others wrote between the two       *)
(* moments is lost, and a record they removed comes back; an order that    *)
(* nobody wrote under changes only what it sets.  A project that was seen  *)
(* past its deadline is doomed, and removed later or spared.  Nothing else *)
(* changes a record.                                                       *)
(***************************************************************************)
EXTENDS Naturals

CONSTANTS
  None, Project, Key, Slot,
  Record,     \* with root_cid, write_pubkey, expires_at, blob_cids and name
  Needs,      \* Needs[m]: blobs of version m and of all versions before it
  Lifetime,   \* longest times to live, one for each tier that has one
  Unlimited   \* whether some tier has none

VARIABLES record, holder, order, doomed, now

vars == <<record, holder, order, doomed, now>>

-----------------------------------------------------------------------------

\* A deadline that some tier allows today.
Allowed(e) == Unlimited \/ (e # None /\ \E d \in Lifetime : e <= now + d)

Overdue(r) == r.expires_at # None /\ r.expires_at <= now

\* What an order sets, in a record r.  A version is published with all the
\* blobs it needs.
Set(r, o) ==
  CASE o.op = "update_root" ->
         [r EXCEPT !.root_cid = o.arg, !.blob_cids = Needs[o.arg]]
    [] o.op = "update_name" -> [r EXCEPT !.name = o.arg]
    [] o.op = "extend_ttl" -> [r EXCEPT !.expires_at = o.arg]

Init ==
  /\ DOMAIN record = Project /\ holder \in [Project -> Key \cup {None}]
  /\ \A p \in Project : record[p] # None =>
       record[p] \in Record /\ holder[p] \in Key
         /\ record[p].write_pubkey = holder[p]
  /\ order = [q \in Slot |-> None]
  /\ doomed = {}
  /\ now \in Nat

\* A project begins without a version, with its holder's key.
Create(p) ==
  /\ holder[p] = None
  /\ record'[p] \in Record
  /\ record'[p].root_cid = None /\ record'[p].blob_cids = {}
  /\ Allowed(record'[p].expires_at)
  /\ record'[p].write_pubkey \in Key
  /\ holder' = [holder EXCEPT ![p] = record'[p].write_pubkey]
  /\ record' = [record EXCEPT ![p] = record'[p]]
  /\ UNCHANGED <<order, doomed, now>>

\* The holder of p orders something, not drawn up yet.
Admit(q, p) ==
  /\ order[q] = None
  /\ record[p] # None
  /\ order' = [order EXCEPT ![q] = order'[q]]
  /\ order'[q] # None
  /\ order'[q] = [project |-> p, key |-> holder[p], op |-> order'[q].op,
                  arg |-> order'[q].arg, draft |-> None]
  /\ \/ order'[q].op \in {"update_root", "update_name", "delete"}
     \/ order'[q].op = "extend_ttl" /\ Allowed(order'[q].arg)
  /\ UNCHANGED <<record, holder, doomed, now>>

\* The order is drawn up from the record as it is now.
DrawUp(q) ==
  LET o == order[q] IN
  /\ o # None /\ o.op # "delete" /\ o.draft = None
  /\ record[o.project] # None
  /\ o.op = "update_root" => o.arg \in DOMAIN Needs
  /\ order' = [order EXCEPT ![q] = [o EXCEPT !.draft = Set(record[o.project], o)]]
  /\ UNCHANGED <<record, holder, doomed, now>>

\* The draft replaces whatever the record is by now, or the record goes.
CarryOut(q) ==
  LET o == order[q] IN
  /\ o # None
  /\ o.key = holder[o.project]
  /\ (o.op = "delete") <=> (o.draft = None)
  /\ record' = [record EXCEPT ![o.project] = o.draft]
  /\ order' = [order EXCEPT ![q] = None]
  /\ UNCHANGED <<holder, doomed, now>>

Drop(q) ==
  /\ order' = [order EXCEPT ![q] = None]
  /\ UNCHANGED <<record, holder, doomed, now>>

Doom(p) ==
  /\ record[p] # None /\ Overdue(record[p])
  /\ doomed' = doomed \cup {p}
  /\ UNCHANGED <<record, holder, order, now>>

Expire(p) ==
  /\ p \in doomed
  /\ record' = [record EXCEPT ![p] = None]
  /\ doomed' = doomed \ {p}
  /\ UNCHANGED <<holder, order, now>>

Spare(p) ==
  /\ doomed' = doomed \ {p}
  /\ UNCHANGED <<record, holder, order, now>>

Tick == now' = now + 1 /\ UNCHANGED <<record, holder, order, doomed>>

\* A restart: what was admitted or doomed is forgotten.
Forget ==
  /\ order' = [q \in Slot |-> None]
  /\ doomed' = {}
  /\ UNCHANGED <<record, holder, now>>

Next ==
  \/ \E p \in Project : Create(p) \/ Doom(p) \/ Expire(p) \/ Spare(p)
  \/ \E q \in Slot : \/ \E p \in Project : Admit(q, p)
                     \/ DrawUp(q) \/ CarryOut(q) \/ Drop(q)
  \/ Tick
  \/ Forget

Spec == Init /\ [][Next]_vars

=============================================================================
