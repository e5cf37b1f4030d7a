--------------------------- MODULE ServerRegistry ---------------------------
(***************************************************************************)
(* LwidServer implements Registry.  A handler has an order from the moment *)
(* it has checked the signature until it has written or removed the        *)
(* record; it draws it up when it reads the record for the second time.    *)
(* The reaper's doomed projects are those it found expired in its first    *)
(* pass and has not come to in the second.                                 *)
(***************************************************************************)
EXTENDS LwidServer

OrderPc == {"manifest", "walk", "get", "put", "delete_get", "remove"}

\* What the request asks for: the root is a local until its manifest was read.
Asked(r) ==
  CASE r.op = "update_root" -> IF r.pc = "manifest" THEN r.next ELSE r.rec.root_cid
    [] r.op = "update_name" -> r.rec.name
    [] r.op = "extend_ttl" -> r.rec.expires_at
    [] OTHER -> None

OrderOf(r) ==
  IF r.pc \in OrderPc
  THEN [project |-> r.id, key |-> r.key, op |-> r.op, arg |-> Asked(r),
        draft |-> IF r.pc = "put" THEN r.rec ELSE None]
  ELSE None
Orders(rs) == [q \in Req |-> OrderOf(rs[q])]

Order ==
  [project : Project, key : Key, op : UpdateOps \cup {"delete"},
   arg : Cid \cup Name \cup Nat \cup {None}, draft : ProjectRecord \cup {None}]
ASSUME NoneIsNoOrder == None \notin Order

DoomedNow ==
  reaper.expired \cup (IF reaper.pc = "remove" THEN {reaper.cur} ELSE {})

Tier == {c \in Caller : MaxTtl[c] # NeverTtl}

Promise == INSTANCE Registry WITH
  Slot <- Req,
  Record <- ProjectRecord,
  Needs <- [m \in Manifest |-> Closure(m)],
  Lifetime <- {Duration[MaxTtl[c]] : c \in Tier},
  Unlimited <- Tier # Caller,
  record <- projects,
  holder <- creator,
  order <- Orders(req),
  doomed <- DoomedNow,
  now <- clock

\* Whatever tasks do in between, the records change as if each signed order had
\* set what it asks for, and nothing else, in the record as it was at one
\* moment after it was admitted, each removal for age had been decided on a
\* record past its deadline, and nothing else ever touched them.
ImplementsRegistry == Promise!Spec

=============================================================================
