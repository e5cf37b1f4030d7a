----------------------------- MODULE Manifests -----------------------------
(***************************************************************************)
(* The immutable, content-addressed data the server stores: blobs named by *)
(* their CID.  Some blobs parse as manifests; a manifest names the blobs   *)
(* of its files and, optionally, the manifest of the previous version.     *)
(* A CID is the hash of its bytes, so what a CID means never changes: the  *)
(* contents are constants, and only the presence of a blob is state.       *)
(***************************************************************************)
EXTENDS Naturals

CONSTANTS
  None,          \* Rust's Option::None
  Cid,           \* the CIDs of the instance
  Manifest,      \* the CIDs whose bytes parse as a manifest
  Files,         \* Files[m]: the CIDs of the file entries of manifest m
  Parent,        \* Parent[m]: its parent_cid, or None
  Size           \* Size[m]: the sum of the sizes its file entries state

ASSUME NoneIsNoCid == None \notin Cid

ASSUME ManifestsAreCids == Manifest \subseteq Cid

\* A parent is whatever the client wrote there: it need not be a manifest.
ASSUME ContentsType ==
  /\ Files \in [Manifest -> SUBSET Cid]
  /\ Parent \in [Manifest -> Cid \cup {None}]
  /\ Size \in [Manifest -> Nat]

\* A set of CIDs that holds the parent of every manifest in it.
ParentClosed(S) ==
  \A m \in S \cap Manifest : Parent[m] # None => Parent[m] \in S

\* The versions reachable from c along parent_cid, c itself included: the
\* least parent-closed set with c in it.
History(c) ==
  {x \in Cid : \A S \in SUBSET Cid : c \in S /\ ParentClosed(S) => x \in S}

\* A manifest's hash covers its parent's CID, so a chain has no cycle.
ASSUME ChainsHaveNoCycle ==
  \A m \in Manifest : Parent[m] \in Cid => m \notin History(Parent[m])

\* Every blob a project needs to serve its root and all versions before it.
Closure(c) ==
  History(c) \cup UNION {Files[m] : m \in History(c) \cap Manifest}

=============================================================================
