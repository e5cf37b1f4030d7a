----------------------------- MODULE MCExporter -----------------------------
(***************************************************************************)
(* Instances of Exporter, and with it of FsStores, for TLC.                *)
(***************************************************************************)
EXTENDS Exporter, TLC

CONSTANTS short, long

\* A record of one page that is due at time 1, and one of two that never is;
\* blobs have two pages.
MCPages == [v \in Value |-> IF v = short THEN 1 ELSE 2]
MCDeadline == [v \in Version |-> IF v = short THEN 1 ELSE None]

Symmetry == Permutations(Task) \cup Permutations(Project)
=============================================================================
