----------------------------- MODULE MCSandbox -----------------------------
(* One tab: files for a second one do not fit the time of a run; the       *)
(* proofs are about any number of them.                                    *)
EXTENDS Sandbox
============================================================================
