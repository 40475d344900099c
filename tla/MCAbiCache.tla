----------------------------- MODULE MCAbiCache -----------------------------
(* Small instances of AbiCache for TLC. *)
EXTENDS AbiCache, TLC

\* Calls and names are interchangeable; liveness runs do without it.
Symmetry == Permutations(Calls)
=============================================================================
