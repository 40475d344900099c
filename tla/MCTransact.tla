----------------------------- MODULE MCTransact -----------------------------
(* Small instances of Transact for TLC. *)
EXTENDS Transact, TLC

Symmetry == Permutations(Calls)
=============================================================================
