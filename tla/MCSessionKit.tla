---------------------------- MODULE MCSessionKit ----------------------------
(* Small instances of SessionKit for TLC. *)
EXTENDS SessionKit, TLC

\* A wallet that answers a login with all its link fields.
AllLinks == {LinkField}

Symmetry == Permutations(Ops)
=============================================================================
