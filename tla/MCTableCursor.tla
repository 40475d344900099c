--------------------------- MODULE MCTableCursor ---------------------------
(* A small instance of TableCursor for TLC. *)
EXTENDS TableCursor

Few == 1..4
=============================================================================
