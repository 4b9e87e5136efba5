---------------------------- MODULE MCUndoHistory ----------------------------
(* UndoHistory on small instances: see the README for the bounds.           *)
EXTENDS UndoHistory

CONSTANTS n1, r1, k1, mod
=============================================================================
