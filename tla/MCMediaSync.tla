----------------------------- MODULE MCMediaSync -----------------------------
(* MediaSync on small instances: see the README for the bounds.  Devices,   *)
(* files and contents are interchangeable.                                  *)
EXTENDS MediaSync, TLC

CONSTANTS dev1, dev2, file1, file2, old, new, none

Interchangeable ==
  Permutations(Devices) \cup Permutations(Files) \cup Permutations(Contents)
=============================================================================
