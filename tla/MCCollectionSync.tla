-------------------------- MODULE MCCollectionSync --------------------------
(* CollectionSync on small instances: see the README for the bounds.       *)
EXTENDS CollectionSync

CONSTANTS a, b, c, c1, c2, d1
=============================================================================
