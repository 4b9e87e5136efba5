-------------------------- MODULE MCConceptReview --------------------------
(* ConceptReview on small instances: see the README for the bounds.         *)
EXTENDS ConceptReview

CONSTANTS a, b, p
=============================================================================
