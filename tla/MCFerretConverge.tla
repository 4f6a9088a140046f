-------------------------- MODULE MCFerretConverge --------------------------
(* FerretConverge on two seeded collections, one with a unique index.      *)
EXTENDS FerretConverge
=============================================================================
