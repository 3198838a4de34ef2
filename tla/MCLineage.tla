----------------------------- MODULE MCLineage -----------------------------
(* Lineage with a few versions and mishaps.                                *)
EXTENDS Lineage
=============================================================================
