------------------------------ MODULE MCIssue -------------------------------
(* A lineage named after the first domain, and the name of its duplicate;   *)
(* the second domain comes after the first, or with --cert-name.            *)
EXTENDS Issue

FirstNames == [d \in Domain |-> IF d = "a" THEN "a" ELSE None]
=============================================================================
