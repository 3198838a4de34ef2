----------------------------- MODULE MCAccounts -----------------------------
(* Two accounts left by Certbot under the predecessor, room for two more.   *)
EXTENDS Accounts
=============================================================================
