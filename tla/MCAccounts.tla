------------------------------ MODULE MCAccounts ------------------------------
(* The instances of Accounts for TLC need no definitions of their own. *)
EXTENDS Accounts
=============================================================================
