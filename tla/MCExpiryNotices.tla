---------------------------- MODULE MCExpiryNotices ----------------------------
(* The instance of ExpiryNotices for TLC needs no definitions of its own. *)
EXTENDS ExpiryNotices
=============================================================================
