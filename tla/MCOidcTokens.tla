---------------------------- MODULE MCOidcTokens ----------------------------
(* OidcTokens for TLC: two callers of which one has a terminal to log in on.   *)
EXTENDS OidcTokens

CONSTANTS c1, c2
=============================================================================
