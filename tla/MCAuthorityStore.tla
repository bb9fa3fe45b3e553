------------------------- MODULE MCAuthorityStore -------------------------
(* AuthorityStore with few updates and crashes.                            *)
EXTENDS AuthorityStore

=============================================================================
