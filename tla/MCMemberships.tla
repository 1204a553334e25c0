--------------------------- MODULE MCMemberships ---------------------------
(* Memberships on the casts of MCPeople.                                   *)
EXTENDS Memberships, MCPeople
=============================================================================
