----------------------------- MODULE MCMembers -----------------------------
(***************************************************************************)
(* A small instance of Members: two pages, an administrator, a member who  *)
(* may be created, and a login to compete for.                             *)
(***************************************************************************)
EXTENDS Members, TLC

CONSTANTS p1, p2, admin, ann, blank

Symmetric == Permutations({p1, p2})

=============================================================================
