------------------------------- MODULE MCAccess -------------------------------
(* An instance of Access for TLC. *)
EXTENDS Access, TLC

CONSTANTS p1, p2, m1, m2, k1

MCHomeOf == m1 :> p1 @@ m2 :> p2
MCScopeOf == k1 :> p2
MCGrants == k1 :> {"read", "delete"}
MCFounder == p1 :> "admin" @@ p2 :> "viewer"

Symmetry == Permutations(Request) \cup Permutations(Session) \cup Permutations(Password)
=============================================================================
