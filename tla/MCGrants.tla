------------------------------- MODULE MCGrants --------------------------------
(* The instance of Grants that TLC checks.                                  *)
EXTENDS Grants, TLC

CONSTANTS old, new, q1, q2, q3

MCOf == q1 :> old @@ q2 :> old @@ q3 :> new

Symmetric == Permutations({q1, q2})
=============================================================================
