------------------------------ MODULE MCAccess ------------------------------
(***************************************************************************)
(* The instance of Access on which workers, and addresses, are             *)
(* interchangeable.  No property of its run is a liveness property.        *)
(***************************************************************************)
EXTENDS Access, TLC

CONSTANTS p, q

\* A reader with the default password, and another admin.
NewAccountsMC == {[pass |-> p, perm |-> 1], [pass |-> q, perm |-> 3]}

Symmetry == Permutations(Workers) \cup Permutations(Ids)
=============================================================================
