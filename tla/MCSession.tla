----------------------------- MODULE MCSession -----------------------------
(***************************************************************************)
(* The instance of Session on which clients, and the slots of connections, *)
(* are interchangeable.  No property of its run is a liveness property.    *)
(***************************************************************************)
EXTENDS Session, TLC

Symmetry == Permutations(Clients) \cup Permutations(Conns)
=============================================================================
