------------------------------ MODULE MCRekey ------------------------------
(***************************************************************************)
(* A small instance of Rekey.  Nodes are interchangeable.                  *)
(***************************************************************************)
EXTENDS Rekey, TLC

NodeSymmetry == Permutations(Nodes)
=============================================================================
