-------------------------- MODULE MCNonceGenerator --------------------------
(***************************************************************************)
(* A small instance of NonceGenerator.  The goroutines are interchangeable *)
(* but symmetry is not sound for the liveness property, so none is used.   *)
(***************************************************************************)
EXTENDS NonceGenerator
=============================================================================
