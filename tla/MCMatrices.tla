----------------------------- MODULE MCMatrices -----------------------------
(***************************************************************************)
(* An instance of Matrices on its own.                                     *)
(***************************************************************************)
EXTENDS Matrices, MatrixScripts
=============================================================================
