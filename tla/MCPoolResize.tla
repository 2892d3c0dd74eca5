---------------------------- MODULE MCPoolResize ----------------------------
(***************************************************************************)
(* A small instance of PoolResize for TLC.                                 *)
(***************************************************************************)
EXTENDS PoolResize, TLC

Interchangeable == Permutations(Pool)
=============================================================================
