--------------------------- MODULE MCPoolRegistry ---------------------------
(***************************************************************************)
(* Small instances of PoolRegistry for TLC.                                *)
(***************************************************************************)
EXTENDS PoolRegistry, TLC

Interchangeable == Permutations(Client) \cup Permutations(Pool)
=============================================================================
