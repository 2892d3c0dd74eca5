---------------------------- MODULE MCShmSession ----------------------------
(***************************************************************************)
(* Small instances of ShmSession for TLC.                                  *)
(***************************************************************************)
EXTENDS ShmSession, TLC

\* Keys and data are interchangeable: no property distinguishes them.
Interchangeable == Permutations(Key) \cup Permutations(Data)
SessionsToo     == Interchangeable \cup Permutations(Session)
=============================================================================
