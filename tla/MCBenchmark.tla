----------------------------- MODULE MCBenchmark -----------------------------
(***************************************************************************)
(* A small instance of Benchmark for TLC.                                  *)
(***************************************************************************)
EXTENDS Benchmark

Interchangeable == Permutations(Thread)
=============================================================================
