---------------------------- MODULE MCCacheAside ----------------------------
(***************************************************************************)
(* A small instance of CacheAside for TLC.                                 *)
(***************************************************************************)
EXTENDS CacheAside, TLC

Interchangeable == Permutations(Thread)

\* Bound: entries in the cache after the first round of tmdb, which removes none
\* of its records, so that the combinations of old entries and new ones multiply.
MaxEntries == 1

FewEntries ==
  backend.kind = "tmdb" /\ program.round > 1 =>
    Cardinality({e \in Entry : cache[e] # NoValue}) <= MaxEntries
=============================================================================
