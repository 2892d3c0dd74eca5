------------------------------- MODULE MCTmdb -------------------------------
(***************************************************************************)
(* Small instances of Tmdb for TLC: the real number of buckets, few keys.  *)
(***************************************************************************)
EXTENDS Tmdb, TLC

CONSTANTS k1, k2, k3

\* k1 and k2 share a bucket.
OneBucket  == [k \in {k1, k2} |-> 7]

\* k3 is in a bucket that a delete of k1 takes for its own.
TwoBuckets == k1 :> 14 @@ k2 :> 14 @@ k3 :> 7

Interchangeable == Permutations(Handle) \cup Permutations(Data)
=============================================================================
