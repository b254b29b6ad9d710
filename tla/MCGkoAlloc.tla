----------------------------- MODULE MCGkoAlloc -----------------------------
(* Three buckets of two blocks, so that a bucket can fill, empty and be    *)
(* fetched again while others are in use, and two threads.                 *)
EXTENDS GkoAlloc, TLC

Symmetry == Permutations(Clients) \cup Permutations(Regions)
=============================================================================
