---------------------------- MODULE MCCacheStore ----------------------------
(* Instances of CacheStore for TLC. *)
EXTENDS CacheStore

Symmetry == Permutations(Keys) \cup Permutations(Fetches) \cup Permutations(Readers)
=============================================================================
