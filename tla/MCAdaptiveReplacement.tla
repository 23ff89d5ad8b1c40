------------------------- MODULE MCAdaptiveReplacement -------------------------
(* Model-checking instance of AdaptiveReplacementCacheManager: the         *)
(* directory (2 * MaxNodes) is one smaller than the set of keys, so that   *)
(* every case of onMiss is reached, and the listener answers the eviction  *)
(* of some of the keys by removing them.                                   *)
EXTENDS AdaptiveReplacementCacheManager
KeySymmetry == Permutations(Removing) \cup Permutations(Keys \ Removing)
=============================================================================
