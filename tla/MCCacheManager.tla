---------------------------- MODULE MCCacheManager ----------------------------
EXTENDS CacheManager, TLC
\* A long value, a short one and a long one.
SizesFirst == <<2, 1, 2>>
Symmetry == Permutations(Calls)
=============================================================================
