--------------------------- MODULE MCCacheStorage ---------------------------
\* CacheStorage on small instances.
EXTENDS CacheStorage, TLC

\* Files are interchangeable. Only for safety runs.
MCSymmetry == Permutations(Files)
=============================================================================
