--------------------------- MODULE MCCacheRenewal ---------------------------
EXTENDS CacheRenewal
CONSTANTS c1, p1, p2
=============================================================================
