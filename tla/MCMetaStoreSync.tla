--------------------------- MODULE MCMetaStoreSync ---------------------------
EXTENDS MetaStoreSync
\* Later batches put some of the rows of the earlier ones.
Overlapping == [n \in Writes |-> IF n % 2 = 1 THEN {"a"} ELSE {"a", "b"}]
=============================================================================
