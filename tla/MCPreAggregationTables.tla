----------------------- MODULE MCPreAggregationTables -----------------------
EXTENDS PreAggregationTables
CONSTANTS r1, r2
=============================================================================
