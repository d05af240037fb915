-------------------------- MODULE MCLimitMergeJoin --------------------------
EXTENDS LimitMergeJoin
=============================================================================
