--------------------------- MODULE MCNestedLoopJoin ---------------------------
EXTENDS NestedLoopJoin
=============================================================================
