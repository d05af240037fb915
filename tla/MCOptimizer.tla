----------------------------- MODULE MCOptimizer -----------------------------
EXTENDS Optimizer
=============================================================================
