---------------------------- MODULE MCConcurrentWal ----------------------------
EXTENDS ConcurrentWal, TLC

\* Pages are interchangeable: nothing in the model names one.
PageSymmetry == Permutations(Pages)
=============================================================================
