--------------------------- MODULE MCLockManager ---------------------------
(***************************************************************************)
(* Model-checking instance of LockManager: two transactions, one table,    *)
(* two rows.  Two transactions are enough for every pairwise conflict;     *)
(* two rows show that row locks on different rids never interfere.         *)
(***************************************************************************)
EXTENDS LockManager, TLC

CONSTANTS t1, t2, o1, r1, r2, rTable

MCXids == {t1, t2}
MCRids == {r1, r2}
MCSymmetry == Permutations(MCXids) \cup Permutations(MCRids)
=============================================================================
