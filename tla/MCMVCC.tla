------------------------------ MODULE MCMVCC ------------------------------
(***************************************************************************)
(* Model-checking instance of MVCC.                                        *)
(***************************************************************************)
EXTENDS MVCC

CONSTANTS k1, k2, tbl
=============================================================================
