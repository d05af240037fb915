------------------------------ MODULE MCOrderBy ------------------------------
(***************************************************************************)
(* OrderBy instantiated for TLC; the constants are given in the .cfg files. *)
(***************************************************************************)
EXTENDS OrderBy
=============================================================================
