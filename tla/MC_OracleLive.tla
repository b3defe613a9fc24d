---------------------------- MODULE MC_OracleLive ----------------------------
(***************************************************************************)
(* Model-checking instance of OracleLive; the constants are given in the   *)
(* .cfg files.  No symmetry: the runs check liveness.                      *)
(***************************************************************************)
EXTENDS OracleLive
=============================================================================
