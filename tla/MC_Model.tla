------------------------------ MODULE MC_Model ------------------------------
(* Model checking instance of Model: three versions, enough for a version *)
(* below and above the default and for rollbacks to a lower version.      *)
EXTENDS Model

MC_MaxVersion == 3
=============================================================================
