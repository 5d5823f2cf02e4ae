--------------------------- MODULE MC_ModelManager ---------------------------
(* ModelManager on a small instance, for TLC.                              *)
EXTENDS ModelManager

MC_MaxVersion == 1
MC_OneStart == 1
MC_TwoStarts == 2
MC_OneWrite == 1
MC_OneSecond == 1
=============================================================================
