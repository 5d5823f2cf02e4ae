--------------------- MODULE MC_CustomNodeLibraryManager --------------------
(* Two names and two paths: enough for two names sharing one library file, *)
(* a name moving from one file to another and back, and an unload of one   *)
(* name while the other keeps the same file open.                          *)
EXTENDS CustomNodeLibraryManager

CONSTANTS n1, n2, p1, p2

MC_Names == {n1, n2}
MC_Paths == {p1, p2}
MC_MaxHandles == 3
=============================================================================
