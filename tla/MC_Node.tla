------------------------------- MODULE MC_Node -------------------------------
(* Three dependencies: d1 feeds inputs a and b (outputs o1, o2 in that     *)
(* order), d2 feeds c from o1, and d3 feeds d and e from o2, o1, so a     *)
(* failure on the second pair happens after the first input was set.  One session for the pipeline as the code      *)
(* uses it, two for the per-session routing of spec section 4.4.           *)
EXTENDS Node

CONSTANTS d1, d2, d3, s1, s2

MC_Deps == {d1, d2, d3}
MC_Mapping == [d \in MC_Deps |->
                 IF d = d1 THEN << <<"o1", "a">>, <<"o2", "b">> >>
                 ELSE IF d = d2 THEN << <<"o1", "c">> >>
                 ELSE << <<"o2", "d">>, <<"o1", "e">> >>]
MC_OneSession == {s1}
MC_TwoSessions == {s1, s2}
=============================================================================
