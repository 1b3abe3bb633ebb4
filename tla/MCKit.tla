------------------------------- MODULE MCKit --------------------------------
(* Two skills, so that one can be torn while the other is missing.         *)
EXTENDS Kit, TLC

CONSTANTS s1, s2, f1, f2, r1, r2, claude, node

MCSkills == {s1, s2}
=============================================================================
