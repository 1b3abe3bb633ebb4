------------------------------ MODULE MCTarget ------------------------------
(* One item and its pull request, on a branch that may be renamed.         *)
EXTENDS Target

CONSTANTS feature, renamed

MCRefs == {feature, renamed}
=============================================================================
