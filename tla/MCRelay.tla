------------------------------ MODULE MCRelay -------------------------------
(* The relay on two items: enough for a second claim and a wrong item id.  *)
EXTENDS Relay, TLC

CONSTANTS i1, i2

MCItems == {i1, i2}

\* Items are interchangeable.
Symmetry == Permutations(MCItems)
=============================================================================
