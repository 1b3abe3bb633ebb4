----------------------------- MODULE MCCampaign -----------------------------
(* Campaigns of one or two roles on a repository.                          *)
EXTENDS Campaign

CONSTANT r1

TwoRoles == {"implementer", "reviewer"}

\* Both roles with one provider.
OneProvider == [k \in TwoRoles |-> "claude"]
OneEach == [k \in TwoRoles |-> 1]

OneRole == {"implementer"}
ItsProvider == [k \in OneRole |-> "claude"]
OneSlot == [k \in OneRole |-> 1]
TwoSlots == [k \in OneRole |-> 2]
=============================================================================
