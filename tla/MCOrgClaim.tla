------------------------------ MODULE MCOrgClaim ------------------------------
(* An instance of OrgClaim: two runs on one organization.                   *)
EXTENDS OrgClaim

CONSTANTS p1, p2

TwoRuns == {p1, p2}
=============================================================================
