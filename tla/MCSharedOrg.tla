----------------------------- MODULE MCSharedOrg -----------------------------
(* An instance of SharedOrg: three runs that find one snapshot unfinished.  *)
EXTENDS SharedOrg

CONSTANTS p1, p2, p3

ThreeRuns == {p1, p2, p3}
=============================================================================
