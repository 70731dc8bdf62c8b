---------------------------- MODULE MCOrgDirectory ----------------------------
(* An instance of OrgDirectory: two teams, one with two members and one     *)
(* with none, a page for every item; a guard that raises at two failures in *)
(* a row, or at half of four or more requests.                              *)
EXTENDS OrgDirectory, TLC

CONSTANTS teams, t1, t2

TwoTeams == {t1, t2}
Sizes    == teams :> 2 @@ t1 :> 2 @@ t2 :> 0
Order    == <<t1, t2>>
=============================================================================
