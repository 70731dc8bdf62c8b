---------------------------- MODULE MCRepoHarvest ----------------------------
(***************************************************************************)
(* RepoHarvest on small instances.  Two repositories in one batch that can *)
(* split; pages of two, so that one repository needs two pages and the     *)
(* other one; and a cap that the first reaches in the middle of a page.    *)
(***************************************************************************)
EXTENDS RepoHarvest, TLC

CONSTANTS a, b

TwoRepos   == {a, b}
TwoInOrder == <<a, b>>
TwoCounts  == (a :> 4) @@ (b :> 1)

OneRepo    == {a}
OneInOrder == <<a>>
OneCount   == (a :> 3)
=============================================================================
