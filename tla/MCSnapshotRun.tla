---------------------------- MODULE MCSnapshotRun ----------------------------
(* Instances of SnapshotRun: two repositories, one dataset fetched before   *)
(* or after "repositories" in the order of the names, or both.              *)
EXTENDS SnapshotRun

CONSTANTS r1, r2, issues, stargazers

TwoRepos   == {r1, r2}
NoDataset  == <<>>
Issues     == <<issues>>
Stargazers == <<stargazers>>
=============================================================================
