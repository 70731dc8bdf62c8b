------------------------------ MODULE MCRunGate ------------------------------
(***************************************************************************)
(* RunGate with the catalog of the program.  The requests have every shape *)
(* of dependency, a dataset that cannot be fetched, an order and its       *)
(* reverse, a name given twice, an unknown name and nothing at all; one of *)
(* the two repositories is archived, the other a fork.  An administrator   *)
(* grants everything or withholds the permission for issues.               *)
(***************************************************************************)
EXTENDS RunGate, Catalog

DependsOnMap == [d \in Dataset |-> DependsOnOf(d)]
RequiredMap  == [d \in Dataset |-> {RequiredPermission(d)}]

Repos   == {"old", "copy"}
OldOnes == {"old"}
Copies  == {"copy"}

Everything == {RequiredPermission(d) : d \in Range(AllDatasets)}
States == {[reach |-> "all", granted |-> Everything],
           [reach |-> "selected", granted |-> Everything],
           [reach |-> "all", granted |-> Everything \ {"issues"}]}
Unreliable == {"issues"}

Default == NoAsk
Only(request) == [NoAsk EXCEPT !.request = request]
Asks ==
    {Default,
     [Default EXCEPT !.fail_fast = TRUE],
     [Default EXCEPT !.resume = Fresh],
     [Default EXCEPT !.resume = 0, !.allow_stale = TRUE],
     Only(<<"no_such_dataset">>),
     [Only(<<"packages", "issues">>) EXCEPT !.resume = 0],
     [Only(<<"issues", "packages", "issues">>) EXCEPT !.fail_fast = TRUE],
     [Only(<<"issues", "packages">>) EXCEPT !.filter.noForks = TRUE],
     [Only(<<"team_repositories", "teams">>) EXCEPT !.filter.names = {"old"}],
     [Only(<<"team_repositories", "teams">>) EXCEPT !.filter.names = {}],
     Only(<<"teams", "team_repositories">>)}

(* Nothing is left to see once the last command has ended.                 *)
MoreToSee == pc # "off" \/ starts < MaxStarts
=============================================================================
