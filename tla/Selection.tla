------------------------------ MODULE Selection ------------------------------
(***************************************************************************)
(* Which datasets and repositories a run considers:                        *)
(* resolve_dataset_selection and RepositoryFilter of selection.py.         *)
(*                                                                         *)
(* A request is a sequence of dataset names, or None for the default tier. *)
(* A filter is a record: names is an allowlist of repositories or None.    *)
(***************************************************************************)
EXTENDS Sequences, FiniteSets, SequencesExt

CONSTANTS
    Registry,        \* the datasets in the order the catalog registers them
    DependsOn,       \* DependsOn[d]: the datasets d names in depends_on
    DefaultTier,     \* the datasets of the default tier, in that order
    Repo,            \* repositories of the organization
    Archived, Fork,  \* which of them are archived, or forks
    None

Dataset == Range(Registry)

ASSUME RegistryAssumption == /\ Registry \in Seq(Dataset) /\ IsInjective(Registry)
                             /\ DependsOn \in [Dataset -> Seq(Dataset)]
                             /\ DefaultTier \in Seq(Dataset)
ASSUME RepoAssumption == Archived \subseteq Repo /\ Fork \subseteq Repo

----------------------------------------------------------------------------
(* resolve_dataset_selection                                               *)

(* dict.fromkeys: the first occurrence of each name, in request order.     *)
Deduplicated(names) ==
    FoldLeft(LAMBDA seen, d : IF Contains(seen, d) THEN seen ELSE Append(seen, d),
             <<>>, names)

(* get: a name outside the registry is refused, as is an empty request.    *)
Resolvable(request) ==
    request # None => request # <<>> /\ Range(request) \subseteq Dataset

(* _include: a dataset follows the datasets it depends on, and is reported *)
(* as auto-included unless the request names it here.                      *)
MutantDependencies(d) == <<>>
Dependencies(d) == DependsOn[d]

Selected == [names : Seq(Dataset), auto : Seq(Dataset)]
Call(selection, name, explicit) ==
    [selection |-> selection, name |-> name, explicit |-> explicit]

Include[call \in [selection : Selected, name : Dataset, explicit : BOOLEAN]] ==
    IF Contains(call.selection.names, call.name) THEN call.selection
    ELSE LET before == FoldLeft(LAMBDA s, d : Include[Call(s, d, FALSE)],
                                call.selection, Dependencies(call.name))
         IN  [names |-> Append(before.names, call.name),
              auto  |-> IF call.explicit THEN before.auto
                                         ELSE Append(before.auto, call.name)]

Resolved(request) ==
    IF request = None
    THEN [names |-> DefaultTier, auto |-> <<>>]
    ELSE FoldLeft(LAMBDA s, d : Include[Call(s, d, TRUE)],
                  [names |-> <<>>, auto |-> <<>>], Deduplicated(request))

(* RepositoryFilter.allows.                                                *)
Allows(filter, r) ==
    /\ filter.names # None => r \in filter.names
    /\ filter.noArchived => r \notin Archived
    /\ filter.noForks => r \notin Fork

Considered(filter) == {r \in Repo : Allows(filter, r)}
NoFilter == [names |-> None, noArchived |-> FALSE, noForks |-> FALSE]

----------------------------------------------------------------------------
(* The datasets a request needs, by reference: those it names and all that *)
(* depends_on leads to from them.                                          *)
Needed[names \in SUBSET Dataset] ==
    LET more == names \cup UNION {Range(DependsOn[d]) : d \in names}
    IN  IF more = names THEN names ELSE Needed[more]

(* The catalog has no cycle: _include would not return.                    *)
ASSUME AcyclicAssumption == \A d \in Dataset : d \notin Needed[Range(DependsOn[d])]

(* A selection is what a request needs, each dataset after those it        *)
(* depends on, with every one the request did not name reported.           *)
IsClosureOf(selection, request) ==
    /\ Range(selection.names) = Needed[Range(request)]
    /\ IsInjective(selection.names)
    /\ \A i, j \in DOMAIN selection.names :
          Contains(DependsOn[selection.names[j]], selection.names[i]) => i < j
    /\ Needed[Range(request)] \ Range(request) \subseteq Range(selection.auto)
=============================================================================
